---------------------------- MODULE MemoryProofs ----------------------------
(***************************************************************************)
(* Safety of the memory manager, the kernel heap and the segments, for any *)
(* memory, page tables, processes, programs and size class.                *)
(*                                                                         *)
(* MemInv holds throughout: the kernel's pages that are given back have    *)
(* one use each (Apart), stacks are mapped and disjoint (Stacked), a       *)
(* process has its memory exactly while it has a thread (LifeInv), and so  *)
(* on.  FrameInv, on top, accounts for every frame (Framed, SegInv,        *)
(* MapInv); it needs MemInv for what the end of a process frees.           *)
(*                                                                         *)
(* Most steps only map frames that were free at entries that were free     *)
(* (Grow), which the invariants survive by one lemma each; making a        *)
(* segment, attaching it and the end of a process have lemmas of their     *)
(* own.  Recursive functions (BrkLoop, Boot, SumFunction) are shown to     *)
(* exist by taking the least number for which they would not.              *)
(***************************************************************************)
EXTENDS SharedMemory, FiniteSetTheorems, TLAPS

-----------------------------------------------------------------------------
(* Numbers *)

\* A set of numbers that is not empty has a least one.
LEMMA LeastNumber ==
  ASSUME NEW T, T \subseteq Nat, T # {}
  PROVE  \E x \in T : \A y \in T : x =< y
<1>1. PICK x \in T : \A y \in T : <<y, x>> \notin OpToRel(<, Nat)
  BY NatLessThanWellFounded, WFMin
<1>2. ASSUME NEW y \in T PROVE ~(y < x)
  <2>1. y < x => <<y, x>> \in OpToRel(<, Nat)
    BY DEF OpToRel
  <2>. QED BY <1>1, <2>1, Zenon
<1>3. \A y \in T : x =< y
  BY <1>2
<1>. QED BY <1>3

\* The search for a row of free entries ends at one, where there is one.
LEMMA FirstFitFits ==
  ASSUME NEW busy, NEW n \in Nat, NEW size \in Nat, Fits(busy, n, size) # {}
  PROVE  FirstFit(busy, n, size) \in Fits(busy, n, size)
<1>1. Fits(busy, n, size) \subseteq Nat
  BY DEF Fits
<1>2. \E i \in Fits(busy, n, size) : \A j \in Fits(busy, n, size) : i =< j
  BY <1>1, LeastNumber
<1>. QED BY <1>2 DEF FirstFit

-----------------------------------------------------------------------------
(* Allocation *)

\* The values of the record that mem.c's operators work on.
MemRec == [used : SUBSET Frame, high : [HPage -> Frame \cup {NONE}],
           ptab : [Proc -> [LPage -> Frame \cup {NONE}]]]

\* What MmAllocPages does to the memory: a row of frames and a row of entries,
\* all of them free.
LEMMA AllocHigh ==
  ASSUME NEW m \in MemRec, NEW n \in Nat, RoomHigh(m, n)
  PROVE  \E f \in Nat, v \in Nat :
           /\ f..(f + n - 1) \subseteq Frame \ m.used
           /\ v..(v + n - 1) \subseteq HPage \ Mapped(m.high) /\ v \in HPage
           /\ MmAllocPages(m, n).virt = v
           /\ MmAllocPages(m, n).m =
                [used |-> m.used \cup f..(f + n - 1), high |-> Map(m.high, v, f, n), ptab |-> m.ptab]
<1>. DEFINE f == FirstFit(m.used, n, NFrames)
            v == FirstFit(Mapped(m.high), n, NHigh)
<1>1. f \in Fits(m.used, n, NFrames) /\ v \in Fits(Mapped(m.high), n, NHigh)
  BY FirstFitFits, MemoryAssumption DEF RoomHigh
<1>2. /\ f \in Nat /\ f..(f + n - 1) \subseteq Frame \ m.used
      /\ v \in Nat /\ v \in HPage /\ v..(v + n - 1) \subseteq HPage \ Mapped(m.high)
  <2>. HIDE DEF f, v
  <2>. QED BY <1>1, MemoryAssumption DEF Fits, Frame, HPage
<1>3. /\ MmAllocPages(m, n).virt = v
      /\ MmAllocPages(m, n).m =
           [used |-> m.used \cup f..(f + n - 1), high |-> Map(m.high, v, f, n), ptab |-> m.ptab]
  BY DEF MmAllocPages, kset_PageBits, MemRec
<1>. QED BY <1>2, <1>3

\* Neither MmAllocPages nor what it maps touches a process's table.
LEMMA AllocTables ==
  ASSUME NEW m \in MemRec, NEW n \in Nat, RoomHigh(m, n)
  PROVE  MmAllocPages(m, n).m.ptab = m.ptab
<1>1. PICK f \in Nat, v \in Nat :
        MmAllocPages(m, n).m =
          [used |-> m.used \cup f..(f + n - 1), high |-> Map(m.high, v, f, n), ptab |-> m.ptab]
  BY AllocHigh
<1>. QED BY <1>1

\* What MmAllocPagesLo and kunmap_Page do: a row of frames that were free.
LEMMA AllocLow ==
  ASSUME NEW m \in MemRec, NEW p \in Proc, NEW n \in Nat, RoomLow(m, p, n)
  PROVE  \E f \in Nat :
           /\ f..(f + n - 1) \subseteq Frame \ m.used
           /\ AllocUnmapped(m, p, n).phys = f
           /\ AllocUnmapped(m, p, n).m =
                [used |-> m.used \cup f..(f + n - 1), high |-> m.high, ptab |-> m.ptab]
<1>. DEFINE f == FirstFit(m.used, n, NFrames)
            v == FirstFit(Mapped(m.ptab[p]), n, NLow)
            u == kunmap_Page(Map(m.ptab[p], v, f, n), v, n)
<1>1. f \in Fits(m.used, n, NFrames) /\ v \in Fits(Mapped(m.ptab[p]), n, NLow)
  BY FirstFitFits, MemoryAssumption DEF RoomLow
<1>2. f \in Nat /\ f..(f + n - 1) \subseteq Frame \ m.used
  <2>. HIDE DEF f, v
  <2>. QED BY <1>1, MemoryAssumption DEF Fits, Frame
<1>3. m.ptab[p] \in [LPage -> Frame \cup {NONE}]
  BY DEF MemRec
<1>4. u = m.ptab[p]
  <2>1. v \in Nat /\ \A i \in v..(v + n - 1) : i \in LPage => m.ptab[p][i] = NONE
    <3>. HIDE DEF f, v
    <3>. QED BY <1>1, <1>3, MemoryAssumption DEF Fits, Mapped, LPage
  <2>. HIDE DEF f, v
  <2>. QED BY <1>3, <2>1 DEF kunmap_Page, Map
<1>5. AllocUnmapped(m, p, n).phys = f
  BY DEF AllocUnmapped
<1>6. AllocUnmapped(m, p, n).m =
        [m EXCEPT !.used = m.used \cup f..(f + n - 1), !.ptab = [m.ptab EXCEPT ![p] = u]]
  BY DEF AllocUnmapped, kset_PageBits, MemRec
<1>7. [m.ptab EXCEPT ![p] = u] = m.ptab
  <2>. HIDE DEF u
  <2>. QED BY <1>4 DEF MemRec
<1>8. AllocUnmapped(m, p, n).m =
        [used |-> m.used \cup f..(f + n - 1), high |-> m.high, ptab |-> m.ptab]
  <2>. HIDE DEF f, u
  <2>. QED BY <1>6, <1>7 DEF MemRec
<1>. QED BY <1>2, <1>5, <1>8

-----------------------------------------------------------------------------
(* Memory that grows *)

\* The entries of the kernel's table, 0, and of the processes' tables.
Entries == ({0} \X HPage) \cup (Proc \X LPage)
\* What an entry maps, and the entries that are new from m to n.
Val(m, x) == IF x[1] = 0 THEN m.high[x[2]] ELSE m.ptab[x[1]][x[2]]
New(m, n, x) == Val(m, x) = NONE /\ Val(n, x) # NONE

\* From m to n, frames that were free are mapped, each by an entry that was free,
\* of the kernel's table or of the one of p.
Grow(m, n, p) ==
  /\ n \in MemRec
  /\ m.used \subseteq n.used
  /\ \A x \in Entries : New(m, n, x) \/ Val(n, x) = Val(m, x)
  /\ \A x \in Entries : New(m, n, x) => x[1] \in {0, p} /\ Val(n, x) \in n.used \ m.used
  /\ \A x, y \in Entries : New(m, n, x) /\ New(m, n, y) /\ Val(n, x) = Val(n, y) => x = y
  /\ \A f \in n.used \ m.used : \E x \in Entries : New(m, n, x) /\ Val(n, x) = f

\* Growing is reflexive and, with GrowTrans, transitive.
LEMMA GrowSame ==
  ASSUME NEW m \in MemRec, NEW p
  PROVE  Grow(m, m, p)
BY DEF Grow, New

LEMMA GrowTrans ==
  ASSUME NEW m \in MemRec, NEW n, NEW o, NEW p, Grow(m, n, p), Grow(n, o, p)
  PROVE  Grow(m, o, p)
<1>1. o \in MemRec /\ m.used \subseteq n.used /\ n.used \subseteq o.used
  BY DEF Grow
<1>2. ASSUME NEW x \in Entries PROVE New(m, o, x) <=> New(m, n, x) \/ New(n, o, x) 
  BY DEF Grow, New
<1>3. ASSUME NEW x \in Entries PROVE New(m, n, x) => Val(o, x) = Val(n, x)
  BY DEF Grow, New
<1>4. ASSUME NEW x \in Entries PROVE New(m, o, x) \/ Val(o, x) = Val(m, x)
  BY DEF Grow, New
<1>5. ASSUME NEW x \in Entries, New(m, o, x) PROVE x[1] \in {0, p} /\ Val(o, x) \in o.used \ m.used
  BY <1>1, <1>2, <1>3, <1>5 DEF Grow
<1>6. ASSUME NEW x \in Entries, NEW y \in Entries, New(m, o, x), New(m, o, y), Val(o, x) = Val(o, y)
      PROVE  x = y
  BY <1>2, <1>3, <1>6 DEF Grow
<1>7. ASSUME NEW f \in o.used \ m.used PROVE \E x \in Entries : New(m, o, x) /\ Val(o, x) = f
  <2>1. CASE f \in n.used
    <3>1. PICK x \in Entries : New(m, n, x) /\ Val(n, x) = f
      BY <1>7, <2>1 DEF Grow
    <3>. QED BY <1>2, <1>3, <3>1
  <2>2. CASE f \notin n.used
    <3>1. PICK x \in Entries : New(n, o, x) /\ Val(o, x) = f
      BY <1>7, <2>2 DEF Grow
    <3>. QED BY <1>2, <3>1
  <2>. QED BY <2>1, <2>2
<1>. QED BY <1>1, <1>4, <1>5, <1>6, <1>7 DEF Grow

\* MmAllocPages.
LEMMA GrowHigh ==
  ASSUME NEW m \in MemRec, NEW n \in Nat, RoomHigh(m, n), NEW p
  PROVE  Grow(m, MmAllocPages(m, n).m, p)
<1>1. PICK f \in Nat, v \in Nat :
           /\ f..(f + n - 1) \subseteq Frame \ m.used
           /\ v..(v + n - 1) \subseteq HPage \ Mapped(m.high) /\ v \in HPage
           /\ MmAllocPages(m, n).virt = v
           /\ MmAllocPages(m, n).m =
                [used |-> m.used \cup f..(f + n - 1), high |-> Map(m.high, v, f, n), ptab |-> m.ptab]
  BY AllocHigh
<1>. DEFINE o == [used |-> m.used \cup f..(f + n - 1), high |-> Map(m.high, v, f, n), ptab |-> m.ptab]
<1>2. /\ m.used \subseteq Frame /\ m.high \in [HPage -> Frame \cup {NONE}]
      /\ m.ptab \in [Proc -> [LPage -> Frame \cup {NONE}]] /\ DOMAIN m.high = HPage
  BY DEF MemRec
<1>3. \A i \in v..(v + n - 1) : f + (i - v) \in f..(f + n - 1)
  OBVIOUS
<1>4. \A i \in HPage : o.high[i] = IF i \in v..(v + n - 1) THEN f + (i - v) ELSE m.high[i]
  BY <1>2 DEF Map
<1>5. o \in MemRec
  <2>1. o.high \in [HPage -> Frame \cup {NONE}]
    BY <1>1, <1>2, <1>3 DEF Map
  <2>. QED BY <1>1, <1>2, <2>1 DEF MemRec
<1>6. \A x \in Entries : x[1] \in {0} \cup Proc /\ (x[1] = 0 => x = <<0, x[2]>> /\ x[2] \in HPage)
  BY DEF Entries, Proc
<1>7. ASSUME NEW x \in Entries
      PROVE  IF x[1] = 0 /\ x[2] \in v..(v + n - 1)
             THEN Val(m, x) = NONE /\ Val(o, x) = f + (x[2] - v) /\ x[2] \in HPage
             ELSE Val(o, x) = Val(m, x)
  BY <1>1, <1>2, <1>4, <1>6 DEF Val, Mapped
<1>8. ASSUME NEW x \in Entries
      PROVE  New(m, o, x) <=> x[1] = 0 /\ x[2] \in v..(v + n - 1)
  <2>1. \A i \in v..(v + n - 1) : f + (i - v) # NONE
    BY DEF NONE
  <2>. HIDE DEF o
  <2>. QED BY <1>7, <2>1 DEF New
<1>9. ASSUME NEW x \in Entries
      PROVE  New(m, o, x) => x[1] = 0 /\ Val(o, x) \in f..(f + n - 1)
  <2>. HIDE DEF o
  <2>. QED BY <1>3, <1>7, <1>8
<1>10. ASSUME NEW x \in Entries, NEW y \in Entries, New(m, o, x), New(m, o, y), Val(o, x) = Val(o, y)
       PROVE  x = y
  <2>1. x[2] \in v..(v + n - 1) /\ y[2] \in v..(v + n - 1) /\ f + (x[2] - v) = f + (y[2] - v)
    <3>. HIDE DEF o
    <3>. QED BY <1>7, <1>8, <1>10
  <2>2. x[2] = y[2] /\ x[1] = 0 /\ y[1] = 0
    <3>. HIDE DEF o
    <3>. QED BY <1>8, <1>10, <2>1
  <2>. QED BY <1>6, <2>2
<1>11. ASSUME NEW g \in f..(f + n - 1) PROVE \E x \in Entries : New(m, o, x) /\ Val(o, x) = g
  <2>. DEFINE i == v + (g - f)
  <2>1. i \in v..(v + n - 1) /\ i \in HPage /\ f + (i - v) = g
    BY <1>1
  <2>2. <<0, i>> \in Entries
    BY <2>1 DEF Entries
  <2>. HIDE DEF o, i
  <2>3. New(m, o, <<0, i>>) /\ Val(o, <<0, i>>) = g
    BY <1>7, <1>8, <2>1, <2>2
  <2>. QED BY <2>2, <2>3
<1>12. m.used \subseteq o.used /\ o.used \ m.used = f..(f + n - 1)
  BY <1>1
<1>13. \A x \in Entries : New(m, o, x) \/ Val(o, x) = Val(m, x)
  <2>. HIDE DEF o
  <2>. QED BY <1>7, <1>8
<1>14. Grow(m, o, p)
  <2>. HIDE DEF o
  <2>. QED BY <1>5, <1>9, <1>10, <1>11, <1>12, <1>13 DEF Grow
<1>. QED BY <1>1, <1>14

\* Frames mapped at free entries of the table of p.
LEMMA GrowLow ==
  ASSUME NEW m \in MemRec, NEW p \in Proc, NEW n \in Nat, NEW f \in Nat, NEW v \in Nat,
         f..(f + n - 1) \subseteq Frame \ m.used,
         v..(v + n - 1) \subseteq LPage \ Mapped(m.ptab[p])
  PROVE  Grow(m, [used |-> m.used \cup f..(f + n - 1), high |-> m.high,
                  ptab |-> [m.ptab EXCEPT ![p] = Map(@, v, f, n)]], p)
<1>. DEFINE o == [used |-> m.used \cup f..(f + n - 1), high |-> m.high,
                  ptab |-> [m.ptab EXCEPT ![p] = Map(m.ptab[p], v, f, n)]]
<1>2. /\ m.used \subseteq Frame /\ m.high \in [HPage -> Frame \cup {NONE}]
      /\ m.ptab \in [Proc -> [LPage -> Frame \cup {NONE}]] /\ DOMAIN m.ptab[p] = LPage
  BY DEF MemRec
<1>3. \A i \in v..(v + n - 1) : f + (i - v) \in f..(f + n - 1)
  OBVIOUS
<1>4. \A i \in LPage : o.ptab[p][i] = IF i \in v..(v + n - 1) THEN f + (i - v) ELSE m.ptab[p][i]
  BY <1>2 DEF Map
<1>5. o \in MemRec
  <2>1. Map(m.ptab[p], v, f, n) \in [LPage -> Frame \cup {NONE}]
    BY <1>2, <1>3 DEF Map
  <2>2. o.ptab \in [Proc -> [LPage -> Frame \cup {NONE}]]
    BY <1>2, <2>1
  <2>. QED BY <1>2, <2>2 DEF MemRec
<1>6. p # 0 /\ \A x \in Entries : x[1] \in {0} \cup Proc /\ (x[1] = p => x = <<p, x[2]>> /\ x[2] \in LPage)
  BY DEF Entries, Proc
<1>7. ASSUME NEW x \in Entries
      PROVE  IF x[1] = p /\ x[2] \in v..(v + n - 1)
             THEN Val(m, x) = NONE /\ Val(o, x) = f + (x[2] - v) /\ x[2] \in LPage
             ELSE Val(o, x) = Val(m, x)
  <2>1. CASE x[1] = p
    BY <1>2, <1>4, <1>6, <2>1 DEF Val, Mapped
  <2>2. CASE x[1] # p
    BY <1>2, <1>6, <2>2 DEF Val
  <2>. QED BY <2>1, <2>2
<1>8. ASSUME NEW x \in Entries
      PROVE  New(m, o, x) <=> x[1] = p /\ x[2] \in v..(v + n - 1)
  <2>1. \A i \in v..(v + n - 1) : f + (i - v) # NONE
    BY DEF NONE
  <2>. HIDE DEF o
  <2>. QED BY <1>7, <2>1 DEF New
<1>9. ASSUME NEW x \in Entries
      PROVE  New(m, o, x) => x[1] = p /\ Val(o, x) \in f..(f + n - 1)
  <2>. HIDE DEF o
  <2>. QED BY <1>3, <1>7, <1>8
<1>10. ASSUME NEW x \in Entries, NEW y \in Entries, New(m, o, x), New(m, o, y), Val(o, x) = Val(o, y)
       PROVE  x = y
  <2>1. x[2] \in v..(v + n - 1) /\ y[2] \in v..(v + n - 1) /\ f + (x[2] - v) = f + (y[2] - v)
    <3>. HIDE DEF o
    <3>. QED BY <1>7, <1>8, <1>10
  <2>2. x[2] = y[2] /\ x[1] = p /\ y[1] = p
    <3>. HIDE DEF o
    <3>. QED BY <1>8, <1>10, <2>1
  <2>. QED BY <1>6, <2>2
<1>11. ASSUME NEW g \in f..(f + n - 1) PROVE \E x \in Entries : New(m, o, x) /\ Val(o, x) = g
  <2>. DEFINE i == v + (g - f)
  <2>1. i \in v..(v + n - 1) /\ i \in LPage /\ f + (i - v) = g
    OBVIOUS
  <2>2. <<p, i>> \in Entries
    BY <2>1 DEF Entries
  <2>. HIDE DEF o, i
  <2>3. New(m, o, <<p, i>>) /\ Val(o, <<p, i>>) = g
    BY <1>7, <1>8, <2>1, <2>2
  <2>. QED BY <2>2, <2>3
<1>12. m.used \subseteq o.used /\ o.used \ m.used = f..(f + n - 1)
  OBVIOUS
<1>13. \A x \in Entries : New(m, o, x) \/ Val(o, x) = Val(m, x)
  <2>. HIDE DEF o
  <2>. QED BY <1>7, <1>8
<1>14. Grow(m, o, p)
  <2>. HIDE DEF o
  <2>. QED BY <1>5, <1>9, <1>10, <1>11, <1>12, <1>13 DEF Grow
<1>. QED BY <1>14

-----------------------------------------------------------------------------
(* Threads and processes *)

\* StackPlace is a place for a stack, where there is one.
LEMMA StackPlaceRoom ==
  ASSUME NEW table, StackRoom(table) # {}
  PROVE  StackPlace(table) \in StackRoom(table)
<1>. DEFINE T == {NLow - i : i \in StackRoom(table)}
<1>1. StackRoom(table) \subseteq 1..(NLow - 2) /\ NLow \in Nat
  BY MemoryAssumption DEF StackRoom
<1>2. T \subseteq Nat /\ T # {}
  BY <1>1
<1>3. PICK x \in T : \A y \in T : x =< y
  <2>. HIDE DEF T
  <2>. QED BY <1>2, LeastNumber
<1>4. PICK i \in StackRoom(table) : x = NLow - i
  OBVIOUS
<1>5. \A j \in StackRoom(table) : j =< i
  BY <1>1, <1>3, <1>4
<1>. QED BY <1>5 DEF StackPlace

\* PsCreateNewTask: the task structure and the stack are where nothing was.
LEMMA NewTaskGrows ==
  ASSUME NEW m \in MemRec, NEW p \in Proc, RoomTask(m, p), m.ptab[p][0] # NONE
  PROVE  /\ Grow(m, NewTask(m, p).m, p)
         /\ NewTask(m, p).task \in HPage
         /\ m.high[NewTask(m, p).task] = NONE
         /\ NewTask(m, p).m.high[NewTask(m, p).task] # NONE
         /\ NewTask(m, p).stack \in LPage /\ NewTask(m, p).stack + 1 \in LPage
         /\ m.ptab[p][NewTask(m, p).stack] = NONE /\ m.ptab[p][NewTask(m, p).stack + 1] = NONE
         /\ NewTask(m, p).m.ptab[p][NewTask(m, p).stack] # NONE
         /\ NewTask(m, p).m.ptab[p][NewTask(m, p).stack + 1] # NONE
<1>. DEFINE a == MmAllocPages(m, 1).m
            t == MmAllocPages(a, 3)
            s == AllocUnmapped(t.m, p, StackSize)
            i == StackPlace(s.m.ptab[p])
<1>1. RoomHigh(m, 1) /\ RoomHigh(a, 3) /\ RoomLow(t.m, p, StackSize)
  BY DEF RoomTask
<1>2. Grow(m, a, p) /\ a \in MemRec /\ a.ptab = m.ptab
  <2>1. Grow(m, a, p)
    BY <1>1, GrowHigh
  <2>2. a.ptab = m.ptab
    BY <1>1, AllocHigh, AllocTables
  <2>. QED BY <2>1, <2>2 DEF Grow
<1>3. Grow(a, t.m, p) /\ t.m \in MemRec /\ t.m.ptab = m.ptab
      /\ t.virt \in HPage /\ a.high[t.virt] = NONE /\ t.m.high[t.virt] # NONE
  <2>. HIDE DEF a
  <2>1. Grow(a, t.m, p)
    BY <1>1, <1>2, GrowHigh
  <2>2. PICK f \in Nat, v \in Nat :
             /\ f..(f + 3 - 1) \subseteq Frame \ a.used
             /\ v..(v + 3 - 1) \subseteq HPage \ Mapped(a.high) /\ v \in HPage
             /\ t.virt = v
             /\ t.m = [used |-> a.used \cup f..(f + 3 - 1), high |-> Map(a.high, v, f, 3), ptab |-> a.ptab]
    BY <1>1, <1>2, AllocHigh
  <2>3. a.high \in [HPage -> Frame \cup {NONE}]
    BY <1>2 DEF MemRec
  <2>4. v \in v..(v + 3 - 1) /\ a.high[v] = NONE
    BY <2>2, <2>3 DEF Mapped
  <2>5. t.m.high[v] = f
    BY <2>2, <2>3, <2>4 DEF Map
  <2>. QED BY <1>2, <2>1, <2>2, <2>4, <2>5 DEF Grow, NONE
<1>4. PICK f \in Nat :
           /\ f..(f + 2 - 1) \subseteq Frame \ t.m.used
           /\ s.phys = f
           /\ s.m = [used |-> t.m.used \cup f..(f + 2 - 1), high |-> t.m.high, ptab |-> t.m.ptab]
  <2>. HIDE DEF t
  <2>. QED BY <1>1, <1>3, AllocLow DEF StackSize
<1>5. i \in StackRoom(m.ptab[p])
  <2>1. s.m.ptab = m.ptab
    BY <1>3, <1>4
  <2>2. PICK j \in 0..(NLow - 2 - 1) : \A l \in j..(j + 2 - 1) : l \notin Mapped(m.ptab[p])
    <3>1. Fits(Mapped(t.m.ptab[p]), 2, NLow) # {}
      BY <1>1 DEF RoomLow, StackSize
    <3>. QED BY <1>3, <3>1 DEF Fits
  <2>3. m.ptab[p] \in [LPage -> Frame \cup {NONE}] /\ NLow \in Nat
    BY MemoryAssumption DEF MemRec
  <2>4. j \in LPage /\ j + 1 \in LPage /\ m.ptab[p][j] = NONE /\ m.ptab[p][j + 1] = NONE
    <3>1. j \in j..(j + 2 - 1) /\ j + 1 \in j..(j + 2 - 1) /\ j \in LPage /\ j + 1 \in LPage
      BY <2>3 DEF LPage
    <3>. QED BY <2>2, <2>3, <3>1 DEF Mapped
  <2>5. j \in StackRoom(m.ptab[p])
    BY <2>3, <2>4 DEF StackRoom, LPage
  <2>. QED BY <2>1, <2>5, StackPlaceRoom
<1>6. PICK k \in Nat : k = i /\ k \in LPage /\ k + 1 \in LPage /\ m.ptab[p][k] = NONE /\ m.ptab[p][k + 1] = NONE
  <2>1. PICK k \in StackRoom(m.ptab[p]) : k = i
    BY <1>5
  <2>2. NLow \in Nat /\ k \in 1..(NLow - 2) /\ m.ptab[p][k] = NONE /\ m.ptab[p][k + 1] = NONE
    BY MemoryAssumption DEF StackRoom
  <2>3. k \in Nat /\ k \in LPage /\ k + 1 \in LPage
    BY <2>2 DEF LPage
  <2>. QED BY <2>1, <2>2, <2>3
<1>7. NewTask(m, p).task = t.virt /\ NewTask(m, p).stack = i
      /\ NewTask(m, p).m = [s.m EXCEPT !.ptab[p] = Map(@, i, s.phys, StackSize)]
  BY DEF NewTask
<1>. DEFINE o == [used |-> t.m.used \cup f..(f + 2 - 1), high |-> t.m.high,
                  ptab |-> [t.m.ptab EXCEPT ![p] = Map(@, k, f, 2)]]
<1>8. NewTask(m, p).m = o
  <2>. HIDE DEF s, t, i, o
  <2>1. NewTask(m, p).m = [s.m EXCEPT !.ptab = [s.m.ptab EXCEPT ![p] = Map(s.m.ptab[p], k, f, 2)]]
    BY <1>4, <1>6, <1>7 DEF StackSize
  <2>2. s.m.ptab = t.m.ptab /\ s.m.high = t.m.high /\ s.m.used = t.m.used \cup f..(f + 2 - 1)
    BY <1>4
  <2>. QED BY <1>4, <2>1, <2>2 DEF o
<1>9. Grow(t.m, o, p)
  <2>1. k..(k + 2 - 1) \subseteq LPage \ Mapped(t.m.ptab[p])
    <3>1. k \notin Mapped(m.ptab[p]) /\ k + 1 \notin Mapped(m.ptab[p])
      BY <1>6 DEF Mapped
    <3>2. t.m.ptab[p] = m.ptab[p]
      BY <1>3
    <3>3. \A l \in k..(k + 2 - 1) : l = k \/ l = k + 1
      OBVIOUS
    <3>. QED BY <1>6, <3>1, <3>2, <3>3
  <2>. HIDE DEF t
  <2>. QED BY <1>3, <1>4, <2>1, GrowLow
<1>10. Grow(m, o, p)
  <2>. HIDE DEF a, t, o
  <2>. QED BY <1>2, <1>3, <1>9, GrowTrans
<1>11. m.high[t.virt] = NONE /\ o.high[t.virt] # NONE
  <2>1. <<0, t.virt>> \in Entries
    BY <1>3 DEF Entries
  <2>2. \A n : Val(n, <<0, t.virt>>) = n.high[t.virt]
    BY DEF Val
  <2>. HIDE DEF a, t
  <2>. QED BY <1>2, <1>3, <2>1, <2>2 DEF Grow, New
<1>12. o.ptab[p][k] # NONE /\ o.ptab[p][k + 1] # NONE
  <2>1. o.ptab[p] = Map(m.ptab[p], k, f, 2) /\ DOMAIN m.ptab[p] = LPage
    BY <1>3 DEF MemRec
  <2>2. \A j \in LPage : j \in k..(k + 2 - 1) => o.ptab[p][j] = f + (j - k)
    <3>. HIDE DEF o
    <3>. QED BY <2>1 DEF Map
  <2>3. k \in k..(k + 2 - 1) /\ k + 1 \in k..(k + 2 - 1) /\ f + (k - k) # -1 /\ f + ((k + 1) - k) # -1
    OBVIOUS
  <2>. HIDE DEF o
  <2>. QED BY <1>6, <2>2, <2>3 DEF NONE
<1>. QED
  <2>. HIDE DEF a, t, s, i, o
  <2>. QED BY <1>3, <1>6, <1>7, <1>8, <1>10, <1>11, <1>12

\* From m to n what is mapped stays, and only the tables of the kernel and of p change.
Keeps(m, n, p) ==
  /\ n \in MemRec
  /\ \A v \in HPage : m.high[v] # NONE => n.high[v] = m.high[v]
  /\ \A q \in Proc, i \in LPage : m.ptab[q][i] # NONE \/ q # p => n.ptab[q][i] = m.ptab[q][i]

\* What grows keeps what is mapped.
LEMMA GrowKeeps ==
  ASSUME NEW m \in MemRec, NEW n, NEW p, Grow(m, n, p)
  PROVE  Keeps(m, n, p)
<1>1. \A v \in HPage : m.high[v] # NONE => n.high[v] = m.high[v]
  <2>. SUFFICES ASSUME NEW v \in HPage PROVE m.high[v] # NONE => n.high[v] = m.high[v]
    OBVIOUS
  <2>1. <<0, v>> \in Entries
    BY DEF Entries
  <2>. QED BY <2>1 DEF Grow, New, Val
<1>2. ASSUME NEW q \in Proc, NEW i \in LPage, m.ptab[q][i] # NONE \/ q # p
      PROVE n.ptab[q][i] = m.ptab[q][i]
  <2>1. <<q, i>> \in Entries /\ q # 0
    BY DEF Entries, Proc
  <2>. QED BY <1>2, <2>1 DEF Grow, New, Val
<1>. QED BY <1>1, <1>2 DEF Grow, Keeps

\* The pages MmAllocPages returns.
LEMMA AllocPages ==
  ASSUME NEW m \in MemRec, NEW n \in Nat \ {0}, RoomHigh(m, n), NEW i \in 0..(n - 1)
  PROVE  LET v == MmAllocPages(m, n).virt
             o == MmAllocPages(m, n).m
         IN /\ v \in HPage /\ v + i \in HPage /\ m.high[v + i] = NONE
            /\ o.high[v] # NONE /\ o.high[v + i] = o.high[v] + i
<1>0. n \in Nat
  OBVIOUS
<1>1. PICK f \in Nat, v \in Nat :
           /\ f..(f + n - 1) \subseteq Frame \ m.used
           /\ v..(v + n - 1) \subseteq HPage \ Mapped(m.high) /\ v \in HPage
           /\ MmAllocPages(m, n).virt = v
           /\ MmAllocPages(m, n).m =
                [used |-> m.used \cup f..(f + n - 1), high |-> Map(m.high, v, f, n), ptab |-> m.ptab]
  BY <1>0, AllocHigh, Zenon
<1>. DEFINE o == MmAllocPages(m, n).m
<1>2. m.high \in [HPage -> Frame \cup {NONE}]
  BY DEF MemRec
<1>3. \A j \in HPage : j \in v..(v + n - 1) => o.high[j] = f + (j - v)
  <2>1. o.high = Map(m.high, v, f, n)
    BY <1>1
  <2>. HIDE DEF o
  <2>. QED BY <1>2, <2>1 DEF Map
<1>4. v \in v..(v + n - 1) /\ v + i \in v..(v + n - 1)
  OBVIOUS
<1>5. v + i \in HPage /\ m.high[v + i] = NONE
  BY <1>1, <1>2, <1>4 DEF Mapped
<1>6. o.high[v] = f + (v - v) /\ o.high[v + i] = f + ((v + i) - v)
  <2>. HIDE DEF o
  <2>. QED BY <1>1, <1>3, <1>4, <1>5
<1>7. f + (v - v) # -1 /\ f + ((v + i) - v) = (f + (v - v)) + i
  OBVIOUS
<1>. QED
  <2>. HIDE DEF o
  <2>1. o.high[v] # NONE /\ o.high[v + i] = o.high[v] + i
    BY <1>6, <1>7 DEF NONE
  <2>. QED BY <1>1, <1>5, <2>1 DEF o

\* _start: a process's structures and its first thread are where nothing was.
LEMMA NewProcessGrows ==
  ASSUME NEW m \in MemRec, NEW p \in Proc, RoomProcess(m, p), m.ptab[p][0] # NONE
  PROVE  LET a == NewProcess(m, p).aspace
             n == NewProcess(m, p).task
         IN /\ Grow(m, n.m, p)
            /\ a \in HPage /\ a + 1 \in HPage /\ m.high[a] = NONE /\ m.high[a + 1] = NONE
            /\ n.m.high[a] # NONE /\ n.m.high[a + 1] # NONE /\ n.m.high[a + 1] = n.m.high[a] + 1
            /\ n.task \in HPage /\ m.high[n.task] = NONE /\ n.m.high[n.task] # NONE
            /\ n.task # a /\ n.task # a + 1
            /\ n.stack \in LPage /\ n.stack + 1 \in LPage
            /\ m.ptab[p][n.stack] = NONE /\ m.ptab[p][n.stack + 1] = NONE
            /\ n.m.ptab[p][n.stack] # NONE /\ n.m.ptab[p][n.stack + 1] # NONE
<1>. DEFINE m1 == MmAllocPages(m, 1).m
            m2 == MmAllocPages(m1, 1).m
            m3 == MmAllocPages(m2, 1).m
            m4 == MmAllocPages(m3, 2).m
            a == MmAllocPages(m3, 2).virt
            n == NewTask(m4, p)
<1>1. RoomHigh(m, 1) /\ RoomHigh(m1, 1) /\ RoomHigh(m2, 1) /\ RoomHigh(m3, 2) /\ RoomTask(m4, p)
  BY DEF RoomProcess
<1>2. NewProcess(m, p).aspace = a /\ NewProcess(m, p).task = n
  BY DEF NewProcess
<1>3. Grow(m, m1, p) /\ m1 \in MemRec /\ m1.ptab = m.ptab
  BY <1>1, GrowHigh, AllocTables DEF Grow
<1>4. Grow(m, m2, p) /\ m2 \in MemRec /\ m2.ptab = m.ptab
  <2>. HIDE DEF m1
  <2>1. Grow(m1, m2, p) /\ m2.ptab = m1.ptab
    BY <1>1, <1>3, GrowHigh, AllocTables
  <2>2. Grow(m, m2, p)
    <3>. HIDE DEF m2
    <3>. QED BY <1>3, <2>1, GrowTrans
  <2>. QED BY <1>3, <2>1, <2>2 DEF Grow
<1>5. Grow(m, m3, p) /\ m3 \in MemRec /\ m3.ptab = m.ptab
  <2>. HIDE DEF m2
  <2>1. Grow(m2, m3, p) /\ m3.ptab = m2.ptab
    BY <1>1, <1>4, GrowHigh, AllocTables
  <2>2. Grow(m, m3, p)
    <3>. HIDE DEF m3
    <3>. QED BY <1>4, <2>1, GrowTrans
  <2>. QED BY <1>4, <2>1, <2>2 DEF Grow
<1>6. Grow(m, m4, p) /\ m4 \in MemRec /\ m4.ptab = m.ptab
      /\ a \in HPage /\ a + 1 \in HPage /\ m3.high[a] = NONE /\ m3.high[a + 1] = NONE
      /\ m4.high[a] # NONE /\ m4.high[a + 1] # NONE /\ m4.high[a + 1] = m4.high[a] + 1
  <2>. HIDE DEF m3
  <2>1. Grow(m3, m4, p) /\ m4.ptab = m3.ptab
    BY <1>1, <1>5, GrowHigh, AllocTables
  <2>2. Grow(m, m4, p) /\ m4 \in MemRec
    <3>. HIDE DEF m4
    <3>1. Grow(m, m4, p)
      BY <1>5, <2>1, GrowTrans
    <3>. QED BY <3>1 DEF Grow
  <2>3. a \in HPage /\ m3.high[a + 0] = NONE /\ m4.high[a] # NONE
        /\ a + 1 \in HPage /\ m3.high[a + 1] = NONE /\ m4.high[a + 1] = m4.high[a] + 1
    <3>1. 0 \in 0..(2 - 1) /\ 1 \in 0..(2 - 1) /\ 2 \in Nat \ {0}
      OBVIOUS
    <3>. QED BY <1>1, <1>5, <3>1, AllocPages
  <2>4. a + 0 = a
    BY <2>3 DEF HPage
  <2>5. m4.high[a] + 1 # NONE
    <3>. HIDE DEF m4
    <3>. QED BY <2>2, <2>3 DEF MemRec, NONE, Frame
  <2>. QED BY <1>5, <2>1, <2>2, <2>3, <2>4, <2>5
<1>7. /\ Grow(m4, n.m, p) /\ n.task \in HPage /\ m4.high[n.task] = NONE /\ n.m.high[n.task] # NONE
      /\ n.stack \in LPage /\ n.stack + 1 \in LPage
      /\ m4.ptab[p][n.stack] = NONE /\ m4.ptab[p][n.stack + 1] = NONE
      /\ n.m.ptab[p][n.stack] # NONE /\ n.m.ptab[p][n.stack + 1] # NONE
  <2>. HIDE DEF m4
  <2>. QED BY <1>1, <1>6, NewTaskGrows
<1>. HIDE DEF m1, m2, m3, m4, a, n
<1>8. Grow(m, n.m, p)
  BY <1>6, <1>7, GrowTrans
<1>9. m.high[a] = NONE /\ m.high[a + 1] = NONE
  BY <1>5, <1>6, GrowKeeps DEF Keeps
<1>10. n.m.high[a] = m4.high[a] /\ n.m.high[a + 1] = m4.high[a + 1] /\ m.high[n.task] = NONE
  BY <1>6, <1>7, GrowKeeps DEF Keeps
<1>. QED BY <1>2, <1>6, <1>7, <1>8, <1>9, <1>10

-----------------------------------------------------------------------------
(* brk *)

\* The recursive function in BrkLoop exists: each value follows from the one before.
LEMMA BrkLoopSteps ==
  ASSUME NEW p \in Proc
  PROVE  /\ BrkLoop(p)[-1] = [room |-> TRUE, m |-> Memory]
         /\ \A i \in 0..MaxBrk :
              LET before == BrkLoop(p)[i - 1] IN
              BrkLoop(p)[i] =
                IF before.room /\ (before.m.ptab[p][i] # NONE \/ RoomLow(before.m, p, 1))
                THEN [room |-> TRUE, m |-> BrkStep(before.m, p, i)]
                ELSE [room |-> FALSE, m |-> before.m]
<1>. DEFINE step(f, i) ==
              IF i = -1 THEN [room |-> TRUE, m |-> Memory]
              ELSE LET before == f[i - 1] IN
                   IF before.room /\ (before.m.ptab[p][i] # NONE \/ RoomLow(before.m, p, 1))
                   THEN [room |-> TRUE, m |-> BrkStep(before.m, p, i)]
                   ELSE [room |-> FALSE, m |-> before.m]
            Upto(n) == \E f : f = [i \in -1..n |-> step(f, i)]
            T == {n \in 0..(MaxBrk + 1) : ~Upto(n - 1)}
<1>1. ASSUME NEW f, NEW g, NEW i, i # -1 => f[i - 1] = g[i - 1] PROVE step(f, i) = step(g, i)
  <2>1. CASE i = -1
    BY <2>1
  <2>2. CASE i # -1
    BY <1>1, <2>2
  <2>. QED BY <2>1, <2>2
<1>. HIDE DEF step
<1>2. T = {}
  <2>. SUFFICES ASSUME T # {} PROVE FALSE
    OBVIOUS
  <2>1. PICK x \in T : \A y \in T : x =< y
    <3>1. T \subseteq Nat
      OBVIOUS
    <3>. HIDE DEF T
    <3>. QED BY <3>1, LeastNumber
  <2>2. CASE x = 0
    <3>. DEFINE f == [i \in -1..-1 |-> step(<<>>, -1)]
    <3>1. \A i \in -1..-1 : i = -1 /\ step(f, i) = step(<<>>, -1)
      <4>1. \A i \in -1..-1 : i = -1
        OBVIOUS
      <4>. QED BY <1>1, <4>1
    <3>2. f = [i \in -1..-1 |-> step(f, i)]
      BY <3>1
    <3>3. Upto(x - 1)
      BY <2>2, <3>2
    <3>. QED BY <2>1, <3>3
  <2>3. CASE x # 0
    <3>1. Upto(x - 2) /\ x \in 1..(MaxBrk + 1)
      BY <2>1, <2>3, MemoryAssumption
    <3>2. PICK g : g = [i \in -1..(x - 2) |-> step(g, i)]
      BY <3>1
    <3>. DEFINE f == [i \in -1..(x - 1) |-> IF i < x - 1 THEN g[i] ELSE step(g, i)]
    <3>3. ASSUME NEW i \in -1..(x - 1) PROVE f[i] = step(f, i)
      <4>1. i # -1 => f[i - 1] = g[i - 1]
        BY <3>1
      <4>2. step(f, i) = step(g, i)
        <5>. HIDE DEF f
        <5>. QED BY <1>1, <4>1
      <4>3. i < x - 1 => g[i] = step(g, i)
        <5>1. i < x - 1 => i \in -1..(x - 2)
          BY <3>1
        <5>. QED BY <3>2, <5>1
      <4>. QED BY <4>2, <4>3
    <3>4. f = [i \in -1..(x - 1) |-> step(f, i)]
      BY <3>3
    <3>5. Upto(x - 1)
      <4>. HIDE DEF f
      <4>. QED BY <3>4
    <3>. QED BY <2>1, <3>5
  <2>. QED BY <2>2, <2>3
<1>3. Upto(MaxBrk)
  <2>1. MaxBrk + 1 \notin T /\ MaxBrk + 1 \in 0..(MaxBrk + 1) /\ (MaxBrk + 1) - 1 = MaxBrk
    <3>. HIDE DEF Upto
    <3>1. MaxBrk + 1 \notin T
      BY <1>2
    <3>. HIDE DEF T
    <3>. QED BY <3>1, MemoryAssumption
  <2>. QED BY <2>1, MemoryAssumption
<1>4. BrkLoop(p) = [i \in -1..MaxBrk |-> step(BrkLoop(p), i)]
  <2>1. BrkLoop(p) = CHOOSE f : f = [i \in -1..MaxBrk |-> step(f, i)]
    BY DEF BrkLoop, step
  <2>. QED BY <1>3, <2>1
<1>5. \A i \in -1..MaxBrk : BrkLoop(p)[i] = step(BrkLoop(p), i)
  BY <1>4
<1>6. -1 \in -1..MaxBrk /\ \A i \in 0..MaxBrk : i \in -1..MaxBrk /\ i # -1
  BY MemoryAssumption
<1>. QED BY <1>5, <1>6 DEF step

\* A page brk maps, or finds mapped.
LEMMA BrkStepGrows ==
  ASSUME NEW m \in MemRec, NEW p \in Proc, NEW i \in LPage,
         m.ptab[p][i] # NONE \/ RoomLow(m, p, 1)
  PROVE  Grow(m, BrkStep(m, p, i), p)
<1>1. CASE m.ptab[p][i] # NONE
  BY <1>1, GrowSame DEF BrkStep
<1>2. CASE m.ptab[p][i] = NONE
  <2>. DEFINE s == AllocUnmapped(m, p, 1)
  <2>1. PICK f \in Nat :
             /\ f..(f + 1 - 1) \subseteq Frame \ m.used
             /\ s.phys = f
             /\ s.m = [used |-> m.used \cup f..(f + 1 - 1), high |-> m.high, ptab |-> m.ptab]
    <3>1. PICK n \in Nat : n = 1
      OBVIOUS
    <3>2. RoomLow(m, p, n)
      BY <1>2, <3>1
    <3>3. PICK f \in Nat :
             /\ f..(f + n - 1) \subseteq Frame \ m.used
             /\ AllocUnmapped(m, p, n).phys = f
             /\ AllocUnmapped(m, p, n).m =
                  [used |-> m.used \cup f..(f + n - 1), high |-> m.high, ptab |-> m.ptab]
      BY <3>2, AllocLow
    <3>. QED BY <3>1, <3>3
  <2>. DEFINE o == [used |-> m.used \cup f..(f + 1 - 1), high |-> m.high,
                    ptab |-> [m.ptab EXCEPT ![p] = Map(@, i, f, 1)]]
  <2>2. i \in Nat /\ i..(i + 1 - 1) \subseteq LPage \ Mapped(m.ptab[p])
    <3>1. i \in Nat /\ i..(i + 1 - 1) = {i}
      BY DEF LPage
    <3>. QED BY <1>2, <3>1 DEF Mapped
  <2>3. Grow(m, o, p)
    BY <2>1, <2>2, GrowLow
  <2>4. BrkStep(m, p, i) = o
    <3>1. BrkStep(m, p, i) = [s.m EXCEPT !.ptab = [s.m.ptab EXCEPT ![p] = Map(s.m.ptab[p], i, s.phys, 1)]]
      BY <1>2 DEF BrkStep
    <3>. HIDE DEF s
    <3>2. s.m.ptab = m.ptab /\ s.m.high = m.high /\ s.m.used = m.used \cup f..(f + 1 - 1)
      BY <2>1
    <3>. QED BY <2>1, <3>1, <3>2
  <2>. QED BY <2>3, <2>4
<1>. QED BY <1>1, <1>2

\* The pages brk(addr) maps.
LEMMA BrkGrows ==
  ASSUME Memory \in MemRec, NEW p \in Proc, NEW addr \in 0..MaxBrk, BrkLoop(p)[addr].room
  PROVE  Grow(Memory, BrkLoop(p)[addr].m, p)
<1>. DEFINE L == BrkLoop(p)
            T == {n \in 0..MaxBrk : L[n].room /\ ~Grow(Memory, L[n].m, p)}
<1>1. L[-1].room /\ Grow(Memory, L[-1].m, p)
  BY BrkLoopSteps, GrowSame
<1>2. T = {}
  <2>. SUFFICES ASSUME T # {} PROVE FALSE
    OBVIOUS
  <2>1. PICK x \in T : \A y \in T : x =< y
    <3>1. T \subseteq Nat
      OBVIOUS
    <3>. HIDE DEF T
    <3>. QED BY <3>1, LeastNumber
  <2>2. x \in 0..MaxBrk /\ x \in LPage /\ L[x].room /\ ~Grow(Memory, L[x].m, p)
    BY <2>1, MemoryAssumption DEF LPage
  <2>. DEFINE b == L[x - 1]
  <2>3. L[x] = IF b.room /\ (b.m.ptab[p][x] # NONE \/ RoomLow(b.m, p, 1))
               THEN [room |-> TRUE, m |-> BrkStep(b.m, p, x)]
               ELSE [room |-> FALSE, m |-> b.m]
    BY <2>2, BrkLoopSteps
  <2>. HIDE DEF L
  <2>4. b.room /\ (b.m.ptab[p][x] # NONE \/ RoomLow(b.m, p, 1)) /\ L[x].m = BrkStep(b.m, p, x)
    <3>. HIDE DEF b
    <3>. QED BY <2>2, <2>3
  <2>5. Grow(Memory, b.m, p)
    <3>1. CASE x = 0
      BY <1>1, <3>1
    <3>2. CASE x # 0
      <4>1. x \in 0..MaxBrk
        BY <2>2
      <4>2. x - 1 \in 0..MaxBrk /\ ~(x =< x - 1)
        BY <3>2, <4>1, MemoryAssumption
      <4>. QED BY <2>1, <2>4, <4>2
    <3>. QED BY <3>1, <3>2
  <2>. HIDE DEF b
  <2>6. Grow(b.m, L[x].m, p)
    BY <2>2, <2>4, <2>5, BrkStepGrows DEF Grow
  <2>. QED BY <2>2, <2>5, <2>6, GrowTrans
<1>. QED BY <1>2

-----------------------------------------------------------------------------
(* Invariants *)

\* The pages that are given back or handed out once more are mapped in the
\* kernel's table h and each has one use: those of a task structure (T), of an
\* aspace (A) and of the kernel heap (H).
Apart(h, A, T, H) ==
  /\ \A t \in Task : T[t] # NONE => T[t] \in HPage \ H /\ h[T[t]] # NONE
  /\ \A t, u \in Task : T[t] # NONE /\ T[t] = T[u] => t = u
  /\ \A p \in Proc : A[p] # NONE => /\ {A[p], A[p] + 1} \subseteq HPage \ H
                                    /\ h[A[p]] # NONE /\ h[A[p] + 1] # NONE
                                    /\ h[A[p] + 1] = h[A[p]] + 1
  /\ \A p, q \in Proc : A[p] # NONE /\ A[q] # NONE /\ A[q] \in {A[p], A[p] + 1} => p = q
  /\ \A t \in Task, p \in Proc : T[t] # NONE /\ A[p] # NONE => T[t] \notin {A[p], A[p] + 1}
  /\ H \subseteq HPage /\ \A v \in H : h[v] # NONE

\* The stacks (S) of the threads (T) of each process (P) in the tables pt.
Stacked(pt, P, T, S) ==
  \A t \in Task : T[t] # NONE =>
    /\ P[t] \in Proc /\ S[t] \in LPage /\ S[t] + 1 \in LPage
    /\ pt[P[t]][S[t]] # NONE /\ pt[P[t]][S[t] + 1] # NONE
    /\ \A u \in Task : T[u] # NONE /\ u # t /\ P[u] = P[t] => S[u] \notin (S[t] - 1)..(S[t] + 1)

\* The pages of the kernel heap.
HeapPages == {fresh_chain[1]} \cup {b[1][1] : b \in inuse}
             \cup {free_chain[i][1] : i \in 1..Len(free_chain)}

\* The threads of a process that have not been cleaned up.
Threads(p) == {t \in Task : taskAt[t] # NONE /\ parent[t] = p}

\* A process lives as long as it has a thread; its program, its stack and the
\* video memory are mapped until then and nothing is afterwards.
LifeInv ==
  /\ \A p \in Proc : refcount[p] = Cardinality(Threads(p)) /\ (aspaceAt[p] # NONE <=> refcount[p] > 0)
  /\ \A t \in Task : IF t =< created THEN parent[t] \in Proc ELSE parent[t] = 0 /\ taskAt[t] = NONE
  /\ \A p \in Proc : aspaceAt[p] # NONE => ptab[p][0] # NONE /\ \A i \in Video : ptab[p][i] # NONE
  /\ \A p \in Proc, i \in LPage : aspaceAt[p] = NONE => ptab[p][i] = NONE

\* Blocks lie in their pages; those in use, the free chain and the rest of the
\* fresh page have none in common.
HeapInv ==
  /\ fresh_chain[1] \in HPage /\ fresh_chain[2] \in 1..PerPage
  /\ fresh_count = PerPage - fresh_chain[2] + 1
  /\ \A b \in inuse : b[1] \in HPage \X (1..PerPage) /\ b[2] =< Class[KM]
  /\ \A b, c \in inuse : b[1] = c[1] => b = c
  /\ \A i \in 1..Len(free_chain) : free_chain[i] \in HPage \X (1..PerPage)
  /\ \A i, j \in 1..Len(free_chain) : free_chain[i] = free_chain[j] => i = j
  /\ \A i \in 1..Len(free_chain), b \in inuse : free_chain[i] # b[1]
  /\ \A b \in inuse : b[1][1] = fresh_chain[1] => b[1][2] < fresh_chain[2]
  /\ \A i \in 1..Len(free_chain) :
       free_chain[i][1] = fresh_chain[1] => free_chain[i][2] < fresh_chain[2]
  /\ IsFiniteSet(inuse)

\* The types of the segments' table; a segment's frames exist.
SegType ==
  /\ mem \in [Key -> Frame \cup {NONE}] /\ LenInPages \in [Key -> Nat]
  /\ RefCount \in [Key -> Nat] /\ handles \in [Proc -> [Key -> Nat]]
  /\ \A k \in Key : Segment(k) \subseteq Frame

\* The inductive invariant, segments apart.
MemInv ==
  /\ TypeOK
  /\ Apart(high, aspaceAt, taskAt, HeapPages)
  /\ Stacked(ptab, parent, taskAt, stackAt)
  /\ LifeInv
  /\ HeapInv

-----------------------------------------------------------------------------
(* Frames *)

Mine(x) == x[1] = 0 \/ x[2] \notin Video   \* entries that do not show the video memory

\* The frames G belong to segments, which have no page of their own; every other
\* frame whose bit is set is mapped once, where it is not the video memory's.
Framed(m, G) ==
  /\ Reserved \subseteq m.used
  /\ \A x \in Entries : Mine(x) /\ Val(m, x) # NONE => Val(m, x) \in m.used \ Reserved
  /\ \A x \in Entries : ~Mine(x) => Val(m, x) \in Reserved \cup {NONE}
  /\ \A x \in Entries : x[1] = 0 => Val(m, x) \notin G
  /\ \A x, y \in Entries : /\ Mine(x) /\ Mine(y)
                           /\ Val(m, x) # NONE /\ Val(m, x) = Val(m, y) /\ Val(m, x) \notin G
                           => x = y
  /\ \A f \in m.used \ (Reserved \cup G) : \E x \in Entries : Mine(x) /\ Val(m, x) = f

-----------------------------------------------------------------------------
(* Lemmas on Apart and Stacked *)

\* Apart and Stacked are kept while what is mapped stays.
LEMMA ApartKeeps ==
  ASSUME NEW h, NEW g, NEW A, NEW T, NEW H, NEW G, Apart(h, A, T, H), G \subseteq H,
         \A v \in HPage : h[v] # NONE => g[v] = h[v]
  PROVE  Apart(g, A, T, G)
<1>1. \A t \in Task : T[t] # NONE => T[t] \in HPage \ G /\ g[T[t]] # NONE
  BY DEF Apart
<1>2. \A p \in Proc : A[p] # NONE => /\ {A[p], A[p] + 1} \subseteq HPage \ G
                                    /\ g[A[p]] # NONE /\ g[A[p] + 1] # NONE /\ g[A[p] + 1] = g[A[p]] + 1
  <2>. SUFFICES ASSUME NEW p \in Proc, A[p] # NONE
                PROVE  /\ {A[p], A[p] + 1} \subseteq HPage \ G
                       /\ g[A[p]] # NONE /\ g[A[p] + 1] # NONE /\ g[A[p] + 1] = g[A[p]] + 1
    OBVIOUS
  <2>1. /\ {A[p], A[p] + 1} \subseteq HPage \ H
        /\ h[A[p]] # NONE /\ h[A[p] + 1] # NONE /\ h[A[p] + 1] = h[A[p]] + 1
    BY DEF Apart
  <2>. QED BY <2>1
<1>3. G \subseteq HPage /\ \A v \in G : g[v] # NONE
  BY DEF Apart
<1>. QED BY <1>1, <1>2, <1>3 DEF Apart

\* A new task structure.
LEMMA ApartTask ==
  ASSUME NEW h, NEW g, NEW A, NEW T, NEW U, NEW H, Apart(h, A, T, H),
         \A v \in HPage : h[v] # NONE => g[v] = h[v],
         NEW t \in Task, T[t] = NONE, \A u \in Task : u # t => U[u] = T[u],
         U[t] \in HPage, h[U[t]] = NONE, g[U[t]] # NONE
  PROVE  Apart(g, A, U, H)
<1>1. Apart(g, A, T, H)
  BY ApartKeeps
<1>2. U[t] \notin H /\ \A u \in Task : T[u] # NONE => T[u] # U[t]
  BY DEF Apart
<1>3. \A p \in Proc : A[p] # NONE => U[t] \notin {A[p], A[p] + 1}
  BY DEF Apart
<1>4. \A u \in Task : U[u] # NONE => U[u] \in HPage \ H /\ g[U[u]] # NONE
  BY <1>1, <1>2 DEF Apart
<1>5. \A u, w \in Task : U[u] # NONE /\ U[u] = U[w] => u = w
  BY <1>1, <1>2 DEF Apart
<1>6. \A u \in Task, p \in Proc : U[u] # NONE /\ A[p] # NONE => U[u] \notin {A[p], A[p] + 1}
  BY <1>1, <1>3 DEF Apart
<1>. QED BY <1>1, <1>4, <1>5, <1>6 DEF Apart

\* A new page of the heap.
LEMMA ApartHeap ==
  ASSUME NEW h, NEW g, NEW A, NEW T, NEW H, NEW G, Apart(h, A, T, H),
         \A v \in HPage : h[v] # NONE => g[v] = h[v],
         NEW v \in HPage, h[v] = NONE, g[v] # NONE, G \subseteq H \cup {v}
  PROVE  Apart(g, A, T, G)
<1>1. Apart(g, A, T, H)
  BY ApartKeeps
<1>2. \A t \in Task : T[t] # NONE => T[t] # v
  BY DEF Apart
<1>3. \A p \in Proc : A[p] # NONE => v \notin {A[p], A[p] + 1}
  BY DEF Apart
<1>4. \A t \in Task : T[t] # NONE => T[t] \in HPage \ G /\ g[T[t]] # NONE
  BY <1>1, <1>2 DEF Apart
<1>5. \A p \in Proc : A[p] # NONE => /\ {A[p], A[p] + 1} \subseteq HPage \ G
                                     /\ g[A[p]] # NONE /\ g[A[p] + 1] # NONE /\ g[A[p] + 1] = g[A[p]] + 1
  BY <1>1, <1>3 DEF Apart
<1>6. G \subseteq HPage /\ \A w \in G : g[w] # NONE
  BY <1>1 DEF Apart
<1>. QED BY <1>1, <1>4, <1>5, <1>6 DEF Apart

\* A new aspace.
LEMMA ApartAspace ==
  ASSUME NEW h, NEW g, NEW A, NEW B, NEW T, NEW H, Apart(h, A, T, H),
         \A v \in HPage : h[v] # NONE => g[v] = h[v],
         NEW p \in Proc, \A q \in Proc : q # p => B[q] = A[q],
         B[p] \in HPage, B[p] + 1 \in HPage, h[B[p]] = NONE, h[B[p] + 1] = NONE,
         g[B[p]] # NONE, g[B[p] + 1] # NONE, g[B[p] + 1] = g[B[p]] + 1
  PROVE  Apart(g, B, T, H)
<1>1. Apart(g, A, T, H)
  BY ApartKeeps
<1>2. B[p] \notin H /\ B[p] + 1 \notin H
  BY DEF Apart
<1>3. \A q \in Proc : q # p /\ A[q] # NONE => /\ B[p] \notin {A[q], A[q] + 1}
                                             /\ A[q] \notin {B[p], B[p] + 1}
  BY DEF Apart
<1>4. \A t \in Task : T[t] # NONE => T[t] \notin {B[p], B[p] + 1}
  BY DEF Apart
<1>5. \A q \in Proc : B[q] # NONE => /\ {B[q], B[q] + 1} \subseteq HPage \ H
                                     /\ g[B[q]] # NONE /\ g[B[q] + 1] # NONE /\ g[B[q] + 1] = g[B[q]] + 1
  BY <1>1, <1>2 DEF Apart
<1>6. \A q, r \in Proc : B[q] # NONE /\ B[r] # NONE /\ B[r] \in {B[q], B[q] + 1} => q = r
  BY <1>1, <1>3 DEF Apart
<1>7. \A t \in Task, q \in Proc : T[t] # NONE /\ B[q] # NONE => T[t] \notin {B[q], B[q] + 1}
  BY <1>1, <1>4 DEF Apart
<1>. QED BY <1>1, <1>5, <1>6, <1>7 DEF Apart

\* A thread that is cleaned up, and with its process if it was the last one.
LEMMA ApartFreed ==
  ASSUME NEW h, NEW g, NEW A, NEW B, NEW T, NEW U, NEW H, Apart(h, A, T, H),
         NEW t \in Task, T[t] # NONE, U[t] = NONE, \A u \in Task : u # t => U[u] = T[u],
         NEW p \in Proc, A[p] # NONE, B[p] \in {A[p], NONE}, \A q \in Proc : q # p => B[q] = A[q],
         \A v \in HPage : \/ g[v] = h[v]
                          \/ v = T[t]
                          \/ B[p] = NONE /\ v \in {A[p], A[p] + 1}
  PROVE  Apart(g, B, U, H)
<1>1. \A u \in Task : U[u] # NONE => U[u] = T[u] /\ u # t
  OBVIOUS
<1>2. \A q \in Proc : B[q] # NONE => B[q] = A[q] /\ (q = p => B[p] # NONE)
  OBVIOUS
<1>3. ASSUME NEW u \in Task, U[u] # NONE PROVE U[u] \in HPage \ H /\ g[U[u]] # NONE
  <2>1. T[u] \in HPage /\ T[u] # T[t] /\ T[u] \notin {A[p], A[p] + 1}
    BY <1>1, <1>3 DEF Apart
  <2>2. g[T[u]] = h[T[u]]
    BY <2>1
  <2>. QED BY <1>1, <1>3, <2>2 DEF Apart
<1>4. ASSUME NEW q \in Proc, B[q] # NONE
      PROVE  {B[q], B[q] + 1} \subseteq HPage \ H /\ g[B[q]] # NONE /\ g[B[q] + 1] # NONE /\ g[B[q] + 1] = g[B[q]] + 1
  <2>1. A[q] \in HPage /\ A[q] + 1 \in HPage /\ A[q] # T[t] /\ A[q] + 1 # T[t]
    BY <1>2, <1>4 DEF Apart
  <2>2. q # p => A[q] \notin {A[p], A[p] + 1} /\ A[p] \notin {A[q], A[q] + 1}
    BY <1>2, <1>4 DEF Apart
  <2>3. A[p] \in Int /\ A[q] \in Int
    BY <2>1 DEF Apart, HPage
  <2>4. q # p => A[q] + 1 \notin {A[p], A[p] + 1}
    BY <2>2, <2>3
  <2>5. g[A[q]] = h[A[q]] /\ g[A[q] + 1] = h[A[q] + 1]
    BY <1>2, <1>4, <2>1, <2>2, <2>4
  <2>. QED BY <1>2, <1>4, <2>5 DEF Apart
<1>5. \A u, w \in Task : U[u] # NONE /\ U[u] = U[w] => u = w
  BY <1>1 DEF Apart
<1>6. \A q, r \in Proc : B[q] # NONE /\ B[r] # NONE /\ B[r] \in {B[q], B[q] + 1} => q = r
  BY <1>2 DEF Apart
<1>7. \A u \in Task, q \in Proc : U[u] # NONE /\ B[q] # NONE => U[u] \notin {B[q], B[q] + 1}
  BY <1>1, <1>2 DEF Apart
<1>8. ASSUME NEW v \in H PROVE v \in HPage /\ g[v] # NONE
  <2>1. v \in HPage /\ v # T[t] /\ v \notin {A[p], A[p] + 1} /\ h[v] # NONE
    BY DEF Apart
  <2>. QED BY <2>1
<1>. QED BY <1>3, <1>4, <1>5, <1>6, <1>7, <1>8 DEF Apart

\* The stacks stay where they are mapped.
LEMMA StackedKeeps ==
  ASSUME NEW f, NEW g, NEW P, NEW T, NEW S, Stacked(f, P, T, S),
         \A p \in Proc, i \in LPage : f[p][i] # NONE => g[p][i] = f[p][i]
  PROVE  Stacked(g, P, T, S)
BY DEF Stacked

\* A new stack.
LEMMA StackedNew ==
  ASSUME NEW f, NEW g, NEW P, NEW T, NEW S, NEW Q, NEW U, NEW R, Stacked(f, P, T, S),
         \A p \in Proc, i \in LPage : f[p][i] # NONE => g[p][i] = f[p][i],
         NEW t \in Task, \A u \in Task : u # t => Q[u] = P[u] /\ U[u] = T[u] /\ R[u] = S[u],
         NEW p \in Proc, Q[t] = p, NEW i \in LPage, R[t] = i, i + 1 \in LPage,
         f[p][i] = NONE, f[p][i + 1] = NONE, g[p][i] # NONE, g[p][i + 1] # NONE
  PROVE  Stacked(g, Q, U, R)
<1>1. Stacked(g, P, T, S)
  BY StackedKeeps
<1>2. ASSUME NEW u \in Task, u # t, T[u] # NONE, P[u] = p
      PROVE  S[u] \in LPage /\ S[u] \notin (i - 1)..(i + 1) /\ i \notin (S[u] - 1)..(S[u] + 1)
  <2>1. S[u] \in LPage /\ S[u] + 1 \in LPage /\ f[p][S[u]] # NONE /\ f[p][S[u] + 1] # NONE
    BY <1>2 DEF Stacked
  <2>2. S[u] # i /\ S[u] # i + 1 /\ S[u] + 1 # i
    BY <2>1
  <2>. QED BY <2>1, <2>2 DEF LPage
<1>3. ASSUME NEW u \in Task, U[u] # NONE
      PROVE  /\ Q[u] \in Proc /\ R[u] \in LPage /\ R[u] + 1 \in LPage
             /\ g[Q[u]][R[u]] # NONE /\ g[Q[u]][R[u] + 1] # NONE
  BY <1>1, <1>3 DEF Stacked
<1>4. ASSUME NEW u \in Task, U[u] # NONE, NEW w \in Task, U[w] # NONE, w # u, Q[w] = Q[u]
      PROVE  R[w] \notin (R[u] - 1)..(R[u] + 1)
  <2>1. CASE u = t
    BY <1>2, <1>4, <2>1
  <2>2. CASE w = t
    BY <1>2, <1>4, <2>2
  <2>3. CASE u # t /\ w # t
    BY <1>1, <1>4, <2>3 DEF Stacked
  <2>. QED BY <2>1, <2>2, <2>3
<1>. QED BY <1>3, <1>4 DEF Stacked

\* A stack that goes, perhaps with the process's table.
LEMMA StackedFreed ==
  ASSUME NEW f, NEW g, NEW P, NEW T, NEW S, NEW U, NEW R, Stacked(f, P, T, S),
         NEW t \in Task, U[t] = NONE, \A u \in Task : u # t => U[u] = T[u] /\ R[u] = S[u],
         NEW p, \A q \in Proc, i \in LPage : q # p => g[q][i] = f[q][i],
         \A u \in Task : U[u] # NONE => P[u] # p \/ \A i \in LPage : g[p][i] = f[p][i]
  PROVE  Stacked(g, P, U, R)
<1>1. ASSUME NEW u \in Task, U[u] # NONE
      PROVE  u # t /\ U[u] = T[u] /\ R[u] = S[u] /\ \A i \in LPage : P[u] \in Proc => g[P[u]][i] = f[P[u]][i]
  BY <1>1
<1>2. ASSUME NEW u \in Task, U[u] # NONE
      PROVE  /\ P[u] \in Proc /\ R[u] \in LPage /\ R[u] + 1 \in LPage
             /\ g[P[u]][R[u]] # NONE /\ g[P[u]][R[u] + 1] # NONE
  BY <1>1, <1>2 DEF Stacked
<1>3. ASSUME NEW u \in Task, U[u] # NONE, NEW w \in Task, U[w] # NONE, w # u, P[w] = P[u]
      PROVE  R[w] \notin (R[u] - 1)..(R[u] + 1)
  BY <1>1, <1>3 DEF Stacked
<1>. QED BY <1>2, <1>3 DEF Stacked

-----------------------------------------------------------------------------
(* The actions keep MemInv *)

\* The memory has its type.
LEMMA MemoryType ==
  ASSUME TypeOK
  PROVE  Memory \in MemRec
BY DEF TypeOK, Memory, MemRec

\* MemInv is kept by a step that only maps more.
LEMMA KeepsMemInv ==
  ASSUME MemInv, NEW p \in Proc, aspaceAt[p] # NONE, Keeps(Memory, Memory', p),
         UNCHANGED <<taskVars, heapVars>>, halted' \in BOOLEAN
  PROVE  MemInv'
<1>. USE DEF taskVars, heapVars
<1>1. /\ used' \subseteq Frame /\ high' \in [HPage -> Frame \cup {NONE}]
      /\ ptab' \in [Proc -> [LPage -> Frame \cup {NONE}]]
  BY DEF Keeps, MemRec, Memory
<1>2. \A v \in HPage : high[v] # NONE => high'[v] = high[v]
  BY DEF Keeps, Memory
<1>3. \A q \in Proc, i \in LPage : ptab[q][i] # NONE \/ q # p => ptab'[q][i] = ptab[q][i]
  BY DEF Keeps, Memory
<1>4. TypeOK'
  BY <1>1 DEF MemInv, TypeOK
<1>5. Apart(high, aspaceAt, taskAt, HeapPages)'
  <2>1. Apart(high', aspaceAt, taskAt, HeapPages)
    BY <1>2, ApartKeeps DEF MemInv
  <2>2. HeapPages' = HeapPages
    BY DEF HeapPages
  <2>. QED BY <2>1, <2>2
<1>6. Stacked(ptab, parent, taskAt, stackAt)'
  <2>1. Stacked(ptab', parent, taskAt, stackAt)
    BY <1>3, StackedKeeps DEF MemInv
  <2>. QED BY <2>1
<1>7. LifeInv'
  <2>1. 0 \in LPage /\ Video \subseteq LPage
    BY MemoryAssumption DEF LPage
  <2>. QED BY <1>3, <2>1 DEF MemInv, LifeInv, Threads
<1>8. HeapInv'
  BY DEF MemInv, HeapInv
<1>. QED BY <1>4, <1>5, <1>6, <1>7, <1>8 DEF MemInv

\* MemInv is kept by a step that leaves the memory alone.
LEMMA StillMemInv ==
  ASSUME MemInv, UNCHANGED <<memVars, taskVars, heapVars>>, halted' \in BOOLEAN
  PROVE  MemInv'
<1>. USE DEF memVars, taskVars, heapVars
<1>1. TypeOK'
  BY DEF MemInv, TypeOK
<1>2. HeapPages' = HeapPages
  BY DEF HeapPages
<1>3. Apart(high, aspaceAt, taskAt, HeapPages)' /\ Stacked(ptab, parent, taskAt, stackAt)'
  BY <1>2 DEF MemInv
<1>4. LifeInv' /\ HeapInv'
  BY DEF MemInv, LifeInv, HeapInv, Threads
<1>. QED BY <1>1, <1>3, <1>4 DEF MemInv

\* MemInv is kept when the kernel halts.
LEMMA HaltMemInv ==
  ASSUME MemInv, NEW room, Halt(room)
  PROVE  MemInv'
BY StillMemInv DEF Halt

\* A process has finitely many threads.
LEMMA ThreadsFinite ==
  /\ \A p : IsFiniteSet(Threads(p))
  /\ \A p : IsFiniteSet(Threads(p)')
<1>1. 1 \in Int /\ NTasks \in Int
  BY MemoryAssumption
<1>2. IsFiniteSet(Task)
  BY <1>1, FS_Interval, Zenon DEF Task
<1>3. \A p : Threads(p) \subseteq Task /\ Threads(p)' \subseteq Task
  BY DEF Threads
<1>. QED BY <1>2, <1>3, FS_Subset

\* A process that has a thread has its aspace.
LEMMA RunningLives ==
  ASSUME MemInv, NEW t \in Task, Alive(t)
  PROVE  /\ parent[t] \in Proc /\ t \in Threads(parent[t])
         /\ aspaceAt[parent[t]] # NONE /\ refcount[parent[t]] > 0
         /\ t =< created
<1>1. parent[t] \in Proc /\ t \in Threads(parent[t]) /\ t =< created
  BY DEF Alive, MemInv, Stacked, Threads, LifeInv
<1>3. refcount[parent[t]] > 0
  <2>1. Cardinality(Threads(parent[t])) # 0 /\ Cardinality(Threads(parent[t])) \in Nat
    BY <1>1, ThreadsFinite, FS_EmptySet, FS_CardinalityType
  <2>. QED BY <1>1, <2>1 DEF MemInv, LifeInv
<1>. QED BY <1>1, <1>3 DEF MemInv, LifeInv

\* PsCreateNewTask keeps MemInv.
LEMMA CreateTaskMemInv ==
  ASSUME MemInv, NEW p \in Proc, PsCreateNewTask(p)
  PROVE  MemInv'
<1>1. CASE Halt(RoomTask(Memory, p))
  BY <1>1, HaltMemInv
<1>2. ASSUME RoomTask(Memory, p),
             Update(NewTask(Memory, p).m),
             taskAt' = [taskAt EXCEPT ![created + 1] = NewTask(Memory, p).task],
             stackAt' = [stackAt EXCEPT ![created + 1] = NewTask(Memory, p).stack],
             parent' = [parent EXCEPT ![created + 1] = p],
             created' = created + 1,
             refcount' = [refcount EXCEPT ![p] = @ + 1],
             UNCHANGED <<aspaceAt, heapVars, halted>>
      PROVE  MemInv'
  <2>. DEFINE n == NewTask(Memory, p)
  <2>1. Running(p) /\ created < NTasks
    BY DEF PsCreateNewTask
  <2>2. aspaceAt[p] # NONE /\ refcount[p] > 0
    <3>1. PICK t \in Task : Alive(t) /\ parent[t] = p
      BY <2>1 DEF Running
    <3>. QED BY <3>1, RunningLives
  <2>3. PICK c \in Task : c = created + 1 /\ created \in Nat /\ taskAt[c] = NONE /\ parent[c] = 0
    <3>1. created \in Nat /\ created + 1 \in Task
      BY <2>1, MemoryAssumption DEF MemInv, TypeOK, Task
    <3>. QED BY <3>1 DEF MemInv, LifeInv
  <2>4. Memory \in MemRec /\ Memory.ptab = ptab /\ Memory.high = high
    BY MemoryType DEF MemInv, Memory
  <2>5. ptab[p][0] # NONE
    BY <2>2 DEF MemInv, LifeInv
  <2>6. /\ Grow(Memory, n.m, p)
        /\ n.task \in HPage /\ high[n.task] = NONE /\ n.m.high[n.task] # NONE
        /\ n.stack \in LPage /\ n.stack + 1 \in LPage
        /\ ptab[p][n.stack] = NONE /\ ptab[p][n.stack + 1] = NONE
        /\ n.m.ptab[p][n.stack] # NONE /\ n.m.ptab[p][n.stack + 1] # NONE
    BY <1>2, <2>4, <2>5, NewTaskGrows
  <2>. HIDE DEF n
  <2>7. Keeps(Memory, n.m, p)
    BY <2>4, <2>6, GrowKeeps
  <2>8. used' = n.m.used /\ high' = n.m.high /\ ptab' = n.m.ptab
    BY <1>2 DEF Update, n
  <2>9. /\ used' \subseteq Frame /\ high' \in [HPage -> Frame \cup {NONE}]
        /\ ptab' \in [Proc -> [LPage -> Frame \cup {NONE}]]
        /\ \A v \in HPage : high[v] # NONE => high'[v] = high[v]
        /\ \A q \in Proc, i \in LPage : ptab[q][i] # NONE \/ q # p => ptab'[q][i] = ptab[q][i]
    BY <2>4, <2>7, <2>8 DEF Keeps, MemRec
  <2>10. /\ taskAt' = [taskAt EXCEPT ![c] = n.task] /\ stackAt' = [stackAt EXCEPT ![c] = n.stack]
         /\ parent' = [parent EXCEPT ![c] = p] /\ created' = c
         /\ refcount' = [refcount EXCEPT ![p] = refcount[p] + 1]
         /\ aspaceAt' = aspaceAt /\ fresh_chain' = fresh_chain /\ fresh_count' = fresh_count
         /\ free_chain' = free_chain /\ inuse' = inuse /\ halted' = halted
    BY <1>2, <2>3 DEF n, heapVars
  <2>11. /\ taskAt \in [Task -> HPage \cup {NONE}] /\ stackAt \in [Task -> LPage \cup {NONE}]
         /\ parent \in [Task -> 0..NBoot] /\ refcount \in [Proc -> Nat]
    BY DEF MemInv, TypeOK
  <2>12. /\ taskAt'[c] = n.task /\ stackAt'[c] = n.stack /\ parent'[c] = p
         /\ \A u \in Task : u # c => taskAt'[u] = taskAt[u] /\ stackAt'[u] = stackAt[u] /\ parent'[u] = parent[u]
    BY <2>10, <2>11
  <2>13. TypeOK'
    <3>1. created' \in NBoot..NTasks
      <4>1. created \in NBoot..NTasks
        BY DEF MemInv, TypeOK
      <4>. QED BY <2>3, <2>10, <4>1, MemoryAssumption DEF Task
    <3>2. /\ taskAt' \in [Task -> HPage \cup {NONE}] /\ stackAt' \in [Task -> LPage \cup {NONE}]
          /\ parent' \in [Task -> 0..NBoot] /\ refcount' \in [Proc -> Nat]
      <4>1. p \in 0..NBoot /\ refcount[p] + 1 \in Nat
        BY <2>11, MemoryAssumption DEF Proc
      <4>. QED BY <2>6, <2>10, <2>11, <4>1
    <3>. QED BY <2>9, <2>10, <3>1, <3>2 DEF MemInv, TypeOK
  <2>14. Apart(high, aspaceAt, taskAt, HeapPages)'
    <3>1. Apart(high', aspaceAt, taskAt', HeapPages)
      <4>1. Apart(high, aspaceAt, taskAt, HeapPages)
        BY DEF MemInv
      <4>2. /\ taskAt[c] = NONE /\ taskAt'[c] \in HPage /\ high[taskAt'[c]] = NONE /\ high'[taskAt'[c]] # NONE
            /\ \A u \in Task : u # c => taskAt'[u] = taskAt[u]
            /\ \A v \in HPage : high[v] # NONE => high'[v] = high[v]
        BY <2>3, <2>6, <2>8, <2>9, <2>12
      <4>. QED BY <4>1, <4>2, ApartTask
    <3>2. HeapPages' = HeapPages
      BY <2>10 DEF HeapPages
    <3>. QED BY <2>10, <3>1, <3>2
  <2>15. Stacked(ptab, parent, taskAt, stackAt)'
    <3>1. Stacked(ptab, parent, taskAt, stackAt)
      BY DEF MemInv
    <3>2. \A q \in Proc, i \in LPage : ptab[q][i] # NONE => ptab'[q][i] = ptab[q][i]
      BY <2>9
    <3>3. PICK i \in LPage : /\ stackAt'[c] = i /\ i + 1 \in LPage
                            /\ ptab[p][i] = NONE /\ ptab[p][i + 1] = NONE
                            /\ ptab'[p][i] # NONE /\ ptab'[p][i + 1] # NONE
      BY <2>6, <2>8, <2>12
    <3>4. /\ parent'[c] = p
          /\ \A u \in Task : u # c => parent'[u] = parent[u] /\ taskAt'[u] = taskAt[u] /\ stackAt'[u] = stackAt[u]
      BY <2>12
    <3>5. Stacked(ptab', parent', taskAt', stackAt')
      BY <3>1, <3>2, <3>3, <3>4, StackedNew
    <3>. QED BY <3>5
  <2>16. LifeInv'
    <3>1. /\ \A q \in Proc : q # p => Threads(q)' = Threads(q)
          /\ Threads(p)' = Threads(p) \cup {c} /\ c \notin Threads(p)
      <4>1. p # 0 /\ n.task # NONE
        BY <2>6 DEF Proc, HPage, NONE
      <4>. QED BY <2>3, <2>12, <4>1 DEF Threads
    <3>2. Cardinality(Threads(p)') = Cardinality(Threads(p)) + 1
      <4>1. IsFiniteSet(Threads(p))
        BY ThreadsFinite
      <4>. QED BY <3>1, <4>1, FS_AddElement
    <3>3. ASSUME NEW q \in Proc
          PROVE  refcount'[q] = Cardinality(Threads(q)') /\ (aspaceAt'[q] # NONE <=> refcount'[q] > 0)
      <4>1. refcount[q] = Cardinality(Threads(q)) /\ (aspaceAt[q] # NONE <=> refcount[q] > 0)
        BY DEF MemInv, LifeInv
      <4>2. refcount'[q] = IF q = p THEN refcount[p] + 1 ELSE refcount[q]
        BY <2>10, <2>11
      <4>3. CASE q = p
        <5>1. refcount'[p] = Cardinality(Threads(p)')
          BY <3>2, <4>1, <4>2, <4>3
        <5>2. aspaceAt'[p] # NONE /\ refcount'[p] > 0
          BY <2>2, <2>10, <2>11, <4>2, <4>3
        <5>. QED BY <4>3, <5>1, <5>2
      <4>4. CASE q # p
        <5>1. Threads(q)' = Threads(q) /\ refcount'[q] = refcount[q]
          BY <3>1, <4>2, <4>4
        <5>2. aspaceAt' = aspaceAt
          BY <2>10
        <5>. QED BY <4>1, <5>1, <5>2
      <4>. QED BY <4>3, <4>4
    <3>4. ASSUME NEW t \in Task
          PROVE  IF t =< created' THEN parent'[t] \in Proc ELSE parent'[t] = 0 /\ taskAt'[t] = NONE
      <4>1. IF t =< created THEN parent[t] \in Proc ELSE parent[t] = 0 /\ taskAt[t] = NONE
        BY DEF MemInv, LifeInv
      <4>2. t # c => (t =< created' <=> t =< created)
        BY <2>3, <2>10 DEF Task
      <4>3. t = c => t =< created'
        BY <2>3, <2>10
      <4>. QED BY <2>12, <4>1, <4>2, <4>3
    <3>5. 0 \in LPage /\ Video \subseteq LPage
      BY MemoryAssumption DEF LPage
    <3>6. \A q \in Proc : aspaceAt'[q] # NONE => ptab'[q][0] # NONE /\ \A i \in Video : ptab'[q][i] # NONE
      <4>1. \A q \in Proc : aspaceAt[q] # NONE => ptab[q][0] # NONE /\ \A i \in Video : ptab[q][i] # NONE
        BY DEF MemInv, LifeInv
      <4>. QED BY <2>9, <2>10, <3>5, <4>1
    <3>7. \A q \in Proc, i \in LPage : aspaceAt'[q] = NONE => ptab'[q][i] = NONE
      BY <2>2, <2>9, <2>10 DEF MemInv, LifeInv
    <3>. QED BY <3>3, <3>4, <3>6, <3>7 DEF LifeInv, Threads
  <2>17. HeapInv'
    BY <2>10 DEF MemInv, HeapInv
  <2>. QED BY <2>13, <2>14, <2>15, <2>16, <2>17 DEF MemInv
<1>. QED BY <1>1, <1>2 DEF PsCreateNewTask

\* The entries MmFreePages clears.
LEMMA FreePages ==
  ASSUME NEW m \in MemRec, NEW v, NEW n
  PROVE  /\ MmFreePages(m, v, n) \in MemRec /\ MmFreePages(m, v, n).ptab = m.ptab
         /\ \A w \in HPage : MmFreePages(m, v, n).high[w] = IF w \in v..(v + n - 1) THEN NONE ELSE m.high[w]
         /\ MmFreePages(m, v, n).used =
              m.used \ {g \in m.high[v]..(m.high[v] + n - 1) : m.high[v]..g \subseteq m.used}
<1>. DEFINE G == {g \in m.high[v]..(m.high[v] + n - 1) : m.high[v]..g \subseteq m.used}
            o == [used |-> m.used \ G, high |-> kunmap_Page(m.high, v, n), ptab |-> m.ptab]
<1>1. MmFreePages(m, v, n) = o
  <2>. HIDE DEF G
  <2>1. MmFreePages(m, v, n) = [m EXCEPT !.used = m.used \ G, !.high = kunmap_Page(m.high, v, n)]
    BY DEF MmFreePages, MemRec, G
  <2>. QED BY <2>1 DEF MemRec
<1>2. /\ kunmap_Page(m.high, v, n) \in [HPage -> Frame \cup {NONE}]
      /\ \A w \in HPage : kunmap_Page(m.high, v, n)[w] = IF w \in v..(v + n - 1) THEN NONE ELSE m.high[w]
  BY DEF kunmap_Page, MemRec
<1>3. o \in MemRec
  <2>1. m.used \ G \subseteq Frame /\ m.ptab \in [Proc -> [LPage -> Frame \cup {NONE}]]
    BY DEF MemRec
  <2>. HIDE DEF G
  <2>. QED BY <1>2, <2>1 DEF MemRec
<1>. QED BY <1>1, <1>2, <1>3

\* FreeAspace empties one table and frees what it mapped.
LEMMA FreeAspaceType ==
  ASSUME NEW m \in MemRec, NEW p \in Proc
  PROVE  /\ FreeAspace(m, p) \in MemRec /\ FreeAspace(m, p).high = m.high
         /\ FreeAspace(m, p).ptab[p] = [i \in LPage |-> NONE]
         /\ \A q \in Proc : q # p => FreeAspace(m, p).ptab[q] = m.ptab[q]
         /\ FreeAspace(m, p).used = m.used \ {m.ptab[p][i] : i \in Mapped(m.ptab[p]) \ Video}
<1>. DEFINE G == {m.ptab[p][i] : i \in Mapped(m.ptab[p]) \ Video}
            t == [m.ptab EXCEPT ![p] = [i \in LPage |-> NONE]]
            o == [used |-> m.used \ G, high |-> m.high, ptab |-> t]
<1>1. FreeAspace(m, p) = o
  <2>. HIDE DEF G
  <2>1. FreeAspace(m, p) = [m EXCEPT !.used = m.used \ G, !.ptab = t]
    BY DEF FreeAspace, MemRec, G
  <2>. HIDE DEF t
  <2>. QED BY <2>1 DEF MemRec
<1>2. t \in [Proc -> [LPage -> Frame \cup {NONE}]] /\ t[p] = [i \in LPage |-> NONE]
      /\ \A q \in Proc : q # p => t[q] = m.ptab[q]
  BY DEF MemRec
<1>3. o \in MemRec
  <2>1. m.used \ G \subseteq Frame /\ m.high \in [HPage -> Frame \cup {NONE}]
    BY DEF MemRec
  <2>. HIDE DEF G, t
  <2>. QED BY <1>2, <2>1 DEF MemRec
<1>. QED
  <2>. HIDE DEF t
  <2>. QED BY <1>1, <1>2, <1>3

\* What the end of a process's last thread does: its table is cleared, and so are
\* the kernel's entries for its aspace and its task structure.
Ended(p, t) ==
  /\ refcount[p] = 1
  /\ aspaceAt' = [aspaceAt EXCEPT ![p] = NONE]
  /\ Memory' \in MemRec
  /\ \A i \in LPage : ptab'[p][i] = NONE
  /\ \A q \in Proc : q # p => ptab'[q] = ptab[q]
  /\ \A v \in HPage :
       high'[v] = IF v \in {aspaceAt[p], aspaceAt[p] + 1, taskAt[t]} THEN NONE ELSE high[v]

\* The frames of the process.
Pages(p) == {ptab[p][i] : i \in Mapped(ptab[p]) \ Video}

\* PsCleanUpTask leaves the memory alone or ends the process.
LEMMA CleanUpShape ==
  ASSUME MemInv, NEW t \in Task, NEW p \in Proc, p = parent[t], PsCleanUpTask(t)
  PROVE  \/ refcount[p] > 1 /\ UNCHANGED <<memVars, aspaceAt>>
         \/ /\ Ended(p, t)
            /\ LET f == high[aspaceAt[p]] IN
               {f, f + 1} \subseteq used \ Pages(p) =>
                 used' = used \ (Pages(p) \cup {f, f + 1, high[taskAt[t]]})
<1>. DEFINE A == aspaceAt[p]
            T == taskAt[t]
            f == high[A]
            a == FreeAspace(Memory, p)
            b == MmFreePages(a, A, 2)
            c == MmFreePages(b, T, 1)
<1>1. /\ A \in HPage /\ A + 1 \in HPage /\ T \in HPage /\ T \notin {A, A + 1}
      /\ f \in Int /\ high[T] \in Int /\ refcount[p] > 0
  <2>1. aspaceAt[p] # NONE /\ refcount[p] > 0 /\ taskAt[t] # NONE
    BY RunningLives DEF PsCleanUpTask, Alive
  <2>2. A \in HPage /\ A + 1 \in HPage /\ T \in HPage /\ T \notin {A, A + 1}
    BY <2>1 DEF MemInv, Apart
  <2>3. \A v \in HPage : high[v] \in Int
    BY DEF MemInv, TypeOK, Frame, NONE
  <2>. QED BY <2>1, <2>2, <2>3
<1>2. /\ a \in MemRec /\ a.high = high /\ a.ptab[p] = [i \in LPage |-> NONE]
      /\ \A q \in Proc : q # p => a.ptab[q] = ptab[q]
      /\ a.used = used \ Pages(p)
  BY MemoryType, FreeAspaceType DEF MemInv, Memory, Pages
<1>. HIDE DEF a
<1>3. /\ b \in MemRec /\ b.ptab = a.ptab
      /\ \A w \in HPage : b.high[w] = IF w \in A..(A + 2 - 1) THEN NONE ELSE high[w]
      /\ b.used = a.used \ {g \in f..(f + 2 - 1) : f..g \subseteq a.used}
  BY <1>2, FreePages
<1>. HIDE DEF b
<1>4. /\ c \in MemRec /\ c.ptab = b.ptab
      /\ \A w \in HPage : c.high[w] = IF w \in T..(T + 1 - 1) THEN NONE ELSE b.high[w]
      /\ c.used = b.used \ {g \in b.high[T]..(b.high[T] + 1 - 1) : b.high[T]..g \subseteq b.used}
  BY <1>3, FreePages
<1>. HIDE DEF c
<1>5. /\ A \in Int /\ T \in Int
      /\ \A w \in HPage : c.high[w] = IF w \in {A, A + 1, T} THEN NONE ELSE high[w]
  <2>1. A \in Int /\ T \in Int /\ \A w \in HPage : w \in Int
    BY <1>1 DEF HPage
  <2>2. A..(A + 2 - 1) = {A, A + 1} /\ T..(T + 1 - 1) = {T}
    BY <2>1
  <2>. HIDE DEF A, T
  <2>. QED BY <1>3, <1>4, <2>1, <2>2
<1>6. ASSUME {f, f + 1} \subseteq used \ Pages(p)
      PROVE  c.used = used \ (Pages(p) \cup {f, f + 1, high[T]})
  <2>1. {g \in f..(f + 2 - 1) : f..g \subseteq a.used} = {f, f + 1}
    <3>. HIDE DEF f
    <3>1. f..f = {f} /\ f..(f + 1) = {f, f + 1} /\ f..(f + 2 - 1) = {f, f + 1}
      BY <1>1
    <3>. QED BY <1>2, <1>6, <3>1
  <2>2. b.high[T] = high[T]
    <3>1. A..(A + 2 - 1) = {A, A + 1}
      BY <1>5
    <3>. HIDE DEF A, T
    <3>. QED BY <1>1, <1>3, <3>1
  <2>3. PICK h \in Int : h = high[T] /\ h = b.high[T] /\ h..(h + 1 - 1) = {h} /\ h..h = {h}
    BY <1>1, <2>2
  <2>4. c.used = b.used \ {h}
    <3>1. c.used = b.used \ {g \in {h} : h..g \subseteq b.used}
      BY <1>4, <2>3
    <3>. QED BY <2>3, <3>1
  <2>. HIDE DEF f, A, T
  <2>. QED BY <1>2, <1>3, <2>1, <2>3, <2>4
<1>7. CASE refcount[p] = 1 /\ aspaceAt' = [aspaceAt EXCEPT ![p] = NONE] /\ Update(c)
  <2>1. used' = c.used /\ high' = c.high /\ ptab' = c.ptab
    BY <1>7 DEF Update
  <2>2. Memory' = c
    BY <1>4, <2>1 DEF Memory, MemRec
  <2>3. (\A q \in Proc : q # p => ptab'[q] = ptab[q]) /\ \A i \in LPage : ptab'[p][i] = NONE
    BY <1>2, <1>3, <1>4, <2>1
  <2>4. Ended(p, t)
    BY <1>4, <1>5, <1>7, <2>1, <2>2, <2>3 DEF Ended
  <2>. HIDE DEF f, T
  <2>. QED BY <1>6, <2>1, <2>4 DEF f, T, A
<1>8. CASE refcount[p] > 1 /\ UNCHANGED <<memVars, aspaceAt>>
  BY <1>8
<1>. QED
  <2>1. \/ refcount[p] > 1 /\ UNCHANGED <<memVars, aspaceAt>>
        \/ refcount[p] = 1 /\ aspaceAt' = [aspaceAt EXCEPT ![p] = NONE] /\ Update(c)
    BY DEF PsCleanUpTask, a, b, c
  <2>. QED BY <1>7, <1>8, <2>1

\* PsCleanUpTask keeps MemInv.
LEMMA CleanUpMemInv ==
  ASSUME MemInv, NEW t \in Task, PsCleanUpTask(t)
  PROVE  MemInv'
<1>0. PICK p \in Proc : p = parent[t]
  BY RunningLives DEF PsCleanUpTask
<1>1. /\ p \in Proc /\ t \in Threads(p) /\ aspaceAt[p] # NONE /\ refcount[p] > 0 /\ t =< created
      /\ taskAt[t] # NONE
  BY <1>0, RunningLives DEF PsCleanUpTask, Alive
<1>2. /\ refcount' = [refcount EXCEPT ![p] = refcount[p] - 1]
      /\ taskAt' = [taskAt EXCEPT ![t] = NONE] /\ stackAt' = [stackAt EXCEPT ![t] = NONE]
      /\ created' = created /\ parent' = parent /\ fresh_chain' = fresh_chain
      /\ fresh_count' = fresh_count /\ free_chain' = free_chain /\ inuse' = inuse /\ halted' = halted
  BY <1>0 DEF PsCleanUpTask, heapVars
<1>3. /\ taskAt \in [Task -> HPage \cup {NONE}] /\ stackAt \in [Task -> LPage \cup {NONE}]
      /\ refcount \in [Proc -> Nat] /\ aspaceAt \in [Proc -> HPage \cup {NONE}]
      /\ used \subseteq Frame /\ high \in [HPage -> Frame \cup {NONE}]
      /\ ptab \in [Proc -> [LPage -> Frame \cup {NONE}]]
  BY DEF MemInv, TypeOK
<1>4. taskAt'[t] = NONE /\ \A u \in Task : u # t => taskAt'[u] = taskAt[u] /\ stackAt'[u] = stackAt[u]
  BY <1>2, <1>3
<1>5. /\ Threads(p)' = Threads(p) \ {t} /\ \A q \in Proc : q # p => Threads(q)' = Threads(q)
      /\ Cardinality(Threads(p)') = Cardinality(Threads(p)) - 1
  <2>1. Threads(p)' = Threads(p) \ {t} /\ \A q \in Proc : q # p => Threads(q)' = Threads(q)
    <3>1. \A q : Threads(q)' = {u \in Task : taskAt'[u] # NONE /\ parent[u] = q}
      BY <1>2 DEF Threads
    <3>2. Threads(p)' = Threads(p) \ {t}
      BY <1>4, <3>1 DEF Threads
    <3>3. \A q \in Proc : q # p => Threads(q)' = Threads(q)
      BY <1>0, <1>4, <3>1 DEF Threads
    <3>. QED BY <3>2, <3>3
  <2>. QED BY <1>1, <2>1, ThreadsFinite, FS_RemoveElement
<1>. DEFINE Changed ==
          /\ used' \subseteq Frame /\ high' \in [HPage -> Frame \cup {NONE}]
          /\ ptab' \in [Proc -> [LPage -> Frame \cup {NONE}]]
          /\ aspaceAt' \in [Proc -> HPage \cup {NONE}]
          /\ \A q \in Proc : q # p => aspaceAt'[q] = aspaceAt[q] /\ ptab'[q] = ptab[q]
          /\ IF refcount[p] = 1
             THEN /\ aspaceAt'[p] = NONE /\ \A i \in LPage : ptab'[p][i] = NONE
                  /\ \A v \in HPage : \/ high'[v] = high[v]
                                      \/ v = taskAt[t]
                                      \/ v \in {aspaceAt[p], aspaceAt[p] + 1}
             ELSE aspaceAt' = aspaceAt /\ ptab' = ptab /\ high' = high
<1>6. Changed
  <2>1. CASE refcount[p] > 1 /\ UNCHANGED <<memVars, aspaceAt>>
    BY <1>3, <2>1 DEF memVars
  <2>2. CASE Ended(p, t)
    <3>1. /\ used' \subseteq Frame /\ high' \in [HPage -> Frame \cup {NONE}]
          /\ ptab' \in [Proc -> [LPage -> Frame \cup {NONE}]]
      BY <2>2 DEF Ended, Memory, MemRec
    <3>2. aspaceAt' \in [Proc -> HPage \cup {NONE}] /\ aspaceAt'[p] = NONE
          /\ \A q \in Proc : q # p => aspaceAt'[q] = aspaceAt[q]
      BY <1>1, <1>3, <2>2 DEF Ended
    <3>. QED BY <2>2, <3>1, <3>2 DEF Ended
  <2>. QED
    <3>. HIDE DEF Changed
    <3>. QED BY <1>0, <2>1, <2>2, CleanUpShape
<1>7. TypeOK'
  <2>1. /\ refcount' \in [Proc -> Nat] /\ taskAt' \in [Task -> HPage \cup {NONE}]
        /\ stackAt' \in [Task -> LPage \cup {NONE}]
    BY <1>1, <1>2, <1>3
  <2>. QED BY <1>2, <1>6, <2>1 DEF MemInv, TypeOK
<1>8. Apart(high, aspaceAt, taskAt, HeapPages)'
  <2>1. Apart(high, aspaceAt, taskAt, HeapPages)
    BY DEF MemInv
  <2>2. /\ aspaceAt'[p] \in {aspaceAt[p], NONE}
        /\ \A v \in HPage : \/ high'[v] = high[v]
                            \/ v = taskAt[t]
                            \/ aspaceAt'[p] = NONE /\ v \in {aspaceAt[p], aspaceAt[p] + 1}
        /\ \A q \in Proc : q # p => aspaceAt'[q] = aspaceAt[q]
        /\ \A u \in Task : u # t => taskAt'[u] = taskAt[u]
    BY <1>4, <1>6
  <2>3. Apart(high', aspaceAt', taskAt', HeapPages)
    BY <1>1, <1>4, <2>1, <2>2, ApartFreed
  <2>4. HeapPages' = HeapPages
    BY <1>2 DEF HeapPages
  <2>. QED BY <2>3, <2>4
<1>9. refcount[p] = 1 => Threads(p)' = {}
  <2>1. refcount[p] = Cardinality(Threads(p))
    BY <1>1 DEF MemInv, LifeInv
  <2>2. refcount[p] = 1 => Cardinality(Threads(p)') = 0
    BY <1>5, <2>1
  <2>. QED BY <2>2, ThreadsFinite, FS_EmptySet
<1>10. Stacked(ptab, parent, taskAt, stackAt)'
  <2>1. Stacked(ptab, parent, taskAt, stackAt)
    BY DEF MemInv
  <2>2. \A q \in Proc, i \in LPage : q # p => ptab'[q][i] = ptab[q][i]
    BY <1>6
  <2>3. \A u \in Task : taskAt'[u] # NONE => parent[u] # p \/ \A i \in LPage : ptab'[p][i] = ptab[p][i]
    <3>1. CASE refcount[p] = 1
      BY <1>2, <1>9, <3>1 DEF Threads
    <3>2. CASE refcount[p] # 1
      BY <1>6, <3>2
    <3>. QED BY <3>1, <3>2
  <2>4. Stacked(ptab', parent, taskAt', stackAt')
    BY <1>4, <2>1, <2>2, <2>3, StackedFreed
  <2>. QED BY <1>2, <2>4
<1>11. LifeInv'
  <2>1. ASSUME NEW q \in Proc
        PROVE  refcount'[q] = Cardinality(Threads(q)') /\ (aspaceAt'[q] # NONE <=> refcount'[q] > 0)
    <3>1. refcount[q] = Cardinality(Threads(q)) /\ (aspaceAt[q] # NONE <=> refcount[q] > 0)
      BY DEF MemInv, LifeInv
    <3>2. refcount'[q] = IF q = p THEN refcount[p] - 1 ELSE refcount[q]
      BY <1>2, <1>3
    <3>3. CASE q = p
      <4>1. refcount[p] \in Nat
        BY <1>1, <1>3
      <4>2. aspaceAt'[p] # NONE <=> refcount[p] # 1
        BY <1>1, <1>6
      <4>3. refcount'[p] = refcount[p] - 1 /\ refcount'[p] = Cardinality(Threads(p)')
        BY <1>1, <1>5, <3>1, <3>2, <3>3
      <4>. QED BY <1>1, <3>3, <4>1, <4>2, <4>3
    <3>4. CASE q # p
      BY <1>5, <1>6, <3>1, <3>2, <3>4
    <3>. QED BY <3>3, <3>4
  <2>2. ASSUME NEW u \in Task
        PROVE  IF u =< created' THEN parent'[u] \in Proc ELSE parent'[u] = 0 /\ taskAt'[u] = NONE
    BY <1>2, <1>4 DEF MemInv, LifeInv
  <2>3. 0 \in LPage /\ Video \subseteq LPage
    BY MemoryAssumption DEF LPage
  <2>4. ASSUME NEW q \in Proc, aspaceAt'[q] # NONE
        PROVE  ptab'[q][0] # NONE /\ \A i \in Video : ptab'[q][i] # NONE
    <3>1. aspaceAt[q] # NONE /\ ptab'[q] = ptab[q]
      BY <1>6, <2>4
    <3>. QED BY <3>1 DEF MemInv, LifeInv
  <2>5. ASSUME NEW q \in Proc, aspaceAt'[q] = NONE, NEW i \in LPage PROVE ptab'[q][i] = NONE
    <3>1. CASE q = p
      BY <1>1, <1>6, <2>5, <3>1
    <3>2. CASE q # p
      BY <1>6, <2>5, <3>2 DEF MemInv, LifeInv
    <3>. QED BY <3>1, <3>2
  <2>. QED BY <2>1, <2>2, <2>4, <2>5 DEF LifeInv
<1>12. HeapInv'
  BY <1>2 DEF MemInv, HeapInv
<1>. QED BY <1>7, <1>8, <1>10, <1>11, <1>12 DEF MemInv

\* A process that runs has its aspace.
LEMMA RunsLives ==
  ASSUME MemInv, NEW p \in Proc, Running(p)
  PROVE  aspaceAt[p] # NONE
BY RunningLives DEF Running

\* brk maps more, or halts the kernel.
LEMMA BrkMemory ==
  ASSUME MemInv, NEW p \in Proc, NEW addr \in Breaks, brk(p, addr)
  PROVE  Grow(Memory, Memory', p) /\ UNCHANGED <<taskVars, heapVars>> /\ halted' \in BOOLEAN
<1>. DEFINE r == BrkLoop(p)[addr]
<1>1. Memory \in MemRec /\ halted \in BOOLEAN
  BY MemoryType DEF MemInv, TypeOK
<1>2. CASE Halt(r.room)
  <2>1. Memory' = Memory /\ UNCHANGED <<taskVars, heapVars>> /\ halted' \in BOOLEAN
    BY <1>2 DEF Halt, memVars, Memory
  <2>. QED BY <1>1, <2>1, GrowSame
<1>3. CASE r.room /\ Update(r.m) /\ UNCHANGED <<taskVars, heapVars, halted>>
  <2>1. addr \in 0..MaxBrk
    BY MemoryAssumption DEF brk
  <2>2. Grow(Memory, r.m, p)
    BY <1>1, <1>3, <2>1, BrkGrows
  <2>. HIDE DEF r
  <2>3. Memory' = r.m
    <3>1. r.m \in MemRec
      BY <2>2 DEF Grow
    <3>. QED BY <1>3, <3>1 DEF Memory, Update, MemRec
  <2>. QED BY <1>1, <1>3, <2>2, <2>3
<1>. QED
  <2>. HIDE DEF r
  <2>. QED BY <1>2, <1>3 DEF brk, r

\* brk keeps MemInv.
LEMMA BrkMemInv ==
  ASSUME MemInv, NEW p \in Proc, NEW addr \in Breaks, brk(p, addr)
  PROVE  MemInv'
<1>1. Memory \in MemRec /\ aspaceAt[p] # NONE
  BY MemoryType, RunsLives DEF MemInv, brk
<1>2. Keeps(Memory, Memory', p)
  BY <1>1, BrkMemory, GrowKeeps
<1>. QED BY <1>1, <1>2, BrkMemory, KeepsMemInv

-----------------------------------------------------------------------------
(* The kernel heap *)

\* RunEnd, by its values.
LEMMA RunEnds ==
  /\ RunEnd[0] = 0 /\ RunEnd[1] = 17 /\ RunEnd[2] = 33 /\ RunEnd[3] = 65
  /\ RunEnd[4] = 129 /\ RunEnd[5] = 257 /\ RunEnd[6] = 513 /\ RunEnd[7] = 1025
<1>. DEFINE step(f, k) == IF k = 0 THEN 0 ELSE f[k - 1] + Runs[k]
            g == [k \in 0..7 |-> IF k = 0 THEN 0 ELSE IF k = 1 THEN 17 ELSE IF k = 2 THEN 33
                                 ELSE IF k = 3 THEN 65 ELSE IF k = 4 THEN 129
                                 ELSE IF k = 5 THEN 257 ELSE IF k = 6 THEN 513 ELSE 1025]
<1>1. ASSUME NEW k \in 0..7 PROVE g[k] = step(g, k)
  <2>1. k = 0 \/ k = 1 \/ k = 2 \/ k = 3 \/ k = 4 \/ k = 5 \/ k = 6 \/ k = 7
    OBVIOUS
  <2>. QED BY <2>1 DEF Runs
<1>2. g = [k \in 0..7 |-> step(g, k)]
  BY <1>1
<1>3. RunEnd = [k \in 0..7 |-> step(RunEnd, k)]
  <2>. DEFINE R == CHOOSE f : f = [k \in 0..7 |-> step(f, k)]
  <2>1. R = [k \in 0..7 |-> step(R, k)]
    <3>. HIDE DEF g
    <3>. QED BY <1>2
  <2>. QED BY <2>1 DEF RunEnd
<1>4. \A k \in 0..7 : RunEnd[k] = step(RunEnd, k)
  <2>. HIDE DEF step
  <2>. QED BY <1>3
<1>5. /\ RunEnd[0] = 0 /\ RunEnd[1] = RunEnd[0] + 17 /\ RunEnd[2] = RunEnd[1] + 16
      /\ RunEnd[3] = RunEnd[2] + 32 /\ RunEnd[4] = RunEnd[3] + 64 /\ RunEnd[5] = RunEnd[4] + 128
      /\ RunEnd[6] = RunEnd[5] + 256 /\ RunEnd[7] = RunEnd[6] + 512
  BY <1>4 DEF Runs
<1>. QED BY <1>5

\* size_map returns a class whose blocks are long enough.
LEMMA SizeMapFits ==
  ASSUME NEW n \in Sizes
  PROVE  n =< Class[size_map(n)]
<1>. n \in 1..1024
  BY MemoryAssumption
<1>1. \E k \in 1..7 : RunEnd[k - 1] =< n /\ n < RunEnd[k]
  <2>1. \/ 0 =< n /\ n < 17
        \/ 17 =< n /\ n < 33
        \/ 33 =< n /\ n < 65
        \/ 65 =< n /\ n < 129
        \/ 129 =< n /\ n < 257
        \/ 257 =< n /\ n < 513
        \/ 513 =< n /\ n < 1025
    OBVIOUS
  <2>. QED BY <2>1, RunEnds
<1>2. PICK k \in 1..7 : k = size_map(n) /\ RunEnd[k - 1] =< n /\ n < RunEnd[k]
  BY <1>1 DEF size_map
<1>3. k = 1 \/ k = 2 \/ k = 3 \/ k = 4 \/ k = 5 \/ k = 6 \/ k = 7
  BY <1>2
<1>4. n =< Class[k]
  BY <1>2, <1>3, RunEnds DEF Class
<1>. QED BY <1>2, <1>4

\* A block kmalloc hands out and the one kfree takes back, but for the memory.
LEMMA HeapRest ==
  ASSUME MemInv, UNCHANGED <<taskVars, halted>>, HeapInv',
         fresh_chain' \in HPage \X Nat, fresh_count' \in 1..PerPage,
         free_chain' \in Seq(HPage \X Nat), inuse' \subseteq (HPage \X Nat) \X Sizes,
         Memory' \in MemRec, ptab' = ptab,
         \A v \in HPage : high[v] # NONE => high'[v] = high[v],
         \/ HeapPages' \subseteq HeapPages
         \/ \E v \in HPage : high[v] = NONE /\ high'[v] # NONE /\ HeapPages' \subseteq HeapPages \cup {v}
  PROVE  MemInv'
<1>. USE DEF taskVars
<1>1. TypeOK'
  BY DEF MemInv, TypeOK, Memory, MemRec
<1>2. Apart(high, aspaceAt, taskAt, HeapPages)'
  <2>1. Apart(high, aspaceAt, taskAt, HeapPages)
    BY DEF MemInv
  <2>2. Apart(high', aspaceAt, taskAt, HeapPages')
    <3>1. CASE HeapPages' \subseteq HeapPages
      BY <2>1, <3>1, ApartKeeps
    <3>2. CASE \E v \in HPage : high[v] = NONE /\ high'[v] # NONE /\ HeapPages' \subseteq HeapPages \cup {v}
      <4>1. PICK v \in HPage : high[v] = NONE /\ high'[v] # NONE /\ HeapPages' \subseteq HeapPages \cup {v}
        BY <3>2
      <4>. QED BY <2>1, <4>1, ApartHeap
    <3>. QED BY <3>1, <3>2
  <2>. QED BY <2>2
<1>3. Stacked(ptab, parent, taskAt, stackAt)' /\ LifeInv'
  BY DEF MemInv, Stacked, LifeInv, Threads
<1>. QED BY <1>1, <1>2, <1>3 DEF MemInv

\* kfreeB: the block goes to the front of the free chain.
LEMMA KfreeMemInv ==
  ASSUME MemInv, NEW b \in inuse, kfree(b)
  PROVE  MemInv'
<1>1. /\ inuse' = inuse \ {b} /\ free_chain' = <<b[1]>> \o free_chain
      /\ UNCHANGED <<memVars, fresh_chain, fresh_count, taskVars, halted>>
  BY DEF kfree
<1>2. /\ fresh_chain \in HPage \X Nat /\ fresh_count \in 1..PerPage
      /\ free_chain \in Seq(HPage \X Nat) /\ inuse \subseteq (HPage \X Nat) \X Sizes
  BY DEF MemInv, TypeOK
<1>. DEFINE n == Len(free_chain)
<1>3. PICK f \in Seq(HPage \X Nat) :
        /\ f = free_chain' /\ Len(f) = n + 1 /\ n \in Nat /\ f[1] = b[1]
        /\ \A i \in 1..Len(f) : i # 1 => i - 1 \in 1..n /\ f[i] = free_chain[i - 1]
  <2>1. b[1] \in HPage \X Nat
    BY <1>2
  <2>2. <<b[1]>> \o free_chain \in Seq(HPage \X Nat)
    BY <1>2, <2>1
  <2>3. Len(<<b[1]>> \o free_chain) = n + 1 /\ n \in Nat /\ (<<b[1]>> \o free_chain)[1] = b[1]
    BY <1>2, <2>1
  <2>4. \A i \in 1..(n + 1) : i # 1 => i - 1 \in 1..n /\ (<<b[1]>> \o free_chain)[i] = free_chain[i - 1]
    BY <1>2, <2>1
  <2>. QED BY <1>1, <2>2, <2>3, <2>4
<1>. HIDE DEF n
<1>4. HeapInv
  BY DEF MemInv
<1>5. HeapInv'
  <2>1. /\ fresh_chain'[1] \in HPage /\ fresh_chain'[2] \in 1..PerPage
        /\ fresh_count' = PerPage - fresh_chain'[2] + 1
    BY <1>1, <1>4 DEF HeapInv
  <2>2. /\ \A c \in inuse' : c[1] \in HPage \X (1..PerPage) /\ c[2] =< Class[KM]
        /\ \A c, d \in inuse' : c[1] = d[1] => c = d
        /\ \A c \in inuse' : c[1][1] = fresh_chain'[1] => c[1][2] < fresh_chain'[2]
    BY <1>1, <1>4 DEF HeapInv
  <2>3. ASSUME NEW i \in 1..Len(f)
        PROVE  /\ f[i] \in HPage \X (1..PerPage)
               /\ f[i][1] = fresh_chain[1] => f[i][2] < fresh_chain[2]
    <3>1. CASE i = 1
      BY <1>3, <1>4, <3>1 DEF HeapInv
    <3>2. CASE i # 1
      <4>1. i - 1 \in 1..n /\ f[i] = free_chain[i - 1]
        BY <1>3, <3>2
      <4>2. \A l \in 1..n : /\ free_chain[l] \in HPage \X (1..PerPage)
                            /\ free_chain[l][1] = fresh_chain[1] => free_chain[l][2] < fresh_chain[2]
        BY <1>4 DEF HeapInv, n
      <4>. QED BY <4>1, <4>2
    <3>. QED BY <3>1, <3>2
  <2>4. ASSUME NEW i \in 1..Len(f), NEW c \in inuse, c # b PROVE f[i] # c[1]
    <3>1. CASE i = 1
      BY <1>3, <1>4, <2>4, <3>1 DEF HeapInv
    <3>2. CASE i # 1
      <4>1. i - 1 \in 1..n /\ f[i] = free_chain[i - 1]
        BY <1>3, <3>2
      <4>2. \A l \in 1..n : free_chain[l] # c[1]
        BY <1>4 DEF HeapInv, n
      <4>. QED BY <4>1, <4>2
    <3>. QED BY <3>1, <3>2
  <2>5. ASSUME NEW i \in 1..Len(f), NEW j \in 1..Len(f), f[i] = f[j] PROVE i = j
    <3>1. \A l \in 1..n : free_chain[l] # b[1]
      BY <1>4 DEF HeapInv, n
    <3>2. CASE i = 1 \/ j = 1
      BY <1>3, <2>5, <3>1, <3>2
    <3>3. CASE i # 1 /\ j # 1
      <4>1. i - 1 \in 1..n /\ j - 1 \in 1..n /\ free_chain[i - 1] = free_chain[j - 1]
        BY <1>3, <2>5, <3>3
      <4>2. i - 1 = j - 1
        BY <1>4, <4>1 DEF HeapInv, n
      <4>. QED BY <4>2
    <3>. QED BY <3>2, <3>3
  <2>6. IsFiniteSet(inuse')
    BY <1>1, <1>4, FS_Subset DEF HeapInv
  <2>7. /\ \A i \in 1..Len(free_chain') : free_chain'[i] \in HPage \X (1..PerPage)
        /\ \A i, j \in 1..Len(free_chain') : free_chain'[i] = free_chain'[j] => i = j
        /\ \A i \in 1..Len(free_chain'), c \in inuse' : free_chain'[i] # c[1]
        /\ \A i \in 1..Len(free_chain') :
             free_chain'[i][1] = fresh_chain'[1] => free_chain'[i][2] < fresh_chain'[2]
    <3>1. fresh_chain' = fresh_chain /\ free_chain' = f /\ \A c \in inuse' : c \in inuse /\ c # b
      BY <1>1, <1>3
    <3>. QED BY <2>3, <2>4, <2>5, <3>1
  <2>. QED BY <2>1, <2>2, <2>6, <2>7 DEF HeapInv
<1>6. HeapPages' \subseteq HeapPages
  <2>. SUFFICES ASSUME NEW v \in HeapPages' PROVE v \in HeapPages
    OBVIOUS
  <2>1. CASE v = fresh_chain[1] \/ \E c \in inuse : v = c[1][1]
    BY <2>1 DEF HeapPages
  <2>2. CASE \E i \in 1..Len(f) : v = f[i][1]
    <3>1. PICK i \in 1..Len(f) : v = f[i][1]
      BY <2>2
    <3>. QED BY <1>3, <3>1 DEF HeapPages, n
  <2>. QED BY <1>1, <1>3, <2>1, <2>2 DEF HeapPages
<1>7. Memory' \in MemRec /\ ptab' = ptab /\ high' = high
  BY <1>1, MemoryType DEF MemInv, Memory, memVars
<1>8. /\ fresh_chain' \in HPage \X Nat /\ fresh_count' \in 1..PerPage
      /\ free_chain' \in Seq(HPage \X Nat) /\ inuse' \subseteq (HPage \X Nat) \X Sizes
  BY <1>1, <1>2, <1>3
<1>. QED BY <1>1, <1>5, <1>6, <1>7, <1>8, HeapRest

\* kmallocB: a block of the free chain, or the next one of the fresh page.
LEMMA KmallocMemInv ==
  ASSUME MemInv, NEW n \in Sizes, kmalloc(n)
  PROVE  MemInv'
<1>1. /\ fresh_chain \in HPage \X Nat /\ fresh_count \in 1..PerPage /\ IsFiniteSet(inuse)
      /\ free_chain \in Seq(HPage \X Nat) /\ inuse \subseteq (HPage \X Nat) \X Sizes
  BY DEF MemInv, TypeOK, HeapInv
<1>2. n =< Class[KM]
  <2>1. size_map(n) = KM
    BY DEF kmalloc
  <2>2. n =< Class[size_map(n)]
    BY SizeMapFits
  <2>. QED BY <2>1, <2>2
<1>3. Memory \in MemRec /\ Memory.high = high /\ Memory.ptab = ptab
  BY MemoryType DEF MemInv, Memory
<1>4. HeapInv
  BY DEF MemInv
<1>5. ASSUME free_chain # <<>>, inuse' = inuse \cup {<<Head(free_chain), n>>},
             free_chain' = Tail(free_chain),
             UNCHANGED <<memVars, fresh_chain, fresh_count, taskVars, halted>>
      PROVE  MemInv'
  <2>. DEFINE l == Len(free_chain)
              h == free_chain[1]
  <2>1. PICK f \in Seq(HPage \X Nat) :
          /\ f = free_chain' /\ l \in Nat /\ 1 \in 1..l /\ Len(f) = l - 1
          /\ \A i \in 1..Len(f) : i + 1 \in 1..l /\ f[i] = free_chain[i + 1]
    <3>1. Tail(free_chain) \in Seq(HPage \X Nat) /\ l \in Nat /\ 1 \in 1..l /\ Len(Tail(free_chain)) = l - 1
      BY <1>1, <1>5
    <3>2. \A i \in 1..(l - 1) : i + 1 \in 1..l /\ Tail(free_chain)[i] = free_chain[i + 1]
      BY <1>1, <1>5
    <3>. QED BY <1>5, <3>1, <3>2
  <2>2. Head(free_chain) = h /\ h \in HPage \X Nat
    BY <1>1, <1>5
  <2>. HIDE DEF l
  <2>3. /\ h \in HPage \X (1..PerPage) /\ (h[1] = fresh_chain[1] => h[2] < fresh_chain[2])
        /\ \A b \in inuse : b[1] # h
        /\ \A i \in 1..l : free_chain[i] = h => i = 1
    BY <1>4, <2>1 DEF HeapInv, l
  <2>. HIDE DEF h
  <2>4. inuse' = inuse \cup {<<h, n>>}
    BY <1>5, <2>2
  <2>5. HeapInv'
    <3>1. /\ fresh_chain'[1] \in HPage /\ fresh_chain'[2] \in 1..PerPage
          /\ fresh_count' = PerPage - fresh_chain'[2] + 1
      BY <1>4, <1>5 DEF HeapInv
    <3>2. ASSUME NEW c \in inuse'
          PROVE  /\ c[1] \in HPage \X (1..PerPage) /\ c[2] =< Class[KM]
                 /\ c[1][1] = fresh_chain[1] => c[1][2] < fresh_chain[2]
      BY <1>2, <1>4, <2>3, <2>4 DEF HeapInv
    <3>3. \A c, d \in inuse' : c[1] = d[1] => c = d
      BY <1>4, <2>3, <2>4 DEF HeapInv
    <3>4. ASSUME NEW i \in 1..Len(f)
          PROVE  /\ f[i] \in HPage \X (1..PerPage)
                 /\ f[i][1] = fresh_chain[1] => f[i][2] < fresh_chain[2]
                 /\ f[i] # h
                 /\ \A c \in inuse : f[i] # c[1]
      <4>1. PICK j \in 1..l : j = i + 1 /\ f[i] = free_chain[j] /\ j # 1
        BY <2>1
      <4>. QED BY <1>4, <2>3, <4>1 DEF HeapInv, l
    <3>5. ASSUME NEW i \in 1..Len(f), NEW j \in 1..Len(f), f[i] = f[j] PROVE i = j
      <4>1. i + 1 \in 1..l /\ j + 1 \in 1..l /\ free_chain[i + 1] = free_chain[j + 1]
        BY <2>1, <3>5
      <4>2. i + 1 = j + 1
        BY <1>4, <4>1 DEF HeapInv, l
      <4>. QED BY <2>1, <4>2
    <3>6. IsFiniteSet(inuse')
      BY <1>1, <2>4, FS_AddElement
    <3>7. \A i \in 1..Len(f), c \in inuse' : f[i] # c[1]
      BY <2>4, <3>4
    <3>. QED BY <1>5, <2>1, <3>1, <3>2, <3>3, <3>4, <3>5, <3>6, <3>7 DEF HeapInv
  <2>6. HeapPages' \subseteq HeapPages
    <3>. SUFFICES ASSUME NEW v \in HeapPages' PROVE v \in HeapPages
      OBVIOUS
    <3>1. CASE v = fresh_chain[1] \/ \E c \in inuse : v = c[1][1]
      BY <3>1 DEF HeapPages
    <3>2. CASE v = h[1]
      BY <2>1, <3>2 DEF HeapPages, h, l
    <3>3. CASE \E i \in 1..Len(f) : v = f[i][1]
      <4>1. PICK i \in 1..Len(f) : v = f[i][1]
        BY <3>3
      <4>. QED BY <2>1, <4>1 DEF HeapPages, l
    <3>. QED BY <1>5, <2>1, <2>4, <3>1, <3>2, <3>3 DEF HeapPages
  <2>7. Memory' \in MemRec /\ ptab' = ptab /\ high' = high
    BY <1>3, <1>5 DEF Memory, memVars
  <2>8. /\ fresh_chain' \in HPage \X Nat /\ fresh_count' \in 1..PerPage
        /\ free_chain' \in Seq(HPage \X Nat) /\ inuse' \subseteq (HPage \X Nat) \X Sizes
    BY <1>1, <1>5, <2>1, <2>2, <2>4 DEF h
  <2>. QED BY <1>5, <2>5, <2>6, <2>7, <2>8, HeapRest
<1>6. ASSUME free_chain = <<>>, fresh_count > 1 \/ RoomHigh(Memory, 1),
             inuse' = inuse \cup {<<fresh_chain, n>>},
             fresh_chain' = Shave(Memory).fresh, fresh_count' = Shave(Memory).count,
             Update(Shave(Memory).m), UNCHANGED <<free_chain, taskVars, halted>>
      PROVE  MemInv'
  <2>1. /\ fresh_chain = <<fresh_chain[1], fresh_chain[2]>>
        /\ fresh_chain[1] \in HPage /\ fresh_chain[2] \in 1..PerPage
        /\ fresh_count = PerPage - fresh_chain[2] + 1 /\ PerPage \in Nat /\ PerPage > 1
    BY <1>1, <1>4, MemoryAssumption DEF HeapInv
  <2>2. \A b \in inuse : b[1] # fresh_chain
    BY <1>4, <2>1 DEF HeapInv
  <2>3. /\ \A c \in inuse' : c[1] \in HPage \X (1..PerPage) /\ c[2] =< Class[KM]
        /\ \A c, d \in inuse' : c[1] = d[1] => c = d
        /\ IsFiniteSet(inuse')
    <3>1. \A c \in inuse' : c[1] \in HPage \X (1..PerPage) /\ c[2] =< Class[KM]
      BY <1>2, <1>4, <1>6, <2>1 DEF HeapInv
    <3>2. \A c, d \in inuse' : c[1] = d[1] => c = d
      BY <1>4, <1>6, <2>2 DEF HeapInv
    <3>3. IsFiniteSet(inuse')
      BY <1>1, <1>6, FS_AddElement
    <3>. QED BY <3>1, <3>2, <3>3
  <2>4. Len(free_chain') = 0 /\ free_chain' = free_chain
    BY <1>6
  <2>5. HeapPages' \subseteq HeapPages \cup {fresh_chain'[1]}
    <3>. SUFFICES ASSUME NEW v \in HeapPages' PROVE v \in HeapPages \cup {fresh_chain'[1]}
      OBVIOUS
    <3>1. CASE v = fresh_chain'[1]
      BY <3>1
    <3>2. CASE \E c \in inuse' : v = c[1][1]
      BY <1>6, <3>2 DEF HeapPages
    <3>. QED BY <2>4, <3>1, <3>2 DEF HeapPages
  <2>6. inuse' \subseteq (HPage \X Nat) \X Sizes
    BY <1>1, <1>6
  <2>7. CASE fresh_count > 1
    <3>1. /\ fresh_chain' = <<fresh_chain[1], fresh_chain[2] + 1>> /\ fresh_count' = fresh_count - 1
          /\ used' = used /\ high' = high /\ ptab' = ptab
      BY <1>6, <2>7 DEF Shave, Update, Memory
    <3>2. /\ fresh_chain'[1] = fresh_chain[1] /\ fresh_chain'[2] = fresh_chain[2] + 1
          /\ fresh_chain'[2] \in 1..PerPage /\ fresh_count' = PerPage - fresh_chain'[2] + 1
          /\ fresh_chain' \in HPage \X Nat /\ fresh_count' \in 1..PerPage
      BY <1>1, <2>1, <2>7, <3>1
    <3>3. ASSUME NEW c \in inuse', c[1][1] = fresh_chain'[1] PROVE c[1][2] < fresh_chain'[2]
      <4>1. CASE c \in inuse
        <5>1. c[1][2] < fresh_chain[2] /\ c[1][2] \in 1..PerPage
          BY <1>4, <3>2, <3>3, <4>1 DEF HeapInv
        <5>. QED BY <2>1, <3>2, <5>1
      <4>2. CASE c = <<fresh_chain, n>>
        BY <2>1, <3>2, <4>2
      <4>. QED BY <1>6, <4>1, <4>2
    <3>4. HeapInv'
      BY <2>1, <2>3, <2>4, <3>2, <3>3 DEF HeapInv
    <3>5. HeapPages' \subseteq HeapPages
      BY <2>5, <3>2 DEF HeapPages
    <3>6. Memory' \in MemRec
      BY <1>3, <3>1 DEF Memory
    <3>. QED BY <1>1, <1>6, <2>4, <2>6, <3>1, <3>2, <3>4, <3>5, <3>6, HeapRest
  <2>8. CASE ~(fresh_count > 1)
    <3>. DEFINE v == MmAllocPages(Memory, 1).virt
                o == MmAllocPages(Memory, 1).m
    <3>1. /\ fresh_chain' = <<v, 1>> /\ fresh_count' = PerPage
          /\ used' = o.used /\ high' = o.high /\ ptab' = o.ptab
      BY <1>6, <2>8 DEF Shave, Update
    <3>2. RoomHigh(Memory, 1)
      BY <1>6, <2>8
    <3>3. v \in HPage /\ high[v] = NONE /\ o.high[v] # NONE
      <4>1. 0 \in 0..(1 - 1) /\ 1 \in Nat \ {0}
        OBVIOUS
      <4>2. v \in HPage /\ high[v + 0] = NONE /\ o.high[v] # NONE
        BY <1>3, <3>2, <4>1, AllocPages
      <4>3. v + 0 = v
        BY <4>2 DEF HPage
      <4>. QED BY <4>2, <4>3
    <3>4. Keeps(Memory, o, 0) /\ o.ptab = ptab
      BY <1>3, <3>2, GrowHigh, GrowKeeps, AllocTables
    <3>. HIDE DEF v, o
    <3>5. Memory' \in MemRec /\ \A w \in HPage : high[w] # NONE => high'[w] = high[w]
      BY <1>3, <3>1, <3>4 DEF Keeps, Memory, MemRec
    <3>6. v \notin HeapPages
      BY <3>3 DEF MemInv, Apart
    <3>7. /\ fresh_chain'[1] = v /\ fresh_chain'[2] = 1 /\ 1 \in 1..PerPage
          /\ fresh_chain' \in HPage \X Nat /\ fresh_count' \in 1..PerPage
      BY <2>1, <3>1, <3>3
    <3>8. \A c \in inuse' : c[1][1] # v
      BY <1>6, <3>6 DEF HeapPages
    <3>9. HeapInv'
      BY <2>1, <2>3, <2>4, <3>1, <3>3, <3>7, <3>8 DEF HeapInv
    <3>. QED BY <1>1, <1>6, <2>4, <2>5, <2>6, <3>1, <3>3, <3>4, <3>5, <3>7, <3>9, HeapRest
  <2>. QED BY <2>7, <2>8
<1>7. CASE free_chain = <<>> /\ Halt(fresh_count > 1 \/ RoomHigh(Memory, 1))
  BY <1>7, HaltMemInv
<1>. QED BY <1>5, <1>6, <1>7 DEF kmalloc

-----------------------------------------------------------------------------
(* Segments *)

\* A segment takes frames that were free and the first unused entry.
SegCreated(n) ==
  \E c \in Unused, f \in Nat, g \in Frame \cup {NONE} :
    /\ n > 0 => g = f
    /\ f..(f + n - 1) \subseteq Frame \ used
    /\ used' = used \cup f..(f + n - 1) /\ high' = high /\ ptab' = ptab
    /\ mem' = [mem EXCEPT ![c] = g] /\ LenInPages' = [LenInPages EXCEPT ![c] = n]
    /\ RefCount' = [RefCount EXCEPT ![c] = 0]

\* SmCreateSeg makes a segment, or halts the kernel.
LEMMA CreateSegShape ==
  ASSUME MemInv, NEW p \in Proc, NEW n \in SegLens, SmCreateSeg(p, n)
  PROVE  /\ SegCreated(n) \/ UNCHANGED <<memVars, segVars>>
         /\ UNCHANGED <<taskVars, heapVars, handles>> /\ halted' \in BOOLEAN
<1>. DEFINE k == CHOOSE i \in Unused : \A j \in Unused : i =< j
            a == MmAllocPages(Memory, n)
<1>0. halted \in BOOLEAN
  BY DEF MemInv, TypeOK
<1>1. CASE Halt(Unused # {} /\ RoomHigh(Memory, n)) /\ UNCHANGED segVars
  BY <1>1 DEF Halt, segVars
<1>2. ASSUME Unused # {}, RoomHigh(Memory, n), mem' = [mem EXCEPT ![k] = a.m.high[a.virt]],
             LenInPages' = [LenInPages EXCEPT ![k] = n], RefCount' = [RefCount EXCEPT ![k] = 0],
             Update([a.m EXCEPT !.high = kunmap_Page(@, a.virt, n)])
      PROVE  SegCreated(n)
  <2>1. k \in Unused
    <3>1. Unused \subseteq Nat
      BY DEF Unused, Key
    <3>2. \E i \in Unused : \A j \in Unused : i =< j
      BY <1>2, <3>1, LeastNumber
    <3>. QED BY <3>2
  <2>2. Memory \in MemRec /\ n \in Nat /\ Memory.used = used /\ Memory.high = high /\ Memory.ptab = ptab
    BY MemoryType, SharedMemoryAssumption DEF MemInv, Memory
  <2>3. PICK f \in Nat, v \in Nat :
           /\ f..(f + n - 1) \subseteq Frame \ Memory.used
           /\ v..(v + n - 1) \subseteq HPage \ Mapped(Memory.high) /\ v \in HPage
           /\ a.virt = v
           /\ a.m = [used |-> Memory.used \cup f..(f + n - 1), high |-> Map(Memory.high, v, f, n),
                     ptab |-> Memory.ptab]
    BY <1>2, <2>2, AllocHigh
  <2>4. high \in [HPage -> Frame \cup {NONE}]
    BY <2>2 DEF MemRec
  <2>5. a.m.high[a.virt] \in Frame \cup {NONE} /\ (n > 0 => a.m.high[a.virt] = f)
    <3>1. a.m.high[a.virt] = IF n > 0 THEN f ELSE high[v]
      <4>1. a.m.high = Map(high, v, f, n)
        BY <2>2, <2>3
      <4>2. v \in v..(v + n - 1) <=> n > 0
        BY <2>2
      <4>. HIDE DEF a
      <4>. QED BY <2>3, <2>4, <4>1, <4>2 DEF Map
    <3>2. n > 0 => f \in Frame
      <4>1. n > 0 => f \in f..(f + n - 1)
        BY <2>2
      <4>. QED BY <2>3, <4>1
    <3>. QED BY <2>3, <2>4, <3>1, <3>2
  <2>6. /\ used' = used \cup f..(f + n - 1) /\ ptab' = ptab
        /\ high' = kunmap_Page(Map(high, v, f, n), v, n)
    BY <1>2, <2>2, <2>3 DEF Update
  <2>7. high' = high
    <3>1. \A w \in v..(v + n - 1) : high[w] = NONE
      BY <2>2, <2>3, <2>4 DEF Mapped
    <3>. QED BY <2>4, <2>6, <3>1 DEF kunmap_Page, Map
  <2>. HIDE DEF k, a
  <2>. QED BY <1>2, <2>1, <2>2, <2>3, <2>5, <2>6, <2>7 DEF SegCreated
<1>. QED
  <2>. HIDE DEF k, a
  <2>. QED BY <1>0, <1>1, <1>2 DEF SmCreateSeg, Halt, segVars, k, a

\* SmCreateSeg keeps MemInv.
LEMMA CreateSegMemInv ==
  ASSUME MemInv, NEW p \in Proc, NEW n \in SegLens, SmCreateSeg(p, n)
  PROVE  MemInv'
<1>1. Memory \in MemRec /\ aspaceAt[p] # NONE
  BY MemoryType, RunsLives DEF MemInv, SmCreateSeg
<1>2. Keeps(Memory, Memory', p)
  <2>1. CASE SegCreated(n)
    <3>1. used' \subseteq Frame /\ high' = high /\ ptab' = ptab
      BY <1>1, <2>1 DEF SegCreated, Memory, MemRec
    <3>2. Memory' \in MemRec
      BY <1>1, <3>1 DEF Memory, MemRec
    <3>. QED BY <3>1, <3>2 DEF Keeps, Memory
  <2>2. CASE UNCHANGED memVars
    BY <1>1, <2>2 DEF Keeps, Memory, memVars
  <2>. QED BY <2>1, <2>2, CreateSegShape
<1>. QED BY <1>1, <1>2, CreateSegShape, KeepsMemInv

\* kmap_LowPage maps its frames at free entries.
LEMMA MapLow ==
  ASSUME NEW m \in MemRec, NEW p \in Proc, NEW f, NEW n \in Nat, f..(f + n - 1) \subseteq Frame, f \in Int,
         Fits(Mapped(m.ptab[p]), n, NLow) # {}
  PROVE  \E v \in Nat : /\ v..(v + n - 1) \subseteq LPage \ Mapped(m.ptab[p])
                        /\ kmap_LowPage(m, p, f, n) =
                             [used |-> m.used, high |-> m.high,
                              ptab |-> [m.ptab EXCEPT ![p] = Map(@, v, f, n)]]
                        /\ kmap_LowPage(m, p, f, n) \in MemRec
<1>. DEFINE v == FirstFit(Mapped(m.ptab[p]), n, NLow)
            t == Map(m.ptab[p], v, f, n)
            o == [used |-> m.used, high |-> m.high, ptab |-> [m.ptab EXCEPT ![p] = t]]
<1>1. v \in Nat /\ v..(v + n - 1) \subseteq LPage \ Mapped(m.ptab[p])
  <2>1. v \in Fits(Mapped(m.ptab[p]), n, NLow)
    BY FirstFitFits, MemoryAssumption
  <2>. HIDE DEF v
  <2>. QED BY <2>1, MemoryAssumption DEF Fits, LPage
<1>. HIDE DEF v
<1>2. t \in [LPage -> Frame \cup {NONE}]
  <2>1. m.ptab[p] \in [LPage -> Frame \cup {NONE}]
    BY DEF MemRec
  <2>2. \A i \in v..(v + n - 1) : f + (i - v) \in f..(f + n - 1)
    BY <1>1
  <2>. QED BY <2>1, <2>2 DEF Map
<1>3. kmap_LowPage(m, p, f, n) = o
  <2>1. kmap_LowPage(m, p, f, n) = [m EXCEPT !.ptab = [m.ptab EXCEPT ![p] = t]]
    BY DEF kmap_LowPage, v
  <2>. HIDE DEF t
  <2>. QED BY <2>1 DEF MemRec
<1>4. o \in MemRec
  <2>. HIDE DEF t
  <2>1. [m.ptab EXCEPT ![p] = t] \in [Proc -> [LPage -> Frame \cup {NONE}]]
    BY <1>2 DEF MemRec
  <2>. QED BY <2>1 DEF MemRec
<1>. QED BY <1>1, <1>3, <1>4

\* A handle is made, then the segment is mapped at free entries.
SegAttached(p, k) ==
  \E n \in MemRec, v \in Nat :
    /\ Grow(Memory, n, p) /\ n.ptab = ptab
    /\ v..(v + LenInPages[k] - 1) \subseteq LPage \ Mapped(ptab[p])
    /\ Memory' = [used |-> n.used, high |-> n.high,
                  ptab |-> [n.ptab EXCEPT ![p] = Map(@, v, mem[k], LenInPages[k])]]
    /\ Memory' \in MemRec
    /\ handles' = [handles EXCEPT ![p][k] = @ + 1] /\ RefCount' = [RefCount EXCEPT ![k] = @ + 1]

\* SmAttachSeg maps the segment, or halts the kernel.
LEMMA AttachShape ==
  ASSUME MemInv, SegType, NEW p \in Proc, NEW k \in Key, SmAttachSeg(p, k)
  PROVE  /\ SegAttached(p, k) \/ UNCHANGED <<memVars, segVars>>
         /\ UNCHANGED <<taskVars, heapVars, mem, LenInPages>> /\ halted' \in BOOLEAN
<1>. DEFINE m1 == MmAllocPages(Memory, 1).m
            m2 == NewHandle(Memory)
            o == kmap_LowPage(m2, p, mem[k], LenInPages[k])
<1>0. halted \in BOOLEAN
  BY DEF MemInv, TypeOK
<1>1. CASE Halt(FALSE) /\ UNCHANGED segVars
  BY <1>1 DEF Halt, segVars
<1>2. ASSUME RoomHandle(Memory), Fits(Mapped(ptab[p]), LenInPages[k], NLow) # {}, Update(o),
             handles' = [handles EXCEPT ![p][k] = @ + 1], RefCount' = [RefCount EXCEPT ![k] = @ + 1]
      PROVE  SegAttached(p, k)
  <2>1. Memory \in MemRec /\ Memory.ptab = ptab /\ mem[k] # NONE
    BY MemoryType DEF MemInv, SmAttachSeg, Memory
  <2>2. RoomHigh(Memory, 1) /\ RoomHigh(m1, 1) /\ m2 = MmAllocPages(m1, 1).m
    BY <1>2 DEF RoomHandle, NewHandle
  <2>3. Grow(Memory, m1, p) /\ m1 \in MemRec /\ m1.ptab = ptab
    BY <2>1, <2>2, GrowHigh, AllocTables DEF Grow
  <2>. HIDE DEF m1
  <2>4. Grow(m1, m2, p) /\ m2.ptab = ptab
    BY <2>2, <2>3, GrowHigh, AllocTables
  <2>. HIDE DEF m2
  <2>5. Grow(Memory, m2, p) /\ m2 \in MemRec
    <3>1. Grow(Memory, m2, p)
      BY <2>1, <2>3, <2>4, GrowTrans
    <3>. QED BY <3>1 DEF Grow
  <2>6. mem[k] \in Int /\ LenInPages[k] \in Nat /\ mem[k]..(mem[k] + LenInPages[k] - 1) \subseteq Frame
    BY <2>1 DEF SegType, Segment, Frame
  <2>7. PICK v \in Nat : /\ v..(v + LenInPages[k] - 1) \subseteq LPage \ Mapped(m2.ptab[p])
                         /\ o = [used |-> m2.used, high |-> m2.high,
                                 ptab |-> [m2.ptab EXCEPT ![p] = Map(@, v, mem[k], LenInPages[k])]]
                         /\ o \in MemRec
    BY <1>2, <2>4, <2>5, <2>6, MapLow
  <2>8. Memory' = o
    <3>. HIDE DEF o
    <3>. QED BY <1>2, <2>7 DEF Memory, Update, MemRec
  <2>. HIDE DEF o
  <2>. QED BY <1>2, <2>4, <2>5, <2>7, <2>8 DEF SegAttached
<1>. QED
  <2>. HIDE DEF o
  <2>. QED BY <1>0, <1>1, <1>2 DEF SmAttachSeg, Halt, segVars, o

\* SmAttachSeg keeps what is mapped.
LEMMA AttachedKeeps ==
  ASSUME Memory \in MemRec, NEW p \in Proc, NEW k \in Key, SegAttached(p, k)
  PROVE  Keeps(Memory, Memory', p)
<1>1. PICK n \in MemRec, v \in Nat :
        /\ Grow(Memory, n, p) /\ n.ptab = ptab
        /\ v..(v + LenInPages[k] - 1) \subseteq LPage \ Mapped(ptab[p])
        /\ Memory' = [used |-> n.used, high |-> n.high,
                      ptab |-> [n.ptab EXCEPT ![p] = Map(@, v, mem[k], LenInPages[k])]]
        /\ Memory' \in MemRec
  BY DEF SegAttached
<1>2. Keeps(Memory, n, p) /\ Memory'.high = n.high
  BY <1>1, GrowKeeps
<1>3. PICK o, f, l : /\ o = Memory' /\ f = mem[k] /\ l = LenInPages[k]
                     /\ o = [used |-> n.used, high |-> n.high,
                             ptab |-> [n.ptab EXCEPT ![p] = Map(@, v, f, l)]]
  BY <1>1
<1>4. o.ptab = [n.ptab EXCEPT ![p] = Map(n.ptab[p], v, f, l)]
  BY <1>3
<1>5. \A q \in Proc, i \in LPage :
        o.ptab[q][i] = IF q = p /\ i \in v..(v + l - 1) THEN f + (i - v) ELSE n.ptab[q][i]
  <2>1. n.ptab[p] \in [LPage -> Frame \cup {NONE}] /\ n.ptab \in [Proc -> [LPage -> Frame \cup {NONE}]]
    BY DEF MemRec
  <2>2. \A i \in LPage :
          Map(n.ptab[p], v, f, l)[i] = IF i \in v..(v + l - 1) THEN f + (i - v) ELSE n.ptab[p][i]
    BY <2>1 DEF Map
  <2>. QED BY <1>4, <2>1, <2>2
<1>6. \A q \in Proc, i \in LPage : ptab[q][i] # NONE \/ q # p => o.ptab[q][i] = ptab[q][i]
  <2>1. DOMAIN ptab[p] = LPage
    BY DEF MemRec, Memory
  <2>. QED BY <1>1, <1>3, <1>5, <2>1 DEF Mapped
<1>7. Memory.ptab = ptab
  BY DEF Memory
<1>. QED BY <1>1, <1>2, <1>3, <1>6, <1>7 DEF Keeps

\* SmAttachSeg keeps MemInv.
LEMMA AttachMemInv ==
  ASSUME MemInv, SegType, NEW p \in Proc, NEW k \in Key, SmAttachSeg(p, k)
  PROVE  MemInv'
<1>1. Memory \in MemRec /\ aspaceAt[p] # NONE
  BY MemoryType, RunsLives DEF MemInv, SmAttachSeg
<1>2. Keeps(Memory, Memory', p)
  <2>1. CASE SegAttached(p, k)
    BY <1>1, <2>1, AttachedKeeps
  <2>2. CASE UNCHANGED memVars
    BY <1>1, <2>2 DEF Keeps, Memory, memVars
  <2>. QED BY <2>1, <2>2, AttachShape
<1>. QED BY <1>1, <1>2, AttachShape, KeepsMemInv

\* SmCloseSeg keeps MemInv.
LEMMA CloseSegMemInv ==
  ASSUME MemInv, NEW p \in Proc, NEW k \in Key, SmCloseSeg(p, k)
  PROVE  MemInv'
<1>. halted \in BOOLEAN
  BY DEF MemInv, TypeOK
<1>. QED BY StillMemInv DEF SmCloseSeg, vars

\* Every step keeps MemInv.
LEMMA StepMemInv ==
  ASSUME MemInv, SegType, [ShmNext]_shmVars
  PROVE  MemInv'
<1>1. ASSUME NEW p \in Proc, CreateThread(p) PROVE MemInv'
  <2>1. CASE PsCreateNewTask(p)
    BY <2>1, CreateTaskMemInv
  <2>2. CASE Halt(~TableFull(p))
    BY <2>2, HaltMemInv
  <2>. QED BY <1>1, <2>1, <2>2 DEF CreateThread
<1>2. ASSUME NEW t \in Task, PsCleanUpTask(t) PROVE MemInv'
  BY <1>2, CleanUpMemInv
<1>3. ASSUME NEW p \in Proc, NEW addr \in Breaks, brk(p, addr) PROVE MemInv'
  BY <1>3, BrkMemInv
<1>4. ASSUME NEW n \in Sizes, kmalloc(n) PROVE MemInv'
  BY <1>4, KmallocMemInv
<1>5. ASSUME NEW b \in inuse, kfree(b) PROVE MemInv'
  BY <1>5, KfreeMemInv
<1>6. ASSUME NEW p \in Proc, NEW n \in SegLens, SmCreateSeg(p, n) PROVE MemInv'
  BY <1>6, CreateSegMemInv
<1>7. ASSUME NEW p \in Proc, NEW k \in Key, SmAttachSeg(p, k) PROVE MemInv'
  BY <1>7, AttachMemInv
<1>8. ASSUME NEW p \in Proc, NEW k \in Key, SmCloseSeg(p, k) PROVE MemInv'
  BY <1>8, CloseSegMemInv
<1>9. CASE UNCHANGED shmVars
  <2>. halted \in BOOLEAN
    BY DEF MemInv, TypeOK
  <2>. QED BY <1>9, StillMemInv DEF shmVars, vars
<1>. QED BY <1>1, <1>2, <1>3, <1>4, <1>5, <1>6, <1>7, <1>8, <1>9 DEF ShmNext

\* Every step keeps SegType.
LEMMA StepSegType ==
  ASSUME MemInv, SegType, [ShmNext]_shmVars
  PROVE  SegType'
<1>1. ASSUME NEW p \in Proc, NEW n \in SegLens, SmCreateSeg(p, n) PROVE SegType'
  <2>1. CASE UNCHANGED segVars
    BY <2>1 DEF segVars, SegType, Segment
  <2>2. ASSUME SegCreated(n), handles' = handles PROVE SegType'
    <3>1. PICK c \in Key, f \in Nat, g \in Frame \cup {NONE} :
            /\ n > 0 => g = f
            /\ f..(f + n - 1) \subseteq Frame
            /\ mem' = [mem EXCEPT ![c] = g] /\ LenInPages' = [LenInPages EXCEPT ![c] = n]
            /\ RefCount' = [RefCount EXCEPT ![c] = 0]
      BY <2>2 DEF SegCreated, Unused
    <3>2. n \in Nat
      BY SharedMemoryAssumption
    <3>3. /\ mem \in [Key -> Frame \cup {NONE}] /\ LenInPages \in [Key -> Nat]
          /\ RefCount \in [Key -> Nat] /\ handles \in [Proc -> [Key -> Nat]]
      BY DEF SegType
    <3>4. mem' \in [Key -> Frame \cup {NONE}] /\ LenInPages' \in [Key -> Nat]
      BY <3>1, <3>2, <3>3
    <3>5. RefCount' \in [Key -> Nat] /\ handles' \in [Proc -> [Key -> Nat]]
      BY <2>2, <3>1, <3>3
    <3>6. /\ mem'[c] = g /\ LenInPages'[c] = n
          /\ \A l \in Key : l # c => mem'[l] = mem[l] /\ LenInPages'[l] = LenInPages[l]
      BY <3>1, <3>3
    <3>7. ASSUME NEW l \in Key PROVE Segment(l)' \subseteq Frame
      <4>1. CASE l # c
        BY <3>6, <4>1 DEF SegType, Segment
      <4>2. CASE l = c /\ n > 0
        BY <3>1, <3>6, <4>2 DEF Segment
      <4>3. CASE l = c /\ n = 0
        <5>1. g \in Int
          BY DEF Frame, NONE
        <5>. QED BY <3>6, <4>3, <5>1 DEF Segment
      <4>. QED BY <3>2, <4>1, <4>2, <4>3
    <3>. QED BY <3>4, <3>5, <3>7 DEF SegType
  <2>. QED BY <1>1, <2>1, <2>2, CreateSegShape
<1>2. ASSUME NEW p \in Proc, NEW k \in Key, SmAttachSeg(p, k) PROVE SegType'
  <2>1. CASE UNCHANGED segVars
    BY <2>1 DEF segVars, SegType, Segment
  <2>2. ASSUME handles' = [handles EXCEPT ![p][k] = @ + 1], RefCount' = [RefCount EXCEPT ![k] = @ + 1],
               UNCHANGED <<mem, LenInPages>>
        PROVE  SegType'
    <3>1. handles' \in [Proc -> [Key -> Nat]] /\ RefCount' \in [Key -> Nat]
      BY <2>2 DEF SegType
    <3>. QED BY <2>2, <3>1 DEF SegType, Segment
  <2>. QED BY <1>2, <2>1, <2>2 DEF SmAttachSeg
<1>3. ASSUME NEW p \in Proc, NEW k \in Key, SmCloseSeg(p, k) PROVE SegType'
  BY <1>3 DEF SmCloseSeg, SegType, Segment
<1>4. CASE UNCHANGED segVars
  BY <1>4 DEF segVars, SegType, Segment
<1>. QED BY <1>1, <1>2, <1>3, <1>4 DEF ShmNext, CreateThread, shmVars, segVars

-----------------------------------------------------------------------------
(* Frames, when memory grows *)

\* Framed is kept when memory grows.
LEMMA FramedGrows ==
  ASSUME NEW m \in MemRec, NEW n, NEW G, Framed(m, G), G \subseteq m.used,
         NEW p, Grow(m, n, p), p \in Proc => \A i \in Video : m.ptab[p][i] # NONE
  PROVE  Framed(n, G)
<1>1. ASSUME NEW x \in Entries PROVE Val(n, x) = Val(m, x) \/ New(m, n, x)
  BY DEF Grow
<1>2. ASSUME NEW x \in Entries, New(m, n, x)
      PROVE  Mine(x) /\ Val(n, x) \in n.used \ m.used
  <2>1. Val(m, x) = NONE /\ x[1] \in {0, p} /\ Val(n, x) \in n.used \ m.used
    BY <1>2 DEF Grow, New
  <2>2. x[1] = 0 \/ (x[1] # 0 /\ x[1] \in Proc)
    BY DEF Entries, Proc
  <2>. QED BY <2>1, <2>2 DEF Mine, Val
<1>3. ASSUME NEW x \in Entries, Mine(x), Val(n, x) # NONE PROVE Val(n, x) \in n.used \ Reserved
  BY <1>1, <1>2, <1>3 DEF Framed, Grow
<1>4. ASSUME NEW x \in Entries, x[1] = 0 PROVE Val(n, x) \notin G
  BY <1>1, <1>2, <1>4 DEF Framed
<1>5. ASSUME NEW x \in Entries, NEW y \in Entries, Mine(x), Mine(y),
             Val(n, x) # NONE, Val(n, x) = Val(n, y), Val(n, x) \notin G
      PROVE  x = y
  <2>1. CASE New(m, n, x) /\ New(m, n, y)
    BY <1>5, <2>1 DEF Grow
  <2>2. CASE Val(n, x) = Val(m, x) /\ Val(n, y) = Val(m, y)
    BY <1>5, <2>2 DEF Framed
  <2>3. CASE New(m, n, x) /\ Val(n, y) = Val(m, y)
    BY <1>2, <1>5, <2>3 DEF Framed
  <2>4. CASE New(m, n, y) /\ Val(n, x) = Val(m, x)
    BY <1>2, <1>5, <2>4 DEF Framed
  <2>. QED BY <1>1, <2>1, <2>2, <2>3, <2>4
<1>6. ASSUME NEW f \in n.used \ (Reserved \cup G) PROVE \E x \in Entries : Mine(x) /\ Val(n, x) = f
  <2>1. CASE f \in m.used
    <3>1. PICK x \in Entries : Mine(x) /\ Val(m, x) = f
      BY <1>6, <2>1 DEF Framed
    <3>2. f # NONE
      BY <2>1 DEF MemRec, Frame, NONE
    <3>3. Val(n, x) = Val(m, x)
      BY <1>1, <3>1, <3>2 DEF New
    <3>. QED BY <3>1, <3>3
  <2>2. CASE f \notin m.used
    <3>1. PICK x \in Entries : New(m, n, x) /\ Val(n, x) = f
      BY <1>6, <2>2 DEF Grow
    <3>. QED BY <1>2, <3>1
  <2>. QED BY <2>1, <2>2
<1>7. Reserved \subseteq n.used
  BY DEF Framed, Grow
<1>8. ASSUME NEW x \in Entries, ~Mine(x) PROVE Val(n, x) \in Reserved \cup {NONE}
  BY <1>1, <1>2, <1>8 DEF Framed
<1>. QED BY <1>3, <1>4, <1>5, <1>6, <1>7, <1>8 DEF Framed

-----------------------------------------------------------------------------
(* Start-up *)

\* The recursive function Boot exists: each value follows from the one before.
LEMMA BootSteps ==
  /\ Boot[0] = [aspace |-> 0, task |-> MmAllocPages(Loaded, 1)]
  /\ \A p \in Proc : Boot[p] = NewProcess(Boot[p - 1].task.m, p)
<1>. DEFINE step(f, p) == IF p = 0 THEN [aspace |-> 0, task |-> MmAllocPages(Loaded, 1)]
                          ELSE NewProcess(f[p - 1].task.m, p)
            Upto(n) == \E f : f = [p \in 0..n |-> step(f, p)]
            T == {n \in 0..NBoot : ~Upto(n)}
<1>1. \A f, g, p : (p # 0 => f[p - 1] = g[p - 1]) => step(f, p) = step(g, p)
  OBVIOUS
<1>2. Boot = CHOOSE f : f = [p \in 0..NBoot |-> step(f, p)]
  BY DEF Boot
<1>. HIDE DEF step
<1>3. T = {}
  <2>. SUFFICES ASSUME T # {} PROVE FALSE
    OBVIOUS
  <2>1. PICK x \in T : \A y \in T : x =< y
    <3>1. T \subseteq Nat
      OBVIOUS
    <3>. HIDE DEF T
    <3>. QED BY <3>1, LeastNumber
  <2>2. CASE x = 0
    <3>. DEFINE f == [p \in 0..0 |-> step(<<>>, 0)]
    <3>1. \A p \in 0..0 : p = 0 /\ step(f, p) = step(<<>>, 0)
      <4>1. \A p \in 0..0 : p = 0
        OBVIOUS
      <4>. QED BY <1>1, <4>1
    <3>2. f = [p \in 0..0 |-> step(f, p)]
      BY <3>1
    <3>. QED BY <2>1, <2>2, <3>2
  <2>3. CASE x # 0
    <3>1. Upto(x - 1) /\ x \in 1..NBoot
      <4>1. x \in 0..NBoot /\ NBoot \in Nat
        BY <2>1, MemoryAssumption
      <4>2. x \in 1..NBoot /\ x - 1 \in 0..NBoot /\ ~(x =< x - 1)
        BY <2>3, <4>1
      <4>3. x - 1 \notin T
        BY <2>1, <4>2
      <4>. QED BY <4>2, <4>3
    <3>2. PICK g : g = [p \in 0..(x - 1) |-> step(g, p)]
      BY <3>1
    <3>. DEFINE f == [p \in 0..x |-> IF p < x THEN g[p] ELSE step(g, p)]
    <3>3. ASSUME NEW p \in 0..x PROVE f[p] = step(f, p)
      <4>1. p # 0 => f[p - 1] = g[p - 1]
        BY <3>1
      <4>2. step(f, p) = step(g, p)
        <5>. HIDE DEF f
        <5>. QED BY <1>1, <4>1
      <4>3. p < x => g[p] = step(g, p)
        <5>1. p < x => p \in 0..(x - 1)
          BY <3>1
        <5>. QED BY <3>2, <5>1
      <4>. QED BY <4>2, <4>3
    <3>4. f = [p \in 0..x |-> step(f, p)]
      BY <3>3
    <3>5. Upto(x)
      <4>. HIDE DEF f
      <4>. QED BY <3>4
    <3>. QED BY <2>1, <3>5
  <2>. QED BY <2>2, <2>3
<1>4. Upto(NBoot)
  <2>. HIDE DEF Upto
  <2>. QED BY <1>3, MemoryAssumption
<1>5. Boot = [p \in 0..NBoot |-> step(Boot, p)]
  BY <1>2, <1>4
<1>6. \A p \in 0..NBoot : Boot[p] = step(Boot, p)
  BY <1>5
<1>7. 0 \in 0..NBoot /\ \A p \in Proc : p \in 0..NBoot /\ p # 0
  BY MemoryAssumption DEF Proc
<1>. QED BY <1>6, <1>7 DEF step

\* What exists once n processes have been made.
BootAspace(n) == [p \in Proc |-> IF p =< n THEN Boot[p].aspace ELSE NONE]
\* The tables of threads once n processes have been made, and what holds then.
BootTask(n) == [t \in Task |-> IF t =< n THEN Boot[t].task.task ELSE NONE]
BootStack(n) == [t \in Task |-> IF t =< n THEN Boot[t].task.stack ELSE NONE]
BootParent == [t \in Task |-> IF t =< NBoot THEN t ELSE 0]

BootInv(n) ==
  LET m == Boot[n].task.m IN
  /\ m \in MemRec /\ Framed(m, {}) /\ Boot[0].task.virt \in HPage
  /\ Apart(m.high, BootAspace(n), BootTask(n), {Boot[0].task.virt})
  /\ Stacked(m.ptab, BootParent, BootTask(n), BootStack(n))
  /\ \A p \in Proc : m.ptab[p][0] # NONE /\ \A i \in Video : m.ptab[p][i] # NONE
  /\ \A p \in 1..n : /\ Boot[p].aspace \in HPage
                     /\ Boot[p].task.task \in HPage /\ Boot[p].task.stack \in LPage

\* Every image has a frame of its own, which is not reserved.
LEMMA Images ==
  /\ \A p \in Proc : Image(p) \in Frame \ Reserved
  /\ \A p, q \in Proc : Image(p) = Image(q) => p = q
<1>1. ASSUME NEW p \in Proc
      PROVE  /\ Image(p) \in Frame \ Reserved
             /\ Cardinality({g \in Frame \ Reserved : g < Image(p)}) = p - 1
  <2>1. \E f \in Frame \ Reserved : Cardinality({g \in Frame \ Reserved : g < f}) = p - 1
    BY BootAssumption
  <2>. QED BY <2>1 DEF Image
<1>2. ASSUME NEW p \in Proc, NEW q \in Proc, Image(p) = Image(q) PROVE p = q
  <2>1. p - 1 = q - 1
    BY <1>1, <1>2
  <2>. QED BY <2>1 DEF Proc
<1>. QED BY <1>1, <1>2

\* kinit_page and the loader leave every frame accounted for.
LEMMA LoadedFramed ==
  /\ Loaded \in MemRec /\ Framed(Loaded, {})
  /\ \A p \in Proc : Loaded.ptab[p][0] # NONE /\ \A i \in Video : Loaded.ptab[p][i] # NONE
<1>1. \A p \in Proc, i \in LPage :
        Loaded.ptab[p][i] = IF i = 0 THEN Image(p) ELSE IF i \in Video THEN i ELSE NONE
  BY DEF Loaded, FreshTable
<1>2. 0 \in LPage /\ 0 \notin Video /\ Video \subseteq LPage /\ Video \subseteq Reserved /\ Reserved \subseteq Frame
  BY MemoryAssumption DEF LPage, Frame
<1>3. Loaded \in MemRec
  <2>1. Reserved \cup {Image(q) : q \in Proc} \subseteq Frame
    BY <1>2, Images
  <2>2. [v \in HPage |-> NONE] \in [HPage -> Frame \cup {NONE}]
    OBVIOUS
  <2>3. \A p \in Proc : FreshTable(p) \in [LPage -> Frame \cup {NONE}]
    BY <1>2, Images DEF FreshTable
  <2>. QED BY <2>1, <2>2, <2>3 DEF Loaded, MemRec
<1>4. \A p \in Proc : Loaded.ptab[p][0] # NONE /\ \A i \in Video : Loaded.ptab[p][i] # NONE
  <2>1. NONE \notin Frame
    BY DEF Frame, NONE
  <2>. QED BY <1>1, <1>2, <2>1, Images
<1>5. ASSUME NEW x \in Entries
      PROVE  /\ x[1] = 0 => Val(Loaded, x) = NONE
             /\ x[1] # 0 => /\ x[1] \in Proc /\ x[2] \in LPage /\ x = <<x[1], x[2]>>
                            /\ Val(Loaded, x) = Loaded.ptab[x[1]][x[2]]
  BY DEF Entries, Val, Loaded, Proc
<1>6. ASSUME NEW x \in Entries, Mine(x), Val(Loaded, x) # NONE
      PROVE  x[1] \in Proc /\ x = <<x[1], 0>> /\ Val(Loaded, x) = Image(x[1])
  BY <1>1, <1>5, <1>6 DEF Mine
<1>7. ASSUME NEW f \in Loaded.used \ Reserved PROVE \E x \in Entries : Mine(x) /\ Val(Loaded, x) = f
  <2>1. PICK p \in Proc : f = Image(p)
    BY <1>7 DEF Loaded
  <2>2. <<p, 0>> \in Entries /\ Mine(<<p, 0>>) /\ p # 0
    BY <1>2 DEF Entries, Mine, Proc
  <2>3. Val(Loaded, <<p, 0>>) = Image(p)
    BY <1>1, <1>2, <2>2 DEF Val
  <2>. QED BY <2>1, <2>2, <2>3
<1>8. Reserved \subseteq Loaded.used /\ \A p \in Proc : Image(p) \in Loaded.used
  BY DEF Loaded
<1>9. Framed(Loaded, {})
  <2>1. \A x \in Entries : Mine(x) /\ Val(Loaded, x) # NONE => Val(Loaded, x) \in Loaded.used \ Reserved
    BY <1>6, <1>8, Images
  <2>2. ASSUME NEW x \in Entries, NEW y \in Entries, Mine(x), Mine(y),
               Val(Loaded, x) # NONE, Val(Loaded, x) = Val(Loaded, y)
        PROVE  x = y
    <3>1. x[1] \in Proc /\ x = <<x[1], 0>> /\ Val(Loaded, x) = Image(x[1])
      BY <1>6, <2>2
    <3>2. y[1] \in Proc /\ y = <<y[1], 0>> /\ Val(Loaded, y) = Image(y[1])
      BY <1>6, <2>2
    <3>3. x[1] = y[1]
      BY <2>2, <3>1, <3>2, Images
    <3>. QED BY <3>1, <3>2, <3>3
  <2>3. \A x \in Entries : ~Mine(x) => Val(Loaded, x) \in Reserved \cup {NONE}
    BY <1>1, <1>2, <1>5 DEF Mine
  <2>. QED BY <1>7, <1>8, <2>1, <2>2, <2>3 DEF Framed
<1>. QED BY <1>3, <1>4, <1>9

\* The heap's first page is allocated.
LEMMA BootFirst == BootInv(0)
<1>. DEFINE a == MmAllocPages(Loaded, 1)
<1>1. RoomHigh(Loaded, 1) /\ Boot[0].task = a
  BY BootSteps, BootAssumption
<1>2. /\ a.virt \in HPage /\ a.m.high[a.virt] # NONE
  <2>1. 0 \in 0..(1 - 1) /\ 1 \in Nat \ {0}
    OBVIOUS
  <2>. QED BY <1>1, <2>1, LoadedFramed, AllocPages
<1>3. 1 \in Proc
  BY MemoryAssumption DEF Proc
<1>4. Grow(Loaded, a.m, 1) /\ a.m.ptab = Loaded.ptab
  BY <1>1, LoadedFramed, GrowHigh, AllocTables
<1>. HIDE DEF a
<1>5. a.m \in MemRec /\ Framed(a.m, {})
  BY <1>3, <1>4, LoadedFramed, FramedGrows DEF Grow
<1>6. /\ \A p \in Proc : BootAspace(0)[p] = NONE
      /\ \A t \in Task : BootTask(0)[t] = NONE
  BY DEF BootAspace, BootTask, Proc, Task
<1>7. Apart(a.m.high, BootAspace(0), BootTask(0), {a.virt})
  BY <1>2, <1>6 DEF Apart
<1>8. Stacked(a.m.ptab, BootParent, BootTask(0), BootStack(0))
  BY <1>6 DEF Stacked
<1>. QED BY <1>1, <1>2, <1>4, <1>5, <1>7, <1>8, LoadedFramed DEF BootInv

\* One more process is made.
LEMMA BootNext ==
  ASSUME NEW p \in Proc, BootInv(p - 1)
  PROVE  BootInv(p)
<1>. DEFINE m == Boot[p - 1].task.m
            n == Boot[p].task
            a == Boot[p].aspace
            h == Boot[0].task.virt
<1>1. Boot[p] = NewProcess(m, p) /\ RoomProcess(m, p)
  BY BootSteps, BootAssumption
<1>2. /\ m \in MemRec /\ Framed(m, {}) /\ h \in HPage
      /\ Apart(m.high, BootAspace(p - 1), BootTask(p - 1), {h})
      /\ Stacked(m.ptab, BootParent, BootTask(p - 1), BootStack(p - 1))
      /\ \A q \in Proc : m.ptab[q][0] # NONE /\ \A i \in Video : m.ptab[q][i] # NONE
      /\ \A q \in 1..(p - 1) : /\ Boot[q].aspace \in HPage
                               /\ Boot[q].task.task \in HPage /\ Boot[q].task.stack \in LPage
  BY DEF BootInv
<1>. HIDE DEF m, h
<1>3. /\ Grow(m, n.m, p)
      /\ a \in HPage /\ a + 1 \in HPage /\ m.high[a] = NONE /\ m.high[a + 1] = NONE
      /\ n.m.high[a] # NONE /\ n.m.high[a + 1] # NONE /\ n.m.high[a + 1] = n.m.high[a] + 1
      /\ n.task \in HPage /\ m.high[n.task] = NONE /\ n.m.high[n.task] # NONE
      /\ n.task # a /\ n.task # a + 1
      /\ n.stack \in LPage /\ n.stack + 1 \in LPage
      /\ m.ptab[p][n.stack] = NONE /\ m.ptab[p][n.stack + 1] = NONE
      /\ n.m.ptab[p][n.stack] # NONE /\ n.m.ptab[p][n.stack + 1] # NONE
  <2>1. m \in MemRec /\ RoomProcess(m, p) /\ m.ptab[p][0] # NONE
    BY <1>1, <1>2
  <2>2. a = NewProcess(m, p).aspace /\ n = NewProcess(m, p).task
    BY <1>1
  <2>. HIDE DEF n, a
  <2>. QED BY <2>1, <2>2, NewProcessGrows
<1>. HIDE DEF n, a
<1>4. Keeps(m, n.m, p) /\ n.m \in MemRec
  BY <1>2, <1>3, GrowKeeps DEF Keeps
<1>5. Framed(n.m, {})
  BY <1>2, <1>3, FramedGrows
<1>6. /\ p \in Task /\ p \in Int /\ ~(p =< p - 1) /\ p =< NBoot
      /\ \A q \in Proc : q # p => (q =< p <=> q =< p - 1)
      /\ \A t \in Task : t # p => (t =< p <=> t =< p - 1)
  BY MemoryAssumption DEF Proc, Task
<1>7. /\ BootAspace(p)[p] = a /\ BootAspace(p - 1)[p] = NONE
      /\ \A q \in Proc : q # p => BootAspace(p)[q] = BootAspace(p - 1)[q]
  BY <1>6 DEF BootAspace, a
<1>8. /\ BootTask(p)[p] = n.task /\ BootTask(p - 1)[p] = NONE
      /\ BootStack(p)[p] = n.stack
      /\ \A t \in Task : t # p => /\ BootTask(p)[t] = BootTask(p - 1)[t]
                                  /\ BootStack(p)[t] = BootStack(p - 1)[t]
  BY <1>6 DEF BootTask, BootStack, n
<1>9. Apart(n.m.high, BootAspace(p), BootTask(p), {h})
  <2>1. Apart(n.m.high, BootAspace(p), BootTask(p - 1), {h})
    BY <1>2, <1>3, <1>4, <1>7, ApartAspace DEF Keeps
  <2>2. BootTask(p)[p] \notin {h} /\ \A u \in Task : BootTask(p - 1)[u] # NONE => BootTask(p - 1)[u] # n.task
    BY <1>2, <1>3, <1>8 DEF Apart
  <2>3. ASSUME NEW q \in Proc, BootAspace(p)[q] # NONE
        PROVE  n.task \notin {BootAspace(p)[q], BootAspace(p)[q] + 1}
    <3>1. CASE q = p
      BY <1>3, <1>7, <3>1
    <3>2. CASE q # p
      BY <1>2, <1>3, <1>7, <2>3, <3>2 DEF Apart
    <3>. QED BY <3>1, <3>2
  <2>4. \A u \in Task : BootTask(p)[u] # NONE =>
          BootTask(p)[u] \in HPage \ {h} /\ n.m.high[BootTask(p)[u]] # NONE
    BY <1>3, <1>8, <2>1, <2>2 DEF Apart
  <2>5. \A u, w \in Task : BootTask(p)[u] # NONE /\ BootTask(p)[u] = BootTask(p)[w] => u = w
    BY <1>8, <2>1, <2>2 DEF Apart
  <2>6. \A u \in Task, q \in Proc : BootTask(p)[u] # NONE /\ BootAspace(p)[q] # NONE =>
          BootTask(p)[u] \notin {BootAspace(p)[q], BootAspace(p)[q] + 1}
    BY <1>8, <2>1, <2>3 DEF Apart
  <2>. QED BY <2>1, <2>4, <2>5, <2>6 DEF Apart
<1>10. Stacked(n.m.ptab, BootParent, BootTask(p), BootStack(p))
  <2>1. \A q \in Proc, i \in LPage : m.ptab[q][i] # NONE => n.m.ptab[q][i] = m.ptab[q][i]
    BY <1>4 DEF Keeps
  <2>2. BootParent[p] = p
    BY <1>6 DEF BootParent
  <2>3. PICK i \in LPage : /\ BootStack(p)[p] = i /\ i + 1 \in LPage
                           /\ m.ptab[p][i] = NONE /\ m.ptab[p][i + 1] = NONE
                           /\ n.m.ptab[p][i] # NONE /\ n.m.ptab[p][i + 1] # NONE
    BY <1>3, <1>8
  <2>. QED BY <1>2, <1>6, <1>8, <2>1, <2>2, <2>3, StackedNew
<1>11. ASSUME NEW q \in Proc PROVE n.m.ptab[q][0] # NONE /\ \A i \in Video : n.m.ptab[q][i] # NONE
  <2>1. 0 \in LPage /\ Video \subseteq LPage
    BY MemoryAssumption DEF LPage
  <2>. QED BY <1>2, <1>4, <2>1 DEF Keeps
<1>12. ASSUME NEW q \in 1..p
       PROVE  Boot[q].aspace \in HPage /\ Boot[q].task.task \in HPage /\ Boot[q].task.stack \in LPage
  <2>1. q = p \/ q \in 1..(p - 1)
    BY <1>6
  <2>. QED BY <1>2, <1>3, <2>1 DEF a, n
<1>. QED BY <1>2, <1>4, <1>5, <1>9, <1>10, <1>11, <1>12 DEF BootInv, n, h

\* All processes are made.
LEMMA BootDone == BootInv(NBoot)
<1>. DEFINE T == {n \in 0..NBoot : ~BootInv(n)}
<1>1. T = {}
  <2>. SUFFICES ASSUME T # {} PROVE FALSE
    OBVIOUS
  <2>1. PICK x \in T : \A y \in T : x =< y
    <3>1. T \subseteq Nat
      OBVIOUS
    <3>. HIDE DEF T
    <3>. QED BY <3>1, LeastNumber
  <2>2. x # 0
    BY <2>1, BootFirst
  <2>3. x \in Proc /\ x - 1 \in 0..NBoot /\ ~(x =< x - 1)
    BY <2>1, <2>2, MemoryAssumption DEF Proc
  <2>4. BootInv(x - 1)
    BY <2>1, <2>3
  <2>. QED BY <2>1, <2>3, <2>4, BootNext
<1>. QED BY <1>1, MemoryAssumption

\* The initial state satisfies MemInv, and no frame is shared or lost.
LEMMA InitMemInv ==
  ASSUME Init
  PROVE  MemInv /\ Memory = Boot[NBoot].task.m /\ Framed(Memory, {})
<1>. DEFINE m == Boot[NBoot].task.m
            h == Boot[0].task.virt
<1>1. BootInv(NBoot)
  BY BootDone
<1>2. Memory = m /\ m \in MemRec /\ used = m.used /\ high = m.high /\ ptab = m.ptab
  BY <1>1 DEF Init, Memory, BootInv, MemRec
<1>3. /\ \A p \in Proc : p \in 1..NBoot /\ p =< NBoot /\ Boot[p].aspace \in HPage
      /\ \A t \in Task : t =< NBoot => Boot[t].task.task \in HPage /\ Boot[t].task.stack \in LPage
  BY <1>1 DEF BootInv, Proc, Task
<1>4. /\ aspaceAt = BootAspace(NBoot) /\ taskAt = BootTask(NBoot) /\ stackAt = BootStack(NBoot)
      /\ parent = BootParent
  BY <1>3 DEF Init, BootAspace, BootTask, BootStack, BootParent
<1>5. /\ fresh_chain = <<h, 1>> /\ fresh_count = PerPage /\ free_chain = <<>> /\ inuse = {}
      /\ refcount = [p \in Proc |-> 1] /\ created = NBoot /\ halted = FALSE
      /\ h \in HPage /\ PerPage \in Nat /\ PerPage > 1
  <2>1. h \in HPage
    BY <1>1 DEF BootInv
  <2>2. PerPage \in Nat /\ PerPage > 1
    BY MemoryAssumption
  <2>3. /\ fresh_chain = <<h, 1>> /\ fresh_count = PerPage /\ free_chain = <<>>
        /\ inuse = {}
    BY DEF Init
  <2>4. refcount = [p \in Proc |-> 1] /\ created = NBoot /\ halted = FALSE
    BY DEF Init
  <2>. QED BY <2>1, <2>2, <2>3, <2>4
<1>. HIDE DEF h
<1>6. HeapPages = {h}
  BY <1>5 DEF HeapPages
<1>7. /\ \A p \in Proc : aspaceAt[p] # NONE
      /\ \A t \in Task : IF t =< NBoot THEN taskAt[t] # NONE ELSE taskAt[t] = NONE
  <2>1. NONE \notin HPage
    BY DEF HPage, NONE
  <2>. QED BY <1>3, <1>4, <2>1 DEF BootAspace, BootTask
<1>8. TypeOK
  <2>1. aspaceAt \in [Proc -> HPage \cup {NONE}]
    BY <1>3 DEF Init
  <2>2. taskAt \in [Task -> HPage \cup {NONE}] /\ stackAt \in [Task -> LPage \cup {NONE}]
    BY <1>3 DEF Init
  <2>3. parent \in [Task -> 0..NBoot]
    BY MemoryAssumption DEF Init, Task
  <2>4. refcount \in [Proc -> Nat] /\ created \in NBoot..NTasks
    BY <1>5, MemoryAssumption
  <2>5. used \subseteq Frame /\ high \in [HPage -> Frame \cup {NONE}]
        /\ ptab \in [Proc -> [LPage -> Frame \cup {NONE}]]
    BY <1>2 DEF MemRec
  <2>6. fresh_chain \in HPage \X Nat /\ fresh_count \in 1..PerPage
    BY <1>5
  <2>7. free_chain \in Seq(HPage \X Nat)
    BY <1>5
  <2>8. inuse \subseteq (HPage \X Nat) \X Sizes /\ halted \in BOOLEAN
    BY <1>5
  <2>. QED BY <2>1, <2>2, <2>3, <2>4, <2>5, <2>6, <2>7, <2>8 DEF TypeOK
<1>9. LifeInv
  <2>1. ASSUME NEW p \in Proc PROVE Threads(p) = {p}
    <3>1. p \in Task /\ p =< NBoot /\ p # 0
      BY MemoryAssumption DEF Proc, Task
    <3>2. \A t \in Task : parent[t] = IF t =< NBoot THEN t ELSE 0
      BY DEF Init
    <3>. QED BY <1>7, <3>1, <3>2 DEF Threads
  <2>2. ASSUME NEW p \in Proc PROVE refcount[p] = Cardinality(Threads(p)) /\ refcount[p] > 0
    <3>1. refcount[p] = 1
      BY <1>5
    <3>2. Cardinality({p}) = 1
      BY FS_Singleton
    <3>. QED BY <2>1, <3>1, <3>2
  <2>3. \A t \in Task : IF t =< created THEN parent[t] \in Proc ELSE parent[t] = 0 /\ taskAt[t] = NONE
    BY <1>5, <1>7, MemoryAssumption DEF Init, Task, Proc
  <2>4. \A p \in Proc : ptab[p][0] # NONE /\ \A i \in Video : ptab[p][i] # NONE
    BY <1>1, <1>2 DEF BootInv
  <2>. QED BY <1>7, <2>2, <2>3, <2>4 DEF LifeInv
<1>10. HeapInv
  <2>1. IsFiniteSet(inuse)
    BY <1>5, FS_EmptySet
  <2>2. Len(free_chain) = 0
    BY <1>5
  <2>. QED BY <1>5, <2>1, <2>2 DEF HeapInv
<1>11. /\ Apart(high, aspaceAt, taskAt, HeapPages) /\ Stacked(ptab, parent, taskAt, stackAt)
       /\ Framed(m, {})
  BY <1>1, <1>2, <1>4, <1>6 DEF BootInv, h
<1>. QED BY <1>2, <1>8, <1>9, <1>10, <1>11 DEF MemInv

-----------------------------------------------------------------------------
(* The theorems *)

\* The initial state satisfies SegType.
LEMMA InitSegType ==
  ASSUME ShmInit
  PROVE  SegType
<1>1. \A k \in Key : Segment(k) = {}
  BY DEF ShmInit, Segment
<1>2. mem \in [Key -> Frame \cup {NONE}] /\ LenInPages \in [Key -> Nat]
  BY DEF ShmInit
<1>3. RefCount \in [Key -> Nat] /\ handles \in [Proc -> [Key -> Nat]]
  BY DEF ShmInit
<1>. QED BY <1>1, <1>2, <1>3 DEF SegType

\* MemInv and SegType are invariants.
THEOREM MemAlways == ShmSpec => [](MemInv /\ SegType)
<1>1. ShmInit => MemInv /\ SegType
  BY InitMemInv, InitSegType DEF ShmInit
<1>2. MemInv /\ SegType /\ [ShmNext]_shmVars => (MemInv /\ SegType)'
  BY StepMemInv, StepSegType
<1>. QED BY <1>1, <1>2, PTL DEF ShmSpec

\* The state of the memory manager, the heap, the segments and the handles has
\* its type, whatever memory, tables, programs and size class there are
\* (src/kernel/mem.c, task.c, memory.c, shm.c).
THEOREM MemoryTyped == ShmSpec => [](TypeOK /\ ShmTypeOK)
<1>1. MemInv /\ SegType => TypeOK /\ ShmTypeOK
  BY DEF MemInv, SegType, ShmTypeOK
<1>. QED BY <1>1, MemAlways, PTL

\* MemInv implies StacksSound.
LEMMA StacksFollow == MemInv => StacksSound
<1>. SUFFICES ASSUME MemInv, NEW t \in Task, Alive(t)
              PROVE  /\ {stackAt[t], stackAt[t] + 1} \subseteq Mapped(ptab[parent[t]])
                     /\ \A u \in Task : Alive(u) /\ u # t /\ parent[u] = parent[t] =>
                          stackAt[u] \notin (stackAt[t] - 1)..(stackAt[t] + 1)
  BY DEF StacksSound
<1>1. /\ parent[t] \in Proc /\ stackAt[t] \in LPage /\ stackAt[t] + 1 \in LPage
      /\ ptab[parent[t]][stackAt[t]] # NONE /\ ptab[parent[t]][stackAt[t] + 1] # NONE
      /\ \A u \in Task : taskAt[u] # NONE /\ u # t /\ parent[u] = parent[t] =>
           stackAt[u] \notin (stackAt[t] - 1)..(stackAt[t] + 1)
  BY DEF MemInv, Stacked, Alive
<1>2. DOMAIN ptab[parent[t]] = LPage
  BY <1>1 DEF MemInv, TypeOK
<1>. QED BY <1>1, <1>2 DEF Mapped, Alive

\* The stack of a live thread is mapped and no other thread's (task.c:55-88).
THEOREM StacksAlwaysSound == ShmSpec => []StacksSound
BY StacksFollow, MemAlways, PTL

\* A bijection from a finite set keeps its cardinality.
LEMMA SameSize ==
  ASSUME NEW S, NEW T, NEW g \in [S -> T], IsFiniteSet(S),
         \A a, b \in S : g[a] = g[b] => a = b, \A x \in T : \E a \in S : g[a] = x
  PROVE  Cardinality(T) = Cardinality(S)
<1>1. g \in Bijection(S, T)
  BY DEF Bijection, Injection, Surjection, IsInjective
<1>. QED BY <1>1, FS_Bijection DEF ExistsBijection

\* MemInv implies BlocksSound.
LEMMA BlocksFollow == MemInv => BlocksSound
<1>. SUFFICES ASSUME MemInv PROVE BlocksSound
  OBVIOUS
<1>. DEFINE free == {free_chain[i] : i \in 1..Len(free_chain)}
            fresh == {<<fresh_chain[1], k>> : k \in fresh_chain[2]..PerPage}
            given == {b[1] : b \in inuse}
<1>1. HeapInv /\ free_chain \in Seq(HPage \X Nat) /\ inuse \subseteq (HPage \X Nat) \X Sizes
  BY DEF MemInv, TypeOK
<1>2. given \cup free \subseteq HPage \X (1..PerPage)
  BY <1>1 DEF HeapInv
<1>3. \A b \in inuse : b[2] =< Class[KM]
  BY <1>1 DEF HeapInv
<1>4. Cardinality(given) = Cardinality(inuse)
  <2>. DEFINE g == [b \in inuse |-> b[1]]
  <2>1. g \in [inuse -> given]
    OBVIOUS
  <2>2. \A b, c \in inuse : g[b] = g[c] => b = c
    BY <1>1 DEF HeapInv
  <2>3. \A x \in given : \E b \in inuse : g[b] = x
    OBVIOUS
  <2>4. IsFiniteSet(inuse)
    BY <1>1 DEF HeapInv
  <2>. HIDE DEF g, given
  <2>. QED BY <2>1, <2>2, <2>3, <2>4, SameSize
<1>5. Cardinality(free) = Len(free_chain)
  <2>. DEFINE g == [i \in 1..Len(free_chain) |-> free_chain[i]]
  <2>1. g \in [1..Len(free_chain) -> free]
    OBVIOUS
  <2>2. \A b, c \in 1..Len(free_chain) : g[b] = g[c] => b = c
    BY <1>1 DEF HeapInv
  <2>3. \A x \in free : \E b \in 1..Len(free_chain) : g[b] = x
    OBVIOUS
  <2>4. Len(free_chain) \in Nat
    BY <1>1
  <2>5. IsFiniteSet(1..Len(free_chain)) /\ Cardinality(1..Len(free_chain)) = Len(free_chain)
    <3>1. PICK l \in Nat : l = Len(free_chain)
      BY <2>4
    <3>2. IsFiniteSet(1..l) /\ Cardinality(1..l) = IF 1 > l THEN 0 ELSE l - 1 + 1
      BY FS_Interval
    <3>. QED BY <3>1, <3>2
  <2>. HIDE DEF g, free
  <2>. QED BY <2>1, <2>2, <2>3, <2>5, SameSize
<1>6. given \cap free = {} /\ (given \cup free) \cap fresh = {}
  <2>1. given \cap free = {}
    BY <1>1 DEF HeapInv
  <2>2. ASSUME NEW x \in given \cup free, NEW k \in fresh_chain[2]..PerPage
        PROVE  x # <<fresh_chain[1], k>>
    <3>1. x[1] = fresh_chain[1] => x[2] < fresh_chain[2]
      BY <1>1, <2>2 DEF HeapInv
    <3>2. k >= fresh_chain[2] /\ fresh_chain[2] \in Int
      BY <1>1 DEF HeapInv
    <3>3. x[2] \in Int
      BY <1>2
    <3>. QED BY <3>1, <3>2, <3>3
  <2>. QED BY <2>1, <2>2
<1>7. Cardinality(fresh) = fresh_count
  <2>. DEFINE K == fresh_chain[2]..PerPage
              g == [k \in K |-> <<fresh_chain[1], k>>]
  <2>1. g \in [K -> fresh]
    OBVIOUS
  <2>2. \A b, c \in K : g[b] = g[c] => b = c
    OBVIOUS
  <2>3. \A x \in fresh : \E b \in K : g[b] = x
    OBVIOUS
  <2>4. fresh_chain[2] \in 1..PerPage /\ fresh_count = PerPage - fresh_chain[2] + 1 /\ PerPage \in Nat
    BY <1>1, MemoryAssumption DEF HeapInv
  <2>5. IsFiniteSet(K) /\ Cardinality(K) = fresh_count
    <3>1. PICK a \in 1..PerPage, n \in Nat : a = fresh_chain[2] /\ n = PerPage
      BY <2>4
    <3>2. IsFiniteSet(a..n) /\ Cardinality(a..n) = IF a > n THEN 0 ELSE n - a + 1
      BY FS_Interval
    <3>. QED BY <2>4, <3>1, <3>2
  <2>. HIDE DEF g, fresh, K
  <2>. QED BY <2>1, <2>2, <2>3, <2>5, SameSize
<1>. HIDE DEF given, free, fresh
<1>. QED BY <1>2, <1>3, <1>4, <1>5, <1>6, <1>7 DEF BlocksSound, given, free, fresh

\* The heap never hands out a block twice, nor one too short or outside its page
\* (memory.c:13-170, 216-260).
THEOREM BlocksAlwaysSound == ShmSpec => []BlocksSound
BY BlocksFollow, MemAlways, PTL

-----------------------------------------------------------------------------
(* Sums *)

\* A finite set without one of its elements.
LEMMA SmallerSet ==
  ASSUME NEW S, IsFiniteSet(S), NEW s \in SUBSET S, NEW x \in s
  PROVE  /\ s \ {x} \in SUBSET S /\ Cardinality(s \ {x}) = Cardinality(s) - 1
         /\ Cardinality(s) \in Nat /\ Cardinality(s) - 1 \in Nat
<1>1. IsFiniteSet(s) /\ IsFiniteSet(s \ {x})
  BY FS_Subset
<1>2. Cardinality(s \ {x}) = Cardinality(s) - 1
  BY <1>1, FS_RemoveElement
<1>3. Cardinality(s) \in Nat /\ Cardinality(s \ {x}) \in Nat
  BY <1>1, FS_CardinalityType
<1>. QED BY <1>2, <1>3

\* A step of the fold by which SumFunction is defined.
SumStep(f, it, s) == IF s = {} THEN 0 ELSE LET x == CHOOSE y \in s : TRUE IN f[x] + it[s \ {x}]

\* The recursive function in SumFunction exists.
LEMMA SumSteps ==
  ASSUME NEW S, IsFiniteSet(S), NEW f, DOMAIN f = S
  PROVE  \E it : it = [s \in SUBSET S |-> SumStep(f, it, s)] /\ SumFunction(f) = it[S]
<1>. DEFINE Small(n) == {s \in SUBSET S : Cardinality(s) =< n}
            Upto(n) == \E it : it = [s \in Small(n) |-> SumStep(f, it, s)]
            T == {n \in Nat : ~Upto(n)}
<1>1. ASSUME NEW s \in SUBSET S, s # {}
      PROVE  LET x == CHOOSE y \in s : TRUE IN
             s \ {x} \in SUBSET S /\ Cardinality(s \ {x}) = Cardinality(s) - 1 /\ Cardinality(s) \in Nat
  <2>1. (CHOOSE y \in s : TRUE) \in s
    BY <1>1
  <2>. QED BY <2>1, SmallerSet
<1>2. \A it, jt, s : (s # {} => LET x == CHOOSE y \in s : TRUE IN it[s \ {x}] = jt[s \ {x}])
                     => SumStep(f, it, s) = SumStep(f, jt, s)
  BY DEF SumStep
<1>3. \A s \in SUBSET S : Cardinality(s) \in Nat /\ (Cardinality(s) = 0 <=> s = {})
  BY FS_Subset, FS_CardinalityType, FS_EmptySet
<1>4. T = {}
  <2>. SUFFICES ASSUME T # {} PROVE FALSE
    OBVIOUS
  <2>1. PICK n \in T : \A k \in T : n =< k
    <3>1. T \subseteq Nat
      OBVIOUS
    <3>. HIDE DEF T
    <3>. QED BY <3>1, LeastNumber
  <2>2. CASE n = 0
    <3>. DEFINE it == [s \in Small(n) |-> SumStep(f, <<>>, s)]
    <3>1. \A s \in Small(n) : s = {}
      BY <1>3, <2>2
    <3>2. it = [s \in Small(n) |-> SumStep(f, it, s)]
      BY <1>2, <3>1
    <3>. QED BY <2>1, <3>2
  <2>3. CASE n # 0
    <3>1. n \in Nat /\ n - 1 \in Nat /\ Upto(n - 1)
      <4>. HIDE DEF Upto
      <4>1. n \in Nat /\ n - 1 \in Nat
        BY <2>1, <2>3
      <4>. QED BY <2>1, <4>1
    <3>2. PICK jt : jt = [s \in Small(n - 1) |-> SumStep(f, jt, s)]
      BY <3>1
    <3>. DEFINE it == [s \in Small(n) |-> IF s \in Small(n - 1) THEN jt[s] ELSE SumStep(f, jt, s)]
    <3>3. ASSUME NEW s \in Small(n) PROVE it[s] = SumStep(f, it, s)
      <4>1. s # {} => LET x == CHOOSE y \in s : TRUE IN it[s \ {x}] = jt[s \ {x}]
        <5>1. s # {} => LET x == CHOOSE y \in s : TRUE IN s \ {x} \in Small(n - 1) /\ s \ {x} \in Small(n)
          BY <1>1, <3>1
        <5>. QED BY <5>1
      <4>2. SumStep(f, it, s) = SumStep(f, jt, s)
        <5>. HIDE DEF it
        <5>. QED BY <1>2, <4>1
      <4>3. s \in Small(n - 1) => jt[s] = SumStep(f, jt, s)
        <5>. HIDE DEF Small
        <5>. QED BY <3>2
      <4>. QED BY <4>2, <4>3
    <3>4. it = [s \in Small(n) |-> SumStep(f, it, s)]
      BY <3>3
    <3>. HIDE DEF it
    <3>. QED BY <2>1, <3>4
  <2>. QED BY <2>2, <2>3
<1>5. \E it : it = [s \in SUBSET S |-> SumStep(f, it, s)]
  <2>1. Cardinality(S) \in Nat
    BY FS_CardinalityType
  <2>2. Small(Cardinality(S)) = SUBSET S
    BY <1>3, FS_Subset, <2>1
  <2>3. Upto(Cardinality(S))
    <3>. HIDE DEF Upto
    <3>. QED BY <1>4, <2>1
  <2>. QED BY <2>2, <2>3
<1>6. SumFunction(f) = (CHOOSE it : it = [s \in SUBSET S |-> SumStep(f, it, s)])[S]
  BY DEF SumFunction, SumFunctionOnSet, FoldFunctionOnSet, MapThenFoldSet, SumStep
<1>. QED BY <1>5, <1>6

\* The sum of zeros.
\* A sum of zeros.
LEMMA SumZero ==
  ASSUME NEW S, IsFiniteSet(S)
  PROVE  SumFunction([x \in S |-> 0]) = 0
<1>. DEFINE f == [x \in S |-> 0]
<1>1. PICK it : it = [s \in SUBSET S |-> SumStep(f, it, s)] /\ SumFunction(f) = it[S]
  BY SumSteps
<1>. DEFINE T == {n \in Nat : \E s \in SUBSET S : Cardinality(s) = n /\ it[s] # 0}
<1>2. T = {}
  <2>. SUFFICES ASSUME T # {} PROVE FALSE
    OBVIOUS
  <2>1. PICK n \in T : \A k \in T : n =< k
    <3>1. T \subseteq Nat
      OBVIOUS
    <3>. HIDE DEF T
    <3>. QED BY <3>1, LeastNumber
  <2>2. PICK s \in SUBSET S : Cardinality(s) = n /\ it[s] # 0
    BY <2>1
  <2>. DEFINE x == CHOOSE y \in s : TRUE
  <2>3. s # {} /\ it[s] = f[x] + it[s \ {x}]
    BY <1>1, <2>2 DEF SumStep
  <2>4. x \in s
    BY <2>3
  <2>. HIDE DEF x
  <2>5. s \ {x} \in SUBSET S /\ Cardinality(s \ {x}) = n - 1 /\ n - 1 \in Nat
    BY <2>2, <2>4, SmallerSet
  <2>6. it[s \ {x}] = 0
    BY <2>1, <2>5
  <2>. QED BY <2>2, <2>3, <2>4, <2>6
<1>3. Cardinality(S) \in Nat /\ S \in SUBSET S
  BY FS_CardinalityType
<1>. QED BY <1>1, <1>2, <1>3

\* One number that is greater by one makes the sum greater by one.
LEMMA SumAdd ==
  ASSUME NEW S, IsFiniteSet(S), NEW f \in [S -> Nat], NEW p \in S
  PROVE  SumFunction([f EXCEPT ![p] = @ + 1]) = SumFunction(f) + 1
<1>. DEFINE g == [f EXCEPT ![p] = @ + 1]
            more(s) == IF p \in s THEN 1 ELSE 0
<1>1. PICK it : it = [s \in SUBSET S |-> SumStep(f, it, s)] /\ SumFunction(f) = it[S]
  BY SumSteps
<1>2. PICK jt : jt = [s \in SUBSET S |-> SumStep(g, jt, s)] /\ SumFunction(g) = jt[S]
  BY SumSteps
<1>3. \A x \in S : f[x] \in Nat /\ g[x] = f[x] + IF x = p THEN 1 ELSE 0
  OBVIOUS
<1>. HIDE DEF g
<1>. DEFINE good(s) == it[s] \in Nat /\ jt[s] = it[s] + more(s)
            T == {n \in Nat : \E s \in SUBSET S : Cardinality(s) = n /\ ~good(s)}
<1>4. T = {}
  <2>. SUFFICES ASSUME T # {} PROVE FALSE
    OBVIOUS
  <2>1. PICK n \in T : \A k \in T : n =< k
    <3>1. T \subseteq Nat
      OBVIOUS
    <3>. HIDE DEF T
    <3>. QED BY <3>1, LeastNumber
  <2>2. PICK s \in SUBSET S : Cardinality(s) = n /\ ~good(s)
    BY <2>1
  <2>. DEFINE x == CHOOSE y \in s : TRUE
  <2>3. s # {}
    <3>1. s = {} => it[s] = 0 /\ jt[s] = 0
      BY <1>1, <1>2 DEF SumStep
    <3>. QED BY <2>2, <3>1
  <2>4. it[s] = f[x] + it[s \ {x}] /\ jt[s] = g[x] + jt[s \ {x}] /\ x \in s
    BY <1>1, <1>2, <2>3 DEF SumStep
  <2>. HIDE DEF x
  <2>5. s \ {x} \in SUBSET S /\ Cardinality(s \ {x}) = n - 1 /\ n - 1 \in Nat
    BY <2>2, <2>4, SmallerSet
  <2>6. good(s \ {x})
    <3>. HIDE DEF good
    <3>. QED BY <2>1, <2>5
  <2>7. more(s) = more(s \ {x}) + IF x = p THEN 1 ELSE 0
    BY <2>4
  <2>. QED BY <1>3, <2>2, <2>4, <2>6, <2>7
<1>5. Cardinality(S) \in Nat /\ S \in SUBSET S
  BY FS_CardinalityType
<1>6. good(S)
  <2>. HIDE DEF good
  <2>. QED BY <1>4, <1>5
<1>. QED BY <1>1, <1>2, <1>6 DEF g

-----------------------------------------------------------------------------
(* What is mapped stays *)

\* PsCreateNewTask maps more, or halts the kernel.
LEMMA CreateTaskMemory ==
  ASSUME MemInv, NEW p \in Proc, PsCreateNewTask(p)
  PROVE  Grow(Memory, Memory', p) /\ aspaceAt' = aspaceAt /\ aspaceAt[p] # NONE
<1>1. Memory \in MemRec /\ Memory.ptab = ptab
  BY MemoryType DEF MemInv, Memory
<1>2. aspaceAt[p] # NONE
  BY RunsLives DEF PsCreateNewTask
<1>3. CASE Halt(RoomTask(Memory, p))
  <2>1. Memory' = Memory /\ aspaceAt' = aspaceAt
    BY <1>3 DEF Halt, memVars, taskVars, Memory
  <2>. QED BY <1>1, <1>2, <2>1, GrowSame
<1>4. CASE RoomTask(Memory, p) /\ Update(NewTask(Memory, p).m) /\ aspaceAt' = aspaceAt
  <2>1. PICK n : n = NewTask(Memory, p).m
    OBVIOUS
  <2>2. Grow(Memory, n, p)
    <3>1. Memory.ptab[p][0] # NONE
      BY <1>1, <1>2 DEF MemInv, LifeInv
    <3>. QED BY <1>1, <1>4, <2>1, <3>1, NewTaskGrows
  <2>3. Memory' = n
    <3>1. n \in MemRec
      BY <2>2 DEF Grow
    <3>. QED BY <1>4, <2>1, <3>1 DEF Memory, Update, MemRec
  <2>. QED BY <1>2, <1>4, <2>2, <2>3
<1>. QED BY <1>3, <1>4 DEF PsCreateNewTask

\* kmalloc maps one more page of the kernel's table, or none.
LEMMA KmallocMemory ==
  ASSUME MemInv, NEW n \in Sizes, kmalloc(n), NEW p
  PROVE  Grow(Memory, Memory', p) /\ UNCHANGED taskVars
<1>1. Memory \in MemRec
  BY MemoryType DEF MemInv
<1>2. CASE UNCHANGED memVars
  <2>1. Memory' = Memory
    BY <1>2 DEF memVars, Memory
  <2>2. UNCHANGED taskVars
    BY DEF kmalloc, Halt
  <2>. QED BY <1>1, <2>1, <2>2, GrowSame
<1>3. CASE RoomHigh(Memory, 1) /\ Update(MmAllocPages(Memory, 1).m) /\ UNCHANGED taskVars
  <2>1. PICK o : o = MmAllocPages(Memory, 1).m
    OBVIOUS
  <2>2. Grow(Memory, o, p)
    BY <1>1, <1>3, <2>1, GrowHigh
  <2>3. Memory' = o
    <3>1. o \in MemRec
      BY <2>2 DEF Grow
    <3>. QED BY <1>3, <2>1, <3>1 DEF Memory, Update, MemRec
  <2>. QED BY <1>3, <2>2, <2>3
<1>4. CASE /\ fresh_count > 1 \/ RoomHigh(Memory, 1)
           /\ Update(Shave(Memory).m)
           /\ UNCHANGED taskVars
  <2>1. CASE fresh_count > 1
    <3>1. UNCHANGED memVars
      BY <1>4, <2>1 DEF Shave, Update, Memory, memVars
    <3>. QED BY <1>2, <3>1
  <2>2. CASE ~(fresh_count > 1)
    BY <1>3, <1>4, <2>2 DEF Shave
  <2>. QED BY <2>1, <2>2
<1>. QED BY <1>2, <1>4 DEF kmalloc, Halt

\* What the processes that go on living have mapped stays.
Stays == \A p \in Proc, i \in LPage :
           ptab[p][i] # NONE /\ refcount'[p] > 0 => ptab'[p][i] = ptab[p][i]

\* It does while memory grows.
LEMMA GrowStays ==
  ASSUME MemInv, NEW p, Grow(Memory, Memory', p)
  PROVE  Stays
<1>1. Memory \in MemRec
  BY MemoryType DEF MemInv
<1>2. Keeps(Memory, Memory', p)
  BY <1>1, GrowKeeps
<1>. QED BY <1>2 DEF Keeps, Stays, Memory

\* It does with every step.
LEMMA StepStays ==
  ASSUME MemInv, SegType, [ShmNext]_shmVars
  PROVE  Stays
<1>1. ASSUME NEW p \in Proc, CreateThread(p) PROVE Stays
  <2>1. CASE PsCreateNewTask(p)
    BY <2>1, CreateTaskMemory, GrowStays
  <2>2. CASE Halt(~TableFull(p))
    BY <2>2 DEF Halt, Stays, memVars
  <2>. QED BY <1>1, <2>1, <2>2 DEF CreateThread
<1>2. ASSUME NEW t \in Task, PsCleanUpTask(t) PROVE Stays
  <2>1. PICK p \in Proc : p = parent[t]
    BY <1>2, RunningLives DEF PsCleanUpTask
  <2>2. CASE UNCHANGED memVars
    BY <2>2 DEF memVars, Stays
  <2>3. CASE Ended(p, t)
    <3>1. refcount \in [Proc -> Nat] /\ refcount' = [refcount EXCEPT ![p] = refcount[p] - 1]
      BY <1>2, <2>1 DEF PsCleanUpTask, MemInv, TypeOK
    <3>2. refcount'[p] = 0
      BY <2>3, <3>1 DEF Ended
    <3>. QED BY <2>3, <3>2 DEF Ended, Stays
  <2>. QED BY <1>2, <2>1, <2>2, <2>3, CleanUpShape
<1>3. ASSUME NEW p \in Proc, NEW addr \in Breaks, brk(p, addr) PROVE Stays
  BY <1>3, BrkMemory, GrowStays
<1>4. ASSUME NEW n \in Sizes, kmalloc(n) PROVE Stays
  BY <1>4, KmallocMemory, GrowStays
<1>5. ASSUME NEW b \in inuse, kfree(b) PROVE Stays
  BY <1>5 DEF kfree, memVars, Stays
<1>6. ASSUME NEW p \in Proc, NEW n \in SegLens, SmCreateSeg(p, n) PROVE Stays
  BY <1>6, CreateSegShape DEF SegCreated, memVars, Stays
<1>7. ASSUME NEW p \in Proc, NEW k \in Key, SmAttachSeg(p, k) PROVE Stays
  <2>1. CASE UNCHANGED memVars
    BY <2>1 DEF memVars, Stays
  <2>2. CASE SegAttached(p, k)
    BY <2>2, AttachedKeeps, MemoryType DEF MemInv, Keeps, Stays, Memory
  <2>. QED BY <1>7, <2>1, <2>2, AttachShape
<1>8. ASSUME NEW p \in Proc, NEW k \in Key, SmCloseSeg(p, k) PROVE Stays
  BY <1>8 DEF SmCloseSeg, vars, memVars, Stays
<1>9. CASE UNCHANGED shmVars
  BY <1>9 DEF shmVars, vars, memVars, Stays
<1>. QED BY <1>1, <1>2, <1>3, <1>4, <1>5, <1>6, <1>7, <1>8, <1>9 DEF ShmNext

\* What a living process has mapped stays: brk and PsCreateNewTask, which map pages
\* at a free place first, disturb nothing (mem.c:33-36, task.c:58-59).
THEOREM MappingsAlwaysStay == ShmSpec => MappingsStay
<1>1. MemInv /\ SegType /\ [ShmNext]_shmVars =>
        [\A p \in Proc, i \in LPage :
           ptab[p][i] # NONE /\ refcount'[p] > 0 => ptab'[p][i] = ptab[p][i]]_vars
  BY StepStays DEF Stays
<1>. QED BY <1>1, MemAlways, PTL DEF ShmSpec, MappingsStay

-----------------------------------------------------------------------------
(* The frames of segments *)

\* The segment k of a table of segments: its first frame is M[k] and its length N[k].
Seg(M, N, k) == IF M[k] = NONE THEN {} ELSE M[k]..(M[k] + N[k] - 1)
\* The frames of all segments.
Segs(M, N) == UNION {Seg(M, N, k) : k \in Key}

\* The types of the table.
SegTable(M, N) ==
  /\ M \in [Key -> Frame \cup {NONE}] /\ N \in [Key -> Nat]
  /\ \A k \in Key : Seg(M, N, k) \subseteq Frame

\* The places at which the table t maps the n frames from f.
Starts(t, f, n) == {i \in 0..(NLow - n) : \A j \in 0..(n - 1) : t[i + j] = f + j}

\* The entries that map the frame f.
Mappings(m, f) == {x \in Entries : Mine(x) /\ Val(m, x) = f}

\* Segments do not overlap, and no one has a handle on an entry that is free.
SegInv(m, H, M, N) ==
  /\ \A k \in Key : Seg(M, N, k) \subseteq m.used \ Reserved
  /\ \A k, l \in Key : Seg(M, N, k) \cap Seg(M, N, l) # {} => k = l
  /\ \A k \in Key, p \in Proc : M[k] = NONE => H[p][k] = 0

\* With the handles H and the living processes L: a process maps a segment as
\* often as it has handles on it, and none of a segment's pages elsewhere.
MapInv(m, H, L, M, N) ==
  /\ \A p \in L, k \in Key : M[k] # NONE /\ N[k] > 0 =>
       Cardinality(Starts(m.ptab[p], M[k], N[k])) = H[p][k]
  /\ \A p \in Proc, k \in Key, i \in LPage \ Video : m.ptab[p][i] \in Seg(M, N, k) =>
       i - (m.ptab[p][i] - M[k]) \in Starts(m.ptab[p], M[k], N[k])
  /\ \A k \in Key : \A f \in Seg(M, N, k) :
       Cardinality(Mappings(m, f)) = SumFunction([p \in Proc |-> H[p][k]])

\* Every frame is accounted for: the process's own, the kernel's and the segments'.
Sharing(m, H, L, M, N) ==
  Framed(m, Segs(M, N)) /\ SegInv(m, H, M, N) /\ MapInv(m, H, L, M, N)

\* The invariant about frames, while no process that had a segment has ended.
FrameInv == Intact => Sharing(Memory, handles, Living, mem, LenInPages)

\* The frames of a segment are numbers, in a row.
LEMMA SegFacts ==
  ASSUME NEW M, NEW N, SegTable(M, N), NEW k \in Key
  PROVE  /\ N[k] \in Nat /\ (M[k] # NONE => M[k] \in Nat)
         /\ \A j \in 0..(N[k] - 1) : M[k] # NONE => M[k] + j \in Seg(M, N, k)
         /\ \A f \in Seg(M, N, k) : /\ M[k] # NONE /\ N[k] > 0 /\ f \in Nat /\ f # NONE
                                    /\ f - M[k] \in 0..(N[k] - 1)
<1>1. N[k] \in Nat /\ M[k] \in Frame \cup {NONE} /\ (M[k] # NONE => M[k] \in Nat)
  BY DEF SegTable, Frame
<1>2. \A j \in 0..(N[k] - 1) : M[k] # NONE => M[k] + j \in Seg(M, N, k)
  BY <1>1 DEF Seg
<1>3. \A f \in Seg(M, N, k) : M[k] # NONE /\ N[k] > 0 /\ f \in Nat /\ f # NONE /\ f - M[k] \in 0..(N[k] - 1)
  BY <1>1 DEF Seg, NONE
<1>. QED BY <1>1, <1>2, <1>3

\* The places of a segment depend only on where its frames are mapped.
LEMMA StartsSame ==
  ASSUME NEW M, NEW N, SegTable(M, N), NEW k \in Key, M[k] # NONE, N[k] > 0, NEW t, NEW u,
         \A i \in LPage, f \in Seg(M, N, k) : t[i] = f <=> u[i] = f
  PROVE  Starts(t, M[k], N[k]) = Starts(u, M[k], N[k])
<1>1. /\ N[k] \in Nat /\ M[k] \in Nat /\ NLow \in Nat
      /\ \A j \in 0..(N[k] - 1) : M[k] + j \in Seg(M, N, k)
  BY SegFacts, MemoryAssumption
<1>2. ASSUME NEW i \in 0..(NLow - N[k]), NEW j \in 0..(N[k] - 1)
      PROVE  t[i + j] = M[k] + j <=> u[i + j] = M[k] + j
  <2>1. i + j \in LPage
    BY <1>1 DEF LPage
  <2>. QED BY <1>1, <2>1
<1>. QED BY <1>2 DEF Starts

\* MapInv depends only on where segments' frames are mapped.
LEMMA MapSame ==
  ASSUME NEW M, NEW N, SegTable(M, N), NEW m, NEW n, NEW H, NEW L, NEW K,
         L \subseteq Proc, K \subseteq L, MapInv(m, H, L, M, N),
         \A x \in Entries, f \in Segs(M, N) : Mine(x) => (Val(m, x) = f <=> Val(n, x) = f),
         \A q \in Proc :
           \/ \A i \in LPage, f \in Segs(M, N) : m.ptab[q][i] = f <=> n.ptab[q][i] = f
           \/ q \notin K /\ \A i \in LPage : n.ptab[q][i] = NONE
  PROVE  MapInv(n, H, K, M, N)
<1>1. \A k \in Key : Seg(M, N, k) \subseteq Segs(M, N)
  BY DEF Segs
<1>2. ASSUME NEW q \in Proc, NEW k \in Key, M[k] # NONE, N[k] > 0,
             ~(q \notin K /\ \A i \in LPage : n.ptab[q][i] = NONE)
      PROVE  Starts(n.ptab[q], M[k], N[k]) = Starts(m.ptab[q], M[k], N[k])
  <2>1. \A i \in LPage, f \in Seg(M, N, k) : m.ptab[q][i] = f <=> n.ptab[q][i] = f
    BY <1>1, <1>2
  <2>. QED BY <1>2, <2>1, StartsSame
<1>3. ASSUME NEW p \in K, NEW k \in Key, M[k] # NONE, N[k] > 0
      PROVE  Cardinality(Starts(n.ptab[p], M[k], N[k])) = H[p][k]
  <2>1. Starts(n.ptab[p], M[k], N[k]) = Starts(m.ptab[p], M[k], N[k])
    BY <1>2, <1>3
  <2>. QED BY <1>3, <2>1 DEF MapInv
<1>4. ASSUME NEW p \in Proc, NEW k \in Key, NEW i \in LPage \ Video, n.ptab[p][i] \in Seg(M, N, k)
      PROVE  i - (n.ptab[p][i] - M[k]) \in Starts(n.ptab[p], M[k], N[k])
  <2>1. n.ptab[p][i] # NONE /\ M[k] # NONE /\ N[k] > 0
    BY <1>4, SegFacts
  <2>2. Starts(n.ptab[p], M[k], N[k]) = Starts(m.ptab[p], M[k], N[k])
    BY <1>2, <2>1
  <2>3. m.ptab[p][i] = n.ptab[p][i]
    BY <1>1, <1>4, <2>1
  <2>. QED BY <1>4, <2>2, <2>3 DEF MapInv
<1>5. ASSUME NEW k \in Key, NEW f \in Seg(M, N, k)
      PROVE  Cardinality(Mappings(n, f)) = SumFunction([p \in Proc |-> H[p][k]])
  <2>1. Mappings(n, f) = Mappings(m, f)
    BY <1>1 DEF Mappings
  <2>. QED BY <2>1 DEF MapInv
<1>. QED BY <1>3, <1>4, <1>5 DEF MapInv

\* Sharing is kept when memory grows.
LEMMA GrowSharing ==
  ASSUME NEW M, NEW N, SegTable(M, N), NEW m \in MemRec, NEW n, NEW p, NEW H, NEW L, L \subseteq Proc,
         Sharing(m, H, L, M, N), Grow(m, n, p), p \in Proc => \A i \in Video : m.ptab[p][i] # NONE
  PROVE  Sharing(n, H, L, M, N)
<1>1. Segs(M, N) \subseteq m.used /\ \A f \in Segs(M, N) : f # NONE
  BY SegFacts DEF Sharing, SegInv, Segs
<1>2. Framed(n, Segs(M, N))
  BY <1>1, FramedGrows DEF Sharing
<1>3. SegInv(n, H, M, N)
  BY DEF Sharing, SegInv, Grow
<1>4. ASSUME NEW x \in Entries, NEW f \in Segs(M, N) PROVE Val(m, x) = f <=> Val(n, x) = f
  <2>1. Val(n, x) = Val(m, x) \/ (Val(m, x) = NONE /\ Val(n, x) \notin m.used)
    BY DEF Grow, New
  <2>. QED BY <1>1, <2>1
<1>5. ASSUME NEW q \in Proc, NEW i \in LPage, NEW f \in Segs(M, N)
      PROVE  m.ptab[q][i] = f <=> n.ptab[q][i] = f
  <2>1. <<q, i>> \in Entries /\ q # 0
    BY DEF Entries, Proc
  <2>. QED BY <1>4, <2>1 DEF Val
<1>6. MapInv(n, H, L, M, N)
  BY <1>4, <1>5, MapSame DEF Sharing
<1>. QED BY <1>2, <1>3, <1>6 DEF Sharing

\* There are finitely many processes and entries.
LEMMA ProcFinite == IsFiniteSet(Proc) /\ IsFiniteSet(Entries)
<1>1. IsFiniteSet(Proc) /\ IsFiniteSet(LPage) /\ IsFiniteSet(HPage)
  BY FS_Interval, MemoryAssumption DEF Proc, LPage, HPage
<1>2. IsFiniteSet({0})
  BY FS_Singleton
<1>3. IsFiniteSet({0} \X HPage) /\ IsFiniteSet(Proc \X LPage)
  BY <1>1, <1>2, FS_Product
<1>. QED BY <1>1, <1>3, FS_Union DEF Entries

\* A segment is made: nobody maps it.
LEMMA CreateSharing ==
  ASSUME NEW M, NEW N, SegTable(M, N), NEW O, NEW Q, SegTable(O, Q),
         NEW m \in MemRec, NEW n, NEW H, NEW L, L \subseteq Proc, Sharing(m, H, L, M, N),
         NEW c \in Key, M[c] = NONE, NEW l \in Nat, NEW f \in Nat, NEW g \in Frame \cup {NONE}, l > 0 => g = f,
         f..(f + l - 1) \subseteq Frame \ m.used,
         n.used = m.used \cup f..(f + l - 1), n.high = m.high, n.ptab = m.ptab,
         O = [M EXCEPT ![c] = g], Q = [N EXCEPT ![c] = l]
  PROVE  Sharing(n, H, L, O, Q)
<1>1. /\ O[c] = g /\ Q[c] = l /\ \A k \in Key : k # c => O[k] = M[k] /\ Q[k] = N[k]
  BY DEF SegTable
<1>2. /\ \A k \in Key : k # c => Seg(O, Q, k) = Seg(M, N, k)
      /\ Seg(O, Q, c) = f..(f + l - 1) /\ Seg(M, N, c) = {}
  <2>1. \A k \in Key : k # c => Seg(O, Q, k) = Seg(M, N, k)
    BY <1>1 DEF Seg
  <2>2. Seg(O, Q, c) = f..(f + l - 1)
    <3>1. CASE l > 0
      <4>1. g = f /\ g # NONE
        BY <3>1 DEF NONE
      <4>. QED BY <1>1, <4>1 DEF Seg
    <3>2. CASE l = 0
      <4>1. g \in Int
        BY DEF Frame, NONE
      <4>. QED BY <1>1, <3>2, <4>1 DEF Seg
    <3>. QED BY <3>1, <3>2
  <2>. QED BY <2>1, <2>2 DEF Seg
<1>3. Segs(O, Q) = Segs(M, N) \cup f..(f + l - 1)
  BY <1>2 DEF Segs
<1>4. ASSUME NEW x \in Entries PROVE Val(n, x) = Val(m, x) /\ Val(m, x) \notin f..(f + l - 1)
  <2>1. Val(n, x) = Val(m, x)
    BY DEF Val
  <2>2. Val(m, x) \in m.used \cup {NONE}
    BY DEF Sharing, Framed
  <2>3. NONE \notin f..(f + l - 1)
    BY DEF NONE
  <2>. QED BY <2>1, <2>2, <2>3
<1>5. Framed(n, Segs(O, Q))
  <2>1. Framed(m, Segs(M, N))
    BY DEF Sharing
  <2>2. ASSUME NEW x \in Entries, NEW y \in Entries, Mine(x), Mine(y),
               Val(n, x) # NONE, Val(n, x) = Val(n, y), Val(n, x) \notin Segs(O, Q)
        PROVE  x = y
    <3>1. Val(m, x) # NONE /\ Val(m, x) = Val(m, y) /\ Val(m, x) \notin Segs(M, N)
      BY <1>3, <1>4, <2>2
    <3>. QED BY <2>1, <2>2, <3>1 DEF Framed
  <2>3. \A h \in n.used \ (Reserved \cup Segs(O, Q)) : \E x \in Entries : Mine(x) /\ Val(n, x) = h
    BY <1>3, <1>4, <2>1 DEF Framed
  <2>4. ASSUME NEW x \in Entries
        PROVE  /\ Mine(x) /\ Val(n, x) # NONE => Val(n, x) \in n.used \ Reserved
               /\ ~Mine(x) => Val(n, x) \in Reserved \cup {NONE}
               /\ x[1] = 0 => Val(n, x) \notin Segs(O, Q)
    BY <1>3, <1>4, <2>1 DEF Framed
  <2>5. Reserved \subseteq n.used
    BY <2>1 DEF Framed
  <2>. QED BY <2>2, <2>3, <2>4, <2>5 DEF Framed
<1>6. SegInv(n, H, O, Q)
  <2>1. SegInv(m, H, M, N) /\ Reserved \subseteq m.used
    BY DEF Sharing, Framed
  <2>2. \A k \in Key : Seg(O, Q, k) \subseteq n.used \ Reserved
    BY <1>2, <2>1 DEF SegInv
  <2>3. \A k, j \in Key : Seg(O, Q, k) \cap Seg(O, Q, j) # {} => k = j
    BY <1>2, <2>1 DEF SegInv
  <2>4. \A k \in Key, p \in Proc : O[k] = NONE => H[p][k] = 0
    BY <1>1, <2>1 DEF SegInv
  <2>. QED BY <2>2, <2>3, <2>4 DEF SegInv
<1>7. ASSUME NEW p \in Proc, NEW i \in LPage PROVE n.ptab[p][i] \notin f..(f + l - 1)
  <2>1. <<p, i>> \in Entries /\ p # 0
    BY DEF Entries, Proc
  <2>. QED BY <1>4, <2>1 DEF Val
<1>8. ASSUME NEW p \in L, NEW k \in Key, O[k] # NONE, Q[k] > 0
      PROVE  Cardinality(Starts(n.ptab[p], O[k], Q[k])) = H[p][k]
  <2>1. CASE k # c
    BY <1>1, <1>8, <2>1 DEF Sharing, MapInv
  <2>2. CASE k = c
    <3>1. O[k] = f /\ Q[k] = l /\ l > 0
      BY <1>1, <1>8, <2>2
    <3>2. ASSUME NEW i \in Starts(n.ptab[p], f, l) PROVE FALSE
      <4>1. i \in 0..(NLow - l) /\ 0 \in 0..(l - 1) /\ n.ptab[p][i + 0] = f + 0
        BY <3>1 DEF Starts
      <4>2. i \in LPage /\ i + 0 = i /\ f + 0 = f /\ f \in f..(f + l - 1)
        BY <3>1, <4>1, MemoryAssumption DEF LPage
      <4>. QED BY <1>7, <4>1, <4>2
    <3>3. H[p][c] = 0
      BY DEF Sharing, SegInv
    <3>4. Starts(n.ptab[p], f, l) = {}
      BY <3>2
    <3>. QED BY <2>2, <3>1, <3>3, <3>4, FS_EmptySet
  <2>. QED BY <2>1, <2>2
<1>9. ASSUME NEW p \in Proc, NEW k \in Key, NEW i \in LPage \ Video, n.ptab[p][i] \in Seg(O, Q, k)
      PROVE  i - (n.ptab[p][i] - O[k]) \in Starts(n.ptab[p], O[k], Q[k])
  <2>1. k # c
    BY <1>2, <1>7, <1>9
  <2>. QED BY <1>1, <1>2, <1>9, <2>1 DEF Sharing, MapInv
<1>10. ASSUME NEW k \in Key, NEW h \in Seg(O, Q, k)
       PROVE  Cardinality(Mappings(n, h)) = SumFunction([p \in Proc |-> H[p][k]])
  <2>1. Mappings(n, h) = Mappings(m, h)
    BY <1>4 DEF Mappings
  <2>2. CASE k # c
    BY <1>2, <2>1, <2>2 DEF Sharing, MapInv
  <2>3. CASE k = c
    <3>1. Mappings(m, h) = {}
      BY <1>2, <1>4, <2>3 DEF Mappings
    <3>2. [p \in Proc |-> H[p][k]] = [p \in Proc |-> 0]
      BY <2>3 DEF Sharing, SegInv
    <3>3. SumFunction([p \in Proc |-> 0]) = 0
      BY ProcFinite, SumZero
    <3>. QED BY <2>1, <3>1, <3>2, <3>3, FS_EmptySet
  <2>. QED BY <2>2, <2>3
<1>11. MapInv(n, H, L, O, Q)
  BY <1>8, <1>9, <1>10 DEF MapInv
<1>. QED BY <1>5, <1>6, <1>11 DEF Sharing

\* Equal frames of a segment have equal places in it.
LEMMA SameOffset ==
  ASSUME NEW a \in Int, NEW b \in Int, NEW f \in Int, NEW v \in Int, f + (a - v) = f + (b - v)
  PROVE  a = b
OBVIOUS

\* The n frames from f are mapped at v, v+1, ..., where the table of p was free.
MappedAt(m, o, p, v, f, n) ==
  /\ o.used = m.used /\ o.high = m.high
  /\ v..(v + n - 1) \subseteq LPage \ Mapped(m.ptab[p])
  /\ \A q \in Proc, i \in LPage :
       o.ptab[q][i] = IF q = p /\ i \in v..(v + n - 1) THEN f + (i - v) ELSE m.ptab[q][i]

\* A segment is mapped once more, at entries that were free.
LEMMA AttachSharing ==
  ASSUME NEW M, NEW N, SegTable(M, N), NEW m \in MemRec, NEW H, NEW L, L \subseteq Proc,
         H \in [Proc -> [Key -> Nat]], Sharing(m, H, L, M, N), NEW p \in L, NEW k \in Key, M[k] # NONE,
         \A i \in Video : m.ptab[p][i] # NONE,
         NEW v \in Nat, NEW o, MappedAt(m, o, p, v, M[k], N[k]),
         NEW G, \A q \in Proc, c \in Key : G[q][c] = IF q = p /\ c = k THEN H[q][c] + 1 ELSE H[q][c]
  PROVE  Sharing(o, G, L, M, N)
<1>. DEFINE f == M[k]
            l == N[k]
            R == v..(v + l - 1)
<1>1. /\ p \in Proc /\ p # 0 /\ f \in Nat /\ l \in Nat
      /\ \A j \in 0..(l - 1) : f + j \in Seg(M, N, k)
      /\ Segs(M, N) \subseteq m.used \ Reserved /\ NONE \notin Segs(M, N)
      /\ \A c \in Key : Seg(M, N, c) \subseteq Segs(M, N)
  <2>1. p \in Proc /\ p # 0
    <3>1. p \in Proc
      OBVIOUS
    <3>. QED BY <3>1 DEF Proc
  <2>2. f \in Nat /\ l \in Nat /\ \A j \in 0..(l - 1) : f + j \in Seg(M, N, k)
    BY SegFacts
  <2>3. Segs(M, N) \subseteq m.used \ Reserved /\ NONE \notin Segs(M, N)
    BY SegFacts DEF Segs, Sharing, SegInv
  <2>. QED BY <2>1, <2>2, <2>3 DEF Segs
<1>2. /\ o.used = m.used /\ o.high = m.high
      /\ m.ptab \in [Proc -> [LPage -> Frame \cup {NONE}]]
      /\ \A q \in Proc, i \in LPage :
           o.ptab[q][i] = IF q = p /\ i \in R THEN f + (i - v) ELSE m.ptab[q][i]
  BY DEF MemRec, MappedAt
<1>3. \A i \in R : i \in LPage /\ m.ptab[p][i] = NONE /\ i \notin Video /\ i - v \in 0..(l - 1)
                   /\ f + (i - v) \in Seg(M, N, k)
  <2>1. DOMAIN m.ptab[p] = LPage /\ R \subseteq LPage \ Mapped(m.ptab[p])
    BY <1>1, <1>2 DEF MappedAt
  <2>2. \A i \in R : i - v \in 0..(l - 1)
    BY <1>1
  <2>. HIDE DEF f, l
  <2>. QED BY <1>1, <2>1, <2>2 DEF Mapped, f, l
<1>. HIDE DEF f, l, R
<1>4. ASSUME NEW x \in Entries
      PROVE  \/ Val(o, x) = Val(m, x)
             \/ /\ x[1] = p /\ x[2] \in R /\ Mine(x)
                /\ Val(m, x) = NONE /\ Val(o, x) = f + (x[2] - v) /\ Val(o, x) \in Seg(M, N, k)
  <2>1. x[1] = 0 \/ (x[1] # 0 /\ x[1] \in Proc /\ x[2] \in LPage)
    BY DEF Entries, Proc
  <2>. QED BY <1>1, <1>2, <1>3, <2>1 DEF Val, Mine
<1>5. Framed(o, Segs(M, N))
  <2>1. Framed(m, Segs(M, N))
    BY DEF Sharing
  <2>2. ASSUME NEW x \in Entries, NEW y \in Entries, Mine(x), Mine(y),
               Val(o, x) # NONE, Val(o, x) = Val(o, y), Val(o, x) \notin Segs(M, N)
        PROVE  x = y
    <3>1. Val(o, x) = Val(m, x) /\ Val(o, y) = Val(m, y)
      BY <1>1, <1>4, <2>2
    <3>. QED BY <2>1, <2>2, <3>1 DEF Framed
  <2>3. ASSUME NEW h \in o.used \ (Reserved \cup Segs(M, N))
        PROVE  \E x \in Entries : Mine(x) /\ Val(o, x) = h
    <3>1. PICK x \in Entries : Mine(x) /\ Val(m, x) = h
      BY <1>2, <2>1 DEF Framed
    <3>2. h # NONE
      BY <1>2 DEF MemRec, Frame, NONE
    <3>. QED BY <1>4, <3>1, <3>2
  <2>4. ASSUME NEW x \in Entries
        PROVE  /\ Mine(x) /\ Val(o, x) # NONE => Val(o, x) \in o.used \ Reserved
               /\ ~Mine(x) => Val(o, x) \in Reserved \cup {NONE}
               /\ x[1] = 0 => Val(o, x) \notin Segs(M, N)
    BY <1>1, <1>2, <1>4, <2>1 DEF Framed
  <2>5. Reserved \subseteq o.used
    BY <1>2, <2>1 DEF Framed
  <2>. QED BY <2>2, <2>3, <2>4, <2>5 DEF Framed
<1>6. \A q \in Proc, c \in Key : G[q][c] = IF q = p /\ c = k THEN H[q][c] + 1 ELSE H[q][c]
  OBVIOUS
<1>7. SegInv(o, G, M, N)
  <2>1. SegInv(m, H, M, N)
    BY DEF Sharing
  <2>2. \A c \in Key, q \in Proc : M[c] = NONE => G[q][c] = 0
    BY <1>6, <2>1 DEF SegInv, f
  <2>. QED BY <1>2, <2>1, <2>2 DEF SegInv
<1>8. ASSUME NEW q \in Proc, NEW c \in Key, q # p \/ c # k, NEW i \in LPage, NEW h \in Seg(M, N, c)
      PROVE  m.ptab[q][i] = h <=> o.ptab[q][i] = h
  <2>1. CASE q = p /\ i \in R
    <3>1. m.ptab[q][i] = NONE /\ o.ptab[q][i] \in Seg(M, N, k) /\ c # k
      BY <1>2, <1>3, <1>8, <2>1
    <3>2. Seg(M, N, c) \cap Seg(M, N, k) = {}
      BY <3>1 DEF Sharing, SegInv
    <3>. QED BY <1>1, <3>1, <3>2
  <2>2. CASE ~(q = p /\ i \in R)
    BY <1>2, <2>2
  <2>. QED BY <2>1, <2>2
<1>9. ASSUME NEW q \in Proc, NEW c \in Key, M[c] # NONE, N[c] > 0, q # p \/ c # k
      PROVE  Starts(o.ptab[q], M[c], N[c]) = Starts(m.ptab[q], M[c], N[c])
  <2>1. \A i \in LPage, h \in Seg(M, N, c) : o.ptab[q][i] = h <=> m.ptab[q][i] = h
    BY <1>8, <1>9
  <2>2. PICK t, u : t = o.ptab[q] /\ u = m.ptab[q]
    OBVIOUS
  <2>3. \A i \in LPage, h \in Seg(M, N, c) : t[i] = h <=> u[i] = h
    BY <2>1, <2>2
  <2>4. Starts(t, M[c], N[c]) = Starts(u, M[c], N[c])
    BY <1>9, <2>3, StartsSame
  <2>. QED BY <2>2, <2>4
<1>10. ASSUME l > 0
       PROVE  /\ Starts(o.ptab[p], f, l) = Starts(m.ptab[p], f, l) \cup {v}
              /\ v \notin Starts(m.ptab[p], f, l)
  <2>1. v \in R /\ v + (l - 1) \in R /\ \A i \in R : m.ptab[p][i] # f
    <3>1. f # NONE /\ v \in R /\ v + (l - 1) \in R
      BY <1>1, <1>10 DEF NONE, R
    <3>. QED BY <1>3, <3>1
  <2>2. v \in 0..(NLow - l) /\ NLow \in Nat
    BY <1>1, <1>3, <1>10, <2>1, MemoryAssumption DEF LPage
  <2>3. \A i \in 0..(NLow - l), j \in 0..(l - 1) : i + j \in LPage /\ 0 \in 0..(l - 1) /\ i + 0 = i /\ f + 0 = f
    BY <1>1, <1>10, <2>2 DEF LPage
  <2>4. ASSUME NEW i \in 0..(NLow - l), i # v
        PROVE  i \in Starts(o.ptab[p], f, l) <=> i \in Starts(m.ptab[p], f, l)
    <3>1. ASSUME NEW j \in 0..(l - 1), i + j \in R PROVE o.ptab[p][i + j] # f + j
      <4>1. o.ptab[p][i + j] = f + ((i + j) - v)
        BY <1>1, <1>2, <2>3, <3>1
      <4>. QED BY <1>1, <2>4, <4>1
    <3>2. ASSUME NEW j \in 0..(l - 1), i + j \in R PROVE m.ptab[p][i + j] # f + j
      <4>1. m.ptab[p][i + j] = NONE /\ f + j # NONE
        BY <1>1, <1>3, <3>2 DEF NONE
      <4>. QED BY <4>1
    <3>3. ASSUME NEW j \in 0..(l - 1) PROVE o.ptab[p][i + j] = f + j <=> m.ptab[p][i + j] = f + j
      <4>1. i + j \notin R => o.ptab[p][i + j] = m.ptab[p][i + j]
        BY <1>1, <1>2, <2>3
      <4>. QED BY <3>1, <3>2, <4>1
    <3>. QED BY <3>3 DEF Starts
  <2>5. v \in Starts(o.ptab[p], f, l)
    <3>1. ASSUME NEW j \in 0..(l - 1) PROVE o.ptab[p][v + j] = f + j
      <4>1. v + j \in R /\ (v + j) - v = j
        BY <1>1 DEF R
      <4>2. v + j \in LPage
        BY <2>2, <2>3
      <4>. QED BY <1>1, <1>2, <4>1, <4>2
    <3>. QED BY <2>2, <3>1 DEF Starts
  <2>6. v \notin Starts(m.ptab[p], f, l)
    <3>1. 0 \in 0..(l - 1) /\ v + 0 = v /\ f + 0 = f
      BY <1>1, <1>10
    <3>2. v \in Starts(m.ptab[p], f, l) => m.ptab[p][v + 0] = f + 0
      BY <3>1 DEF Starts
    <3>. QED BY <2>1, <3>1, <3>2
  <2>7. Starts(o.ptab[p], f, l) \subseteq 0..(NLow - l) /\ Starts(m.ptab[p], f, l) \subseteq 0..(NLow - l)
    BY DEF Starts
  <2>. QED BY <2>4, <2>5, <2>6, <2>7
<1>11. ASSUME NEW q \in L, NEW c \in Key, M[c] # NONE, N[c] > 0
       PROVE  Cardinality(Starts(o.ptab[q], M[c], N[c])) = G[q][c]
  <2>1. Cardinality(Starts(m.ptab[q], M[c], N[c])) = H[q][c]
    BY <1>11 DEF Sharing, MapInv
  <2>2. CASE q # p \/ c # k
    BY <1>6, <1>9, <1>11, <2>1, <2>2
  <2>3. CASE q = p /\ c = k
    <3>1. M[c] = f /\ N[c] = l /\ l > 0
      BY <1>11, <2>3 DEF f, l
    <3>2. IsFiniteSet(Starts(m.ptab[p], f, l))
      <4>1. IsFiniteSet(0..(NLow - l))
        BY <1>1, FS_Interval, MemoryAssumption
      <4>2. Starts(m.ptab[p], f, l) \subseteq 0..(NLow - l)
        BY DEF Starts
      <4>. QED BY <4>1, <4>2, FS_Subset
    <3>3. Cardinality(Starts(o.ptab[p], f, l)) = Cardinality(Starts(m.ptab[p], f, l)) + 1
      BY <1>10, <3>1, <3>2, FS_AddElement
    <3>. QED BY <1>6, <2>1, <2>3, <3>1, <3>3
  <2>. QED BY <2>2, <2>3
<1>12. ASSUME NEW q \in Proc, NEW c \in Key, NEW i \in LPage \ Video, o.ptab[q][i] \in Seg(M, N, c)
       PROVE  i - (o.ptab[q][i] - M[c]) \in Starts(o.ptab[q], M[c], N[c])
  <2>1. M[c] # NONE /\ N[c] > 0
    BY <1>12, SegFacts
  <2>2. CASE q # p \/ c # k
    <3>1. m.ptab[q][i] = o.ptab[q][i]
      BY <1>8, <1>12, <2>2
    <3>2. i - (m.ptab[q][i] - M[c]) \in Starts(m.ptab[q], M[c], N[c])
      BY <1>12, <3>1 DEF Sharing, MapInv
    <3>. QED BY <1>9, <2>1, <2>2, <3>1, <3>2
  <2>3. CASE q = p /\ c = k /\ i \in R
    <3>1. o.ptab[p][i] = f + (i - v) /\ l > 0 /\ i \in Int
      BY <1>1, <1>2, <2>1, <2>3 DEF l, LPage
    <3>2. i - (o.ptab[p][i] - f) = v
      BY <1>1, <3>1
    <3>. QED BY <1>10, <2>3, <3>1, <3>2 DEF f, l
  <2>4. CASE q = p /\ c = k /\ i \notin R
    <3>1. m.ptab[q][i] = o.ptab[q][i] /\ l > 0
      BY <1>2, <2>1, <2>4 DEF l
    <3>2. i - (m.ptab[q][i] - M[c]) \in Starts(m.ptab[q], M[c], N[c])
      BY <1>12, <3>1 DEF Sharing, MapInv
    <3>. QED BY <1>10, <2>4, <3>1, <3>2 DEF f, l
  <2>. QED BY <2>2, <2>3, <2>4
<1>13. ASSUME NEW c \in Key, NEW h \in Seg(M, N, c)
       PROVE  Cardinality(Mappings(o, h)) = SumFunction([q \in Proc |-> G[q][c]])
  <2>1. Cardinality(Mappings(m, h)) = SumFunction([q \in Proc |-> H[q][c]])
    BY DEF Sharing, MapInv
  <2>2. CASE c # k
    <3>1. Seg(M, N, c) \cap Seg(M, N, k) = {} /\ h # NONE
      BY <1>1, <2>2 DEF Sharing, SegInv
    <3>2. \A x \in Entries : Val(o, x) = h <=> Val(m, x) = h
      BY <1>4, <3>1
    <3>3. Mappings(o, h) = Mappings(m, h)
      BY <3>2 DEF Mappings
    <3>4. [q \in Proc |-> G[q][c]] = [q \in Proc |-> H[q][c]]
      BY <1>6, <2>2
    <3>. QED BY <2>1, <3>3, <3>4
  <2>3. CASE c = k
    <3>. DEFINE i == v + (h - f)
                e == <<p, i>>
    <3>1. h - f \in 0..(l - 1) /\ h \in Nat /\ h # NONE
      BY <2>3, SegFacts DEF f, l
    <3>2. i \in R /\ i - v = h - f /\ f + (i - v) = h
      BY <1>1, <3>1 DEF R
    <3>. HIDE DEF i
    <3>3. e \in Entries /\ e[1] = p /\ e[2] = i /\ Mine(e)
      BY <1>1, <1>3, <3>2 DEF Entries, Mine
    <3>4. Val(o, e) = h /\ Val(m, e) = NONE
      BY <1>1, <1>2, <1>3, <3>2, <3>3 DEF Val
    <3>. HIDE DEF e
    <3>5. ASSUME NEW x \in Entries, Val(o, x) = h, Val(m, x) # h PROVE x = e
      <4>1. x[1] = p /\ x[2] \in R /\ h = f + (x[2] - v)
        BY <1>4, <3>5
      <4>2. x[2] = i
        <5>1. x[2] \in Int /\ i \in Int /\ f \in Int
          BY <1>1, <3>2, <4>1 DEF R
        <5>2. PICK a \in Int, c1 \in Int, g \in Int : a = x[2] /\ c1 = i /\ g = f
          BY <5>1
        <5>3. g + (a - v) = g + (c1 - v) /\ v \in Int
          BY <3>2, <4>1, <5>2
        <5>4. a = c1
          BY <5>3, SameOffset
        <5>. QED BY <5>2, <5>4
      <4>3. x = <<x[1], x[2]>>
        BY DEF Entries
      <4>. QED BY <4>1, <4>2, <4>3 DEF e
    <3>6. Mappings(o, h) = Mappings(m, h) \cup {e} /\ e \notin Mappings(m, h)
      <4>1. \A x \in Mappings(m, h) : Val(o, x) = h
        BY <1>4, <3>1 DEF Mappings
      <4>. QED BY <3>1, <3>3, <3>4, <3>5, <4>1 DEF Mappings
    <3>7. Cardinality(Mappings(o, h)) = Cardinality(Mappings(m, h)) + 1
      <4>1. IsFiniteSet(Mappings(m, h))
        BY ProcFinite, FS_Subset DEF Mappings
      <4>. QED BY <3>6, <4>1, FS_AddElement
    <3>8. SumFunction([q \in Proc |-> G[q][c]]) = SumFunction([q \in Proc |-> H[q][c]]) + 1
      <4>. DEFINE s == [q \in Proc |-> H[q][c]]
      <4>1. s \in [Proc -> Nat]
        OBVIOUS
      <4>2. [q \in Proc |-> G[q][c]] = [s EXCEPT ![p] = @ + 1]
        BY <1>1, <1>6, <2>3
      <4>. HIDE DEF s
      <4>3. SumFunction([s EXCEPT ![p] = @ + 1]) = SumFunction(s) + 1
        BY <1>1, <4>1, ProcFinite, SumAdd
      <4>. QED BY <4>2, <4>3 DEF s
    <3>. QED BY <2>1, <3>7, <3>8
  <2>. QED BY <2>2, <2>3
<1>14. MapInv(o, G, L, M, N)
  BY <1>11, <1>12, <1>13 DEF MapInv
<1>. QED BY <1>5, <1>7, <1>14 DEF Sharing

\* A process ends that has no segment mapped.
LEMMA EndSharing ==
  ASSUME NEW M, NEW N, SegTable(M, N), NEW m \in MemRec, NEW n, NEW H,
         NEW L, L \subseteq Proc, Sharing(m, H, L, M, N), NEW p \in L, \A k \in Key : H[p][k] = 0,
         NEW A \in HPage, A + 1 \in HPage, NEW T \in HPage,
         m.high[A] # NONE, m.high[A + 1] = m.high[A] + 1, m.high[A + 1] # NONE, m.high[T] # NONE,
         \A i \in LPage : n.ptab[p][i] = NONE,
         \A q \in Proc : q # p => n.ptab[q] = m.ptab[q],
         \A v \in HPage : n.high[v] = IF v \in {A, A + 1, T} THEN NONE ELSE m.high[v],
         NEW P, P = {m.ptab[p][i] : i \in Mapped(m.ptab[p]) \ Video},
         {m.high[A], m.high[A] + 1} \subseteq m.used \ P =>
           n.used = m.used \ (P \cup {m.high[A], m.high[A] + 1, m.high[T]})
  PROVE  Sharing(n, H, L \ {p}, M, N)
<1>. DEFINE f == m.high[A]
            R == P \cup {f, f + 1, m.high[T]}
            Cleared(x) == x[1] = p \/ (x[1] = 0 /\ x[2] \in {A, A + 1, T})
<1>1. /\ Framed(m, Segs(M, N)) /\ SegInv(m, H, M, N) /\ MapInv(m, H, L, M, N)
      /\ \A k \in Key : Seg(M, N, k) \subseteq Segs(M, N)
      /\ p \in Proc /\ Segs(M, N) \subseteq m.used \ Reserved /\ NONE \notin Segs(M, N)
  BY SegFacts DEF Sharing, Segs, SegInv
<1>2. p # 0 /\ \A q \in Proc : q # 0
  <2>1. \A q \in Proc : q # 0
    BY DEF Proc
  <2>. QED BY <1>1, <2>1
<1>3. m.ptab[p] \in [LPage -> Frame \cup {NONE}] /\ Mapped(m.ptab[p]) \subseteq LPage
      /\ \A i \in LPage : i \in Mapped(m.ptab[p]) <=> m.ptab[p][i] # NONE
  <2>1. m.ptab[p] \in [LPage -> Frame \cup {NONE}]
    BY <1>1 DEF MemRec
  <2>. QED BY <2>1 DEF Mapped
<1>4. ASSUME NEW i \in LPage \ Video PROVE m.ptab[p][i] \notin Segs(M, N)
  <2>1. SUFFICES ASSUME NEW k \in Key, m.ptab[p][i] \in Seg(M, N, k) PROVE FALSE
    BY DEF Segs
  <2>2. M[k] # NONE /\ N[k] > 0 /\ N[k] \in Nat
    BY <2>1, SegFacts
  <2>3. Cardinality(Starts(m.ptab[p], M[k], N[k])) = 0
    BY <1>1, <2>2 DEF MapInv
  <2>4. Starts(m.ptab[p], M[k], N[k]) # {}
    BY <1>1, <2>1 DEF MapInv
  <2>5. IsFiniteSet(Starts(m.ptab[p], M[k], N[k]))
    <3>1. IsFiniteSet(0..(NLow - N[k]))
      BY <2>2, FS_Interval, MemoryAssumption
    <3>2. Starts(m.ptab[p], M[k], N[k]) \subseteq 0..(NLow - N[k])
      BY DEF Starts
    <3>. QED BY <3>1, <3>2, FS_Subset
  <2>. QED BY <2>3, <2>4, <2>5, FS_EmptySet
<1>5. ASSUME NEW d \in R
      PROVE  /\ \E y \in Entries : Mine(y) /\ Cleared(y) /\ Val(m, y) = d
             /\ d \notin Segs(M, N) /\ d # NONE
  <2>1. ASSUME NEW v \in {A, A + 1, T}, d = m.high[v]
        PROVE  /\ \E y \in Entries : Mine(y) /\ Cleared(y) /\ Val(m, y) = d
               /\ d \notin Segs(M, N) /\ d # NONE
    <3>. DEFINE e == <<0, v>>
    <3>1. e \in Entries /\ e[1] = 0 /\ e[2] = v /\ Mine(e) /\ Cleared(e)
      BY DEF Entries, Mine
    <3>2. Val(m, e) = d
      BY <2>1 DEF Val
    <3>. HIDE DEF e, R, Cleared
    <3>. QED BY <1>1, <2>1, <3>1, <3>2 DEF Framed
  <2>2. ASSUME d \in P
        PROVE  /\ \E y \in Entries : Mine(y) /\ Cleared(y) /\ Val(m, y) = d
               /\ d \notin Segs(M, N) /\ d # NONE
    <3>1. PICK i \in LPage \ Video : i \in Mapped(m.ptab[p]) /\ m.ptab[p][i] = d
      BY <1>3, <2>2
    <3>. DEFINE e == <<p, i>>
    <3>2. e \in Entries /\ e[1] = p /\ e[2] = i /\ Mine(e) /\ Cleared(e)
      BY <1>1, <3>1 DEF Entries, Mine
    <3>3. Val(m, e) = d /\ d # NONE
      BY <1>2, <1>3, <3>1 DEF Val
    <3>. HIDE DEF e, R, Cleared
    <3>. QED BY <1>4, <3>1, <3>2, <3>3
  <2>3. d \in P \/ \E v \in {A, A + 1, T} : d = m.high[v]
    OBVIOUS
  <2>. HIDE DEF Cleared, R
  <2>. QED BY <2>1, <2>2, <2>3
<1>6. n.used = m.used \ R
  <2>1. ASSUME NEW v \in {A, A + 1} PROVE m.high[v] \in m.used \ P
    <3>. DEFINE e == <<0, v>>
    <3>1. e \in Entries /\ e[1] = 0 /\ Mine(e) /\ Val(m, e) = m.high[v]
      BY DEF Entries, Mine, Val
    <3>. HIDE DEF e, R
    <3>2. Val(m, e) \in m.used /\ Val(m, e) # NONE /\ Val(m, e) \notin Segs(M, N)
      BY <1>1, <3>1 DEF Framed
    <3>3. ASSUME m.high[v] \in P PROVE FALSE
      <4>1. PICK i \in LPage \ Video : m.ptab[p][i] = m.high[v]
        BY <1>3, <3>3
      <4>. DEFINE c == <<p, i>>
      <4>2. c \in Entries /\ c[1] = p /\ Mine(c) /\ Val(m, c) = m.ptab[p][i]
        BY <1>1, <1>2 DEF Entries, Mine, Val
      <4>. HIDE DEF c
      <4>3. c = e
        BY <1>1, <3>1, <3>2, <4>1, <4>2 DEF Framed
      <4>. QED BY <1>2, <3>1, <4>2, <4>3
    <3>. QED BY <3>1, <3>2, <3>3
  <2>. QED BY <2>1
<1>7. ASSUME NEW x \in Entries
      PROVE  Val(n, x) = IF Cleared(x) THEN NONE ELSE Val(m, x)
  <2>1. \/ x[1] = 0 /\ x[2] \in HPage
        \/ x[1] # 0 /\ x[1] \in Proc /\ x[2] \in LPage
    BY <1>2 DEF Entries
  <2>. QED BY <1>2, <2>1 DEF Val
<1>8. ASSUME NEW x \in Entries, Cleared(x), Mine(x) PROVE Val(m, x) \in R \cup {NONE}
  <2>1. CASE x[1] = 0
    BY <1>2, <1>8, <2>1 DEF Val
  <2>2. CASE x[1] = p
    <3>1. x[2] \in LPage \ Video /\ Val(m, x) = m.ptab[p][x[2]]
      BY <1>2, <1>8, <2>2 DEF Entries, Mine, Val
    <3>. QED BY <1>3, <3>1
  <2>. QED BY <1>8, <2>1, <2>2
<1>. HIDE DEF R
<1>9. ASSUME NEW x \in Entries, Mine(x), Val(m, x) \in R PROVE Cleared(x)
  <2>1. PICK y \in Entries : Mine(y) /\ Cleared(y) /\ Val(m, y) = Val(m, x)
    BY <1>5, <1>9
  <2>2. Val(m, x) # NONE /\ Val(m, x) \notin Segs(M, N)
    BY <1>5, <1>9
  <2>. HIDE DEF Cleared
  <2>3. x = y
    BY <1>1, <1>9, <2>1, <2>2 DEF Framed
  <2>. QED BY <2>1, <2>3
<1>10. R \cap Reserved = {} /\ R \cap Segs(M, N) = {}
  <2>. HIDE DEF Cleared
  <2>. QED BY <1>1, <1>5 DEF Framed
<1>. HIDE DEF Cleared
<1>11. Framed(n, Segs(M, N))
  <2>1. Reserved \subseteq n.used
    BY <1>1, <1>6, <1>10 DEF Framed
  <2>2. ASSUME NEW x \in Entries
        PROVE  /\ Mine(x) /\ Val(n, x) # NONE => Val(n, x) \in n.used \ Reserved
               /\ ~Mine(x) => Val(n, x) \in Reserved \cup {NONE}
               /\ x[1] = 0 => Val(n, x) \notin Segs(M, N)
    BY <1>1, <1>6, <1>7, <1>9 DEF Framed
  <2>3. ASSUME NEW x \in Entries, NEW y \in Entries, Mine(x), Mine(y),
               Val(n, x) # NONE, Val(n, x) = Val(n, y), Val(n, x) \notin Segs(M, N)
        PROVE  x = y
    <3>1. Val(m, x) # NONE /\ Val(m, x) = Val(m, y) /\ Val(m, x) \notin Segs(M, N)
      BY <1>7, <2>3
    <3>. QED BY <1>1, <2>3, <3>1 DEF Framed
  <2>4. ASSUME NEW h \in n.used \ (Reserved \cup Segs(M, N))
        PROVE  \E x \in Entries : Mine(x) /\ Val(n, x) = h
    <3>1. h \in m.used \ (Reserved \cup Segs(M, N)) /\ h \notin R
      BY <1>6
    <3>2. PICK x \in Entries : Mine(x) /\ Val(m, x) = h
      BY <1>1, <3>1 DEF Framed
    <3>3. h # NONE
      BY <3>1 DEF MemRec, Frame, NONE
    <3>. QED BY <1>7, <1>8, <3>1, <3>2, <3>3
  <2>. QED BY <2>1, <2>2, <2>3, <2>4 DEF Framed
<1>12. SegInv(n, H, M, N)
  <2>1. \A k \in Key : Seg(M, N, k) \subseteq n.used \ Reserved
    BY <1>1, <1>6, <1>10
  <2>. QED BY <1>1, <2>1 DEF SegInv
<1>13. MapInv(n, H, L \ {p}, M, N)
  <2>1. ASSUME NEW x \in Entries, NEW h \in Segs(M, N), Mine(x) PROVE Val(m, x) = h <=> Val(n, x) = h
    BY <1>1, <1>7, <1>8, <1>10, <2>1
  <2>2. ASSUME NEW q \in Proc
        PROVE  \/ \A i \in LPage, h \in Segs(M, N) : m.ptab[q][i] = h <=> n.ptab[q][i] = h
               \/ q \notin L \ {p} /\ \A i \in LPage : n.ptab[q][i] = NONE
    OBVIOUS
  <2>. QED BY <1>1, <2>1, <2>2, MapSame
<1>. QED BY <1>11, <1>12, <1>13 DEF Sharing

-----------------------------------------------------------------------------
(* Frames: the steps *)

\* SegType in terms of the tables.
LEMMA Tables ==
  ASSUME SegType
  PROVE  SegTable(mem, LenInPages) /\ \A k \in Key : Seg(mem, LenInPages, k) = Segment(k)
<1>1. \A k \in Key : Seg(mem, LenInPages, k) = Segment(k)
  BY DEF Seg, Segment
<1>. QED BY <1>1 DEF SegType, SegTable

\* FrameInv is kept by a step that leaves memory and segments alone.
LEMMA StillFrames ==
  ASSUME FrameInv, UNCHANGED memVars, UNCHANGED <<handles, mem, LenInPages, aspaceAt>>
  PROVE  FrameInv'
<1>1. Memory' = Memory /\ Living' = Living /\ Intact' = Intact
  BY DEF Memory, memVars, Living, Intact
<1>. QED BY <1>1 DEF FrameInv

\* FrameInv is kept when memory grows.
LEMMA GrowFrames ==
  ASSUME MemInv, SegType, FrameInv, NEW p, p \in Proc => aspaceAt[p] # NONE,
         Grow(Memory, Memory', p), UNCHANGED <<handles, mem, LenInPages, aspaceAt>>
  PROVE  FrameInv'
<1>1. Living' = Living /\ Intact' = Intact /\ Living \subseteq Proc
  BY DEF Living, Intact
<1>2. Memory \in MemRec /\ SegTable(mem, LenInPages)
  BY MemoryType, Tables DEF MemInv
<1>3. p \in Proc => \A i \in Video : Memory.ptab[p][i] # NONE
  BY DEF MemInv, LifeInv, Memory
<1>4. ASSUME Intact PROVE Sharing(Memory', handles, Living, mem, LenInPages)
  <2>1. Sharing(Memory, handles, Living, mem, LenInPages)
    BY <1>4 DEF FrameInv
  <2>2. PICK n : n = Memory'
    OBVIOUS
  <2>. QED BY <1>1, <1>2, <1>3, <2>1, <2>2, GrowSharing
<1>. QED BY <1>1, <1>4 DEF FrameInv

\* FrameInv is kept when a segment is made.
LEMMA CreateFrames ==
  ASSUME MemInv, SegType, SegType', FrameInv, NEW n \in Nat, SegCreated(n), UNCHANGED <<handles, aspaceAt>>
  PROVE  FrameInv'
<1>1. Living' = Living /\ Intact' = Intact /\ Living \subseteq Proc
  BY DEF Living, Intact
<1>2. Memory \in MemRec /\ SegTable(mem, LenInPages)
  BY MemoryType, Tables DEF MemInv
<1>3. SegTable(mem', LenInPages')
  BY DEF SegType, SegTable, Seg, Segment
<1>4. PICK c \in Key, f \in Nat, g \in Frame \cup {NONE} :
        /\ mem[c] = NONE
        /\ n > 0 => g = f
        /\ f..(f + n - 1) \subseteq Frame \ used
        /\ used' = used \cup f..(f + n - 1) /\ high' = high /\ ptab' = ptab
        /\ mem' = [mem EXCEPT ![c] = g] /\ LenInPages' = [LenInPages EXCEPT ![c] = n]
  BY DEF SegCreated, Unused
<1>5. PICK m, o, O, Q : m \in MemRec /\ m = Memory /\ o = Memory' /\ O = mem' /\ Q = LenInPages'
  BY <1>2
<1>6. ASSUME Intact PROVE Sharing(o, handles, Living, O, Q)
  <2>1. Sharing(m, handles, Living, mem, LenInPages)
    BY <1>5, <1>6 DEF FrameInv
  <2>2. /\ f..(f + n - 1) \subseteq Frame \ m.used
        /\ o.used = m.used \cup f..(f + n - 1) /\ o.high = m.high /\ o.ptab = m.ptab
    BY <1>4, <1>5 DEF Memory
  <2>. QED BY <1>1, <1>2, <1>3, <1>4, <1>5, <2>1, <2>2, CreateSharing
<1>. QED BY <1>1, <1>5, <1>6 DEF FrameInv

\* FrameInv is kept when a segment is attached.
LEMMA AttachFrames ==
  ASSUME MemInv, SegType, FrameInv, NEW p \in Proc, NEW k \in Key, mem[k] # NONE, aspaceAt[p] # NONE,
         SegAttached(p, k), UNCHANGED <<mem, LenInPages, aspaceAt>>
  PROVE  FrameInv'
<1>1. Living' = Living /\ Living \subseteq Proc /\ p \in Living
  BY DEF Living
<1>2. Memory \in MemRec /\ Memory.ptab = ptab /\ SegTable(mem, LenInPages) /\ handles \in [Proc -> [Key -> Nat]]
  BY MemoryType, Tables DEF MemInv, Memory, SegType
<1>3. PICK n \in MemRec, v \in Nat :
        /\ Grow(Memory, n, p) /\ n.ptab = ptab
        /\ v..(v + LenInPages[k] - 1) \subseteq LPage \ Mapped(ptab[p])
        /\ Memory' = [used |-> n.used, high |-> n.high,
                      ptab |-> [n.ptab EXCEPT ![p] = Map(@, v, mem[k], LenInPages[k])]]
        /\ handles' = [handles EXCEPT ![p][k] = @ + 1]
  BY DEF SegAttached
<1>4. Intact' => Intact
  <2>1. \A q \in Proc, c \in Key : q # p => handles'[q][c] = handles[q][c]
    BY <1>2, <1>3
  <2>. QED BY <1>1, <2>1 DEF Intact
<1>5. \A i \in Video : ptab[p][i] # NONE
  BY DEF MemInv, LifeInv
<1>6. ASSUME Intact PROVE Sharing(Memory', handles', Living, mem, LenInPages)
  <2>1. Sharing(Memory, handles, Living, mem, LenInPages)
    BY <1>6 DEF FrameInv
  <2>2. Sharing(n, handles, Living, mem, LenInPages)
    BY <1>1, <1>2, <1>3, <1>5, <2>1, GrowSharing
  <2>3. PICK o : o = Memory'
    OBVIOUS
  <2>4. /\ o.used = n.used /\ o.high = n.high
        /\ v..(v + LenInPages[k] - 1) \subseteq LPage \ Mapped(n.ptab[p])
        /\ \A i \in Video : n.ptab[p][i] # NONE
    BY <1>3, <1>5, <2>3
  <2>5. PICK M, N, L, H : M = mem /\ N = LenInPages /\ L = Living /\ H = handles
    OBVIOUS
  <2>6. /\ v..(v + N[k] - 1) \subseteq LPage \ Mapped(n.ptab[p])
        /\ SegTable(M, N) /\ L \subseteq Proc /\ p \in L /\ Sharing(n, H, L, M, N) /\ M[k] # NONE
        /\ H \in [Proc -> [Key -> Nat]]
    BY <1>1, <1>2, <2>2, <2>4, <2>5
  <2>10. ASSUME NEW q \in Proc, NEW i \in LPage
        PROVE  o.ptab[q][i] = IF q = p /\ i \in v..(v + N[k] - 1) THEN M[k] + (i - v) ELSE n.ptab[q][i]
    <3>1. n.ptab \in [Proc -> [LPage -> Frame \cup {NONE}]] /\ DOMAIN n.ptab[p] = LPage
      BY DEF MemRec
    <3>2. o.ptab = [n.ptab EXCEPT ![p] = Map(n.ptab[p], v, M[k], N[k])]
      BY <1>3, <2>3, <2>5
    <3>3. q = p => o.ptab[q][i] = Map(n.ptab[p], v, M[k], N[k])[i]
      BY <3>1, <3>2
    <3>4. q # p => o.ptab[q][i] = n.ptab[q][i]
      BY <3>1, <3>2
    <3>5. Map(n.ptab[p], v, M[k], N[k])[i] = IF i \in v..(v + N[k] - 1) THEN M[k] + (i - v) ELSE n.ptab[p][i]
      BY <3>1 DEF Map
    <3>. QED BY <3>3, <3>4, <3>5
  <2>7. MappedAt(n, o, p, v, M[k], N[k])
    BY <2>4, <2>6, <2>10 DEF MappedAt
  <2>8. PICK G : G = handles' /\ \A q \in Proc, c \in Key :
                    G[q][c] = IF q = p /\ c = k THEN H[q][c] + 1 ELSE H[q][c]
    <3>1. \A q \in Proc, c \in Key :
            handles'[q][c] = IF q = p /\ c = k THEN H[q][c] + 1 ELSE H[q][c]
      BY <1>3, <2>5, <2>6
    <3>. QED BY <3>1
  <2>9. Sharing(o, G, L, M, N)
    BY <2>4, <2>6, <2>7, <2>8, AttachSharing
  <2>. QED BY <2>3, <2>5, <2>8, <2>9
<1>. QED BY <1>1, <1>4, <1>6 DEF FrameInv

\* FrameInv is kept when a thread is cleaned up.
LEMMA CleanUpFrames ==
  ASSUME MemInv, SegType, FrameInv, NEW t \in Task, PsCleanUpTask(t), UNCHANGED segVars
  PROVE  FrameInv'
<1>1. PICK p \in Proc : p = parent[t] /\ aspaceAt[p] # NONE /\ taskAt[t] # NONE
  BY RunningLives DEF PsCleanUpTask, Alive
<1>2. UNCHANGED <<handles, mem, LenInPages>>
  BY DEF segVars
<1>3. CASE UNCHANGED <<memVars, aspaceAt>>
  BY <1>2, <1>3, StillFrames
<1>4. CASE /\ Ended(p, t)
           /\ LET f == high[aspaceAt[p]] IN
              {f, f + 1} \subseteq used \ Pages(p) =>
                used' = used \ (Pages(p) \cup {f, f + 1, high[taskAt[t]]})
  <2>1. aspaceAt \in [Proc -> HPage \cup {NONE}] /\ Memory \in MemRec /\ SegTable(mem, LenInPages)
    BY MemoryType, Tables DEF MemInv, TypeOK
  <2>2. Living' = Living \ {p} /\ Living \subseteq Proc /\ p \in Living
    BY <1>1, <1>4, <2>1 DEF Living, Ended
  <2>3. Intact' => Intact /\ \A k \in Key : handles[p][k] = 0
    BY <1>2, <2>2 DEF Intact
  <2>4. PICK A \in HPage, T \in HPage : A = aspaceAt[p] /\ T = taskAt[t]
    BY <1>1 DEF MemInv, Apart
  <2>5. /\ A + 1 \in HPage /\ high[A] # NONE /\ high[A + 1] # NONE /\ high[A + 1] = high[A] + 1
        /\ high[T] # NONE
    BY <1>1, <2>4 DEF MemInv, Apart
  <2>6. ASSUME Intact, \A k \in Key : handles[p][k] = 0
        PROVE  Sharing(Memory', handles, Living \ {p}, mem, LenInPages)
    <3>1. Sharing(Memory, handles, Living, mem, LenInPages)
      BY <2>6 DEF FrameInv
    <3>2. PICK o, P : o = Memory' /\ P = Pages(p)
      OBVIOUS
    <3>3. /\ \A i \in LPage : o.ptab[p][i] = NONE
          /\ \A q \in Proc : q # p => o.ptab[q] = ptab[q]
          /\ \A v \in HPage : o.high[v] = IF v \in {A, A + 1, T} THEN NONE ELSE high[v]
      BY <1>4, <2>4, <3>2 DEF Ended, Memory
    <3>4. {high[A], high[A] + 1} \subseteq used \ P => o.used = used \ (P \cup {high[A], high[A] + 1, high[T]})
      BY <1>4, <2>4, <3>2 DEF Memory
    <3>5. P = {ptab[p][i] : i \in Mapped(ptab[p]) \ Video}
      BY <3>2 DEF Pages
    <3>6. PICK m \in MemRec : m = Memory /\ m.used = used /\ m.high = high /\ m.ptab = ptab
      BY <2>1 DEF Memory
    <3>7. PICK M, N, H, L : M = mem /\ N = LenInPages /\ H = handles /\ L = Living
      OBVIOUS
    <3>8. Sharing(o, H, L \ {p}, M, N)
      <4>1. /\ m.high[A] # NONE /\ m.high[A + 1] = m.high[A] + 1
            /\ m.high[A + 1] # NONE /\ m.high[T] # NONE
            /\ P = {m.ptab[p][i] : i \in Mapped(m.ptab[p]) \ Video}
        BY <2>5, <3>5, <3>6
      <4>2. {m.high[A], m.high[A] + 1} \subseteq m.used \ P =>
              o.used = m.used \ (P \cup {m.high[A], m.high[A] + 1, m.high[T]})
        BY <3>4, <3>6
      <4>3. /\ \A q \in Proc : q # p => o.ptab[q] = m.ptab[q]
            /\ \A v \in HPage : o.high[v] = IF v \in {A, A + 1, T} THEN NONE ELSE m.high[v]
        BY <3>3, <3>6
      <4>4. /\ Sharing(m, H, L, M, N) /\ SegTable(M, N) /\ L \subseteq Proc /\ p \in L
            /\ \A k \in Key : H[p][k] = 0
        BY <2>1, <2>2, <2>6, <3>1, <3>6, <3>7
      <4>. QED BY <2>5, <3>3, <4>1, <4>2, <4>3, <4>4, EndSharing
    <3>. QED BY <3>2, <3>7, <3>8
  <2>. QED BY <1>2, <2>2, <2>3, <2>6 DEF FrameInv
<1>. QED BY <1>1, <1>3, <1>4, CleanUpShape

\* Every step keeps FrameInv.
LEMMA StepFrames ==
  ASSUME MemInv, SegType, SegType', FrameInv, [ShmNext]_shmVars
  PROVE  FrameInv'
<1>1. ASSUME NEW p \in Proc, CreateThread(p) PROVE FrameInv'
  <2>1. UNCHANGED <<handles, mem, LenInPages>>
    BY <1>1 DEF CreateThread, segVars
  <2>2. CASE PsCreateNewTask(p)
    BY <2>1, <2>2, CreateTaskMemory, GrowFrames
  <2>3. CASE Halt(~TableFull(p))
    BY <2>1, <2>3, StillFrames DEF Halt, taskVars
  <2>. QED BY <1>1, <2>2, <2>3 DEF CreateThread
<1>2. ASSUME NEW t \in Task, PsCleanUpTask(t), UNCHANGED segVars PROVE FrameInv'
  BY <1>2, CleanUpFrames
<1>3. ASSUME NEW p \in Proc, NEW addr \in Breaks, brk(p, addr), UNCHANGED segVars PROVE FrameInv'
  <2>1. Grow(Memory, Memory', p) /\ UNCHANGED <<handles, mem, LenInPages, aspaceAt>>
    BY <1>3, BrkMemory DEF taskVars, segVars
  <2>2. aspaceAt[p] # NONE
    BY <1>3, RunsLives DEF brk
  <2>. QED BY <2>1, <2>2, GrowFrames
<1>4. ASSUME NEW n \in Sizes, kmalloc(n), UNCHANGED segVars PROVE FrameInv'
  <2>1. Grow(Memory, Memory', 0) /\ UNCHANGED <<handles, mem, LenInPages, aspaceAt>>
    BY <1>4, KmallocMemory DEF taskVars, segVars
  <2>2. 0 \notin Proc
    BY DEF Proc
  <2>. QED BY <2>1, <2>2, GrowFrames
<1>5. ASSUME NEW b \in inuse, kfree(b), UNCHANGED segVars PROVE FrameInv'
  BY <1>5, StillFrames DEF kfree, taskVars, segVars
<1>6. ASSUME NEW p \in Proc, NEW n \in SegLens, SmCreateSeg(p, n) PROVE FrameInv'
  <2>1. UNCHANGED <<handles, aspaceAt>> /\ (SegCreated(n) \/ UNCHANGED <<memVars, segVars>>)
    BY <1>6, CreateSegShape DEF taskVars
  <2>2. CASE UNCHANGED <<memVars, segVars>>
    BY <2>1, <2>2, StillFrames DEF segVars
  <2>3. n \in Nat
    BY SharedMemoryAssumption
  <2>. QED BY <2>1, <2>2, <2>3, CreateFrames
<1>7. ASSUME NEW p \in Proc, NEW k \in Key, SmAttachSeg(p, k) PROVE FrameInv'
  <2>1. UNCHANGED <<mem, LenInPages, aspaceAt>> /\ (SegAttached(p, k) \/ UNCHANGED <<memVars, segVars>>)
    BY <1>7, AttachShape DEF taskVars
  <2>2. CASE UNCHANGED <<memVars, segVars>>
    BY <2>1, <2>2, StillFrames DEF segVars
  <2>3. mem[k] # NONE /\ aspaceAt[p] # NONE
    BY <1>7, RunsLives DEF SmAttachSeg
  <2>. QED BY <2>1, <2>2, <2>3, AttachFrames
<1>8. ASSUME NEW p \in Proc, NEW k \in Key, SmCloseSeg(p, k) PROVE FrameInv'
  BY <1>8, StillFrames DEF SmCloseSeg, vars, taskVars
<1>9. CASE UNCHANGED shmVars
  BY <1>9, StillFrames DEF shmVars, segVars, vars, taskVars
<1>. QED BY <1>1, <1>2, <1>3, <1>4, <1>5, <1>6, <1>7, <1>8, <1>9 DEF ShmNext

\* The initial state satisfies FrameInv.
LEMMA InitFrames ==
  ASSUME ShmInit
  PROVE  FrameInv
<1>1. Framed(Memory, {})
  BY InitMemInv DEF ShmInit
<1>2. /\ \A k \in Key : mem[k] = NONE /\ Seg(mem, LenInPages, k) = {}
      /\ \A p \in Proc, k \in Key : handles[p][k] = 0
  BY DEF ShmInit, Seg
<1>3. Segs(mem, LenInPages) = {}
  BY <1>2 DEF Segs
<1>4. SegInv(Memory, handles, mem, LenInPages)
  BY <1>2 DEF SegInv
<1>5. MapInv(Memory, handles, Living, mem, LenInPages)
  BY <1>2 DEF MapInv
<1>. QED BY <1>1, <1>3, <1>4, <1>5 DEF FrameInv, Sharing

\* FrameInv is an invariant.
LEMMA FrameAlways == ShmSpec => [](MemInv /\ SegType /\ FrameInv)
<1>1. ShmInit => FrameInv
  BY InitFrames
<1>2. MemInv /\ SegType /\ SegType' /\ FrameInv /\ [ShmNext]_shmVars => FrameInv'
  BY StepFrames
<1>. QED BY <1>1, <1>2, MemAlways, PTL DEF ShmSpec

\* The places of a frame are the entries that map it.
LEMMA PlacesMap ==
  ASSUME NEW f \in Frame
  PROVE  Places(f) = Mappings(Memory, f)
<1>1. Memory.high = high /\ Memory.ptab = ptab /\ \A p \in Proc : p # 0
  BY DEF Memory, Proc
<1>2. ASSUME NEW v \in HPage
      PROVE  <<0, v>> \in Entries /\ Mine(<<0, v>>) /\ Val(Memory, <<0, v>>) = high[v]
  BY <1>1 DEF Entries, Mine, Val
<1>3. ASSUME NEW p \in Proc, NEW i \in LPage
      PROVE  /\ <<p, i>> \in Entries /\ (Mine(<<p, i>>) <=> i \notin Video)
             /\ Val(Memory, <<p, i>>) = ptab[p][i]
  BY <1>1 DEF Entries, Mine, Val
<1>4. Places(f) \subseteq Mappings(Memory, f)
  BY <1>2, <1>3 DEF Places, Mappings
<1>5. ASSUME NEW x \in Mappings(Memory, f) PROVE x \in Places(f)
  <2>1. CASE x \in {0} \X HPage
    <3>1. PICK v \in HPage : x = <<0, v>>
      BY <2>1
    <3>. QED BY <1>2, <3>1 DEF Places, Mappings
  <2>2. CASE x \in Proc \X LPage
    <3>1. PICK p \in Proc, i \in LPage : x = <<p, i>>
      BY <2>2
    <3>2. i \notin Video /\ ptab[p][i] = f
      BY <1>3, <3>1 DEF Mappings
    <3>. QED BY <3>1, <3>2 DEF Places
  <2>. QED BY <2>1, <2>2 DEF Mappings, Entries
<1>. QED BY <1>4, <1>5

\* The invariant implies FramesAccounted.
LEMMA FramesFollow ==
  ASSUME MemInv, SegType, FrameInv
  PROVE  FramesAccounted
<1>. SUFFICES ASSUME Intact PROVE FramesAccounted
  BY DEF FramesAccounted
<1>. DEFINE G == Segs(mem, LenInPages)
<1>1. /\ Framed(Memory, G) /\ SegInv(Memory, handles, mem, LenInPages)
      /\ MapInv(Memory, handles, Living, mem, LenInPages)
      /\ Memory.used = used
  BY DEF FrameInv, Sharing, Memory
<1>2. /\ \A k \in Key : Seg(mem, LenInPages, k) = Segment(k)
      /\ G = UNION {Segment(k) : k \in Key}
  BY Tables DEF Segs
<1>3. \A k, l \in Key : Segment(k) \subseteq used /\ (Segment(k) \cap Segment(l) # {} => k = l)
  BY <1>1, <1>2 DEF SegInv
<1>4. ASSUME NEW f \in Frame, NEW k \in Key, f \in Segment(k)
      PROVE  Cardinality(Places(f)) = Attachments(k)
  BY <1>1, <1>2, <1>4, PlacesMap DEF MapInv, Attachments
<1>5. ASSUME NEW f \in Frame, f \notin G
      PROVE  Cardinality(Places(f)) = IF f \in used \ Reserved THEN 1 ELSE 0
  <2>1. f # NONE
    BY DEF Frame, NONE
  <2>2. CASE f \in used \ Reserved
    <3>1. PICK x \in Entries : Mine(x) /\ Val(Memory, x) = f
      BY <1>1, <1>5, <2>2 DEF Framed
    <3>2. \A y \in Entries : Mine(y) /\ Val(Memory, y) = f => y = x
      BY <1>1, <1>5, <2>1, <3>1 DEF Framed
    <3>3. Mappings(Memory, f) = {x}
      BY <3>1, <3>2 DEF Mappings
    <3>. QED BY <2>2, <3>3, PlacesMap, FS_Singleton
  <2>3. CASE f \notin used \ Reserved
    <3>1. Mappings(Memory, f) = {}
      BY <1>1, <2>1, <2>3 DEF Framed, Mappings
    <3>. QED BY <2>3, <3>1, PlacesMap, FS_EmptySet
  <2>. QED BY <2>2, <2>3
<1>. HIDE DEF G
<1>. QED BY <1>2, <1>3, <1>4, <1>5 DEF FramesAccounted

\* Whatever the number of frames, processes and segments and the order of the
\* calls, with segments no longer than a table: the bit of a frame is set exactly
\* while a table maps it or a segment has it, no two processes share a frame but
\* a segment's, and that one is mapped once for every attachment (mem.c:82-98,
\* mem.c:152-160, task.c:403-424, shm.c:39-41, shm.c:83).  Pages the kernel maps
\* and has no use for any more count as used.
THEOREM FramesAlwaysAccounted == ShmSpec => []FramesAccounted
<1>1. MemInv /\ SegType /\ FrameInv => FramesAccounted
  BY FramesFollow
<1>. QED BY <1>1, FrameAlways, PTL

\* A living process sees a segment whole and in order, as often as it attached it
\* (shm.c:83, mem.c:172-199).
THEOREM SegmentsAlwaysSound == ShmSpec => []SegmentsSound
<1>1. MemInv /\ SegType /\ FrameInv => SegmentsSound
  BY DEF FrameInv, Sharing, MapInv, Starts, Memory, SegmentsSound
<1>. QED BY <1>1, FrameAlways, PTL

=============================================================================
