----------------------------- MODULE SchedProofs -----------------------------
(***************************************************************************)
(* Safety of the scheduler for any number of threads, slots and interrupt  *)
(* lines.                                                                  *)
(*                                                                         *)
(* Where drivers keep to the manual (Disciplined), Listing and Current say *)
(* which threads have a slot and how the walk over the slots relates to    *)
(* the thread whose stack the kernel is on; Lines relates the interrupt    *)
(* masks to the sleeping handlers, and Frames the controller's in-service  *)
(* bits to the interrupted threads.  AnyInv is what is left of the first   *)
(* two where drivers do as they like.                                      *)
(***************************************************************************)
EXTENDS Sched, FiniteSetTheorems, TLAPS

Listing ==
  /\ \A i, j \in Slot : TaskList[i] = TaskList[j] /\ TaskList[i] # None => i = j
  /\ \A i \in Slot : TaskList[i] # None => state[TaskList[i]] \notin {"NONE", "GONE"}
  /\ \A t \in Task : state[t] \notin {"NONE", "GONE", "READY"} => Listed(t)
  /\ TaskList[0] = Idle
  /\ SlotsCovered

\* A walk of PsSwitchTask is past the slot of the thread it left, and slot 0,
\* where it would wrap, stops it.
Current ==
  /\ state[Idle] \in {"READY", "RUNNING"}
  /\ \A t \in Task : state[t] = "RUNNING" => t = CurrentTask
  /\ Listed(CurrentTask)
  /\ walk = "user" => TaskList[CurrentTaskNum] = CurrentTask
  /\ walk = "switch" /\ CurrentTask # Idle =>
       \E i \in Slot : i =< CurrentTaskNum /\ TaskList[i] = CurrentTask
  /\ walk # "switch" => state[CurrentTask] = "RUNNING"
  /\ walk = "preempt" => Listed(target) /\ state[target] = "READY" /\ target # CurrentTask

Lines ==
  /\ UnmaskedHandlerAsleep
  /\ \A t \in Task : state[t] \notin Ended /\ irq[t] # 0 => irq_task_map[irq[t]] = t
  /\ \A t \in Task : state[t] = "NONE" => irq[t] = 0

Frames ==
  /\ \A t \in eoi : state[t] = "READY" \/ (walk = "preempt" /\ t = CurrentTask)
  /\ walk # "preempt" => CurrentTask \notin eoi
  /\ IsFiniteSet(inservice) /\ IsFiniteSet(eoi)
  /\ EoiBalanced

SchedInv == TypeOK /\ Listing /\ Current /\ Lines /\ Frames

-----------------------------------------------------------------------------
States == {"NONE", "READY", "RUNNING", "SLEEP_TIMER", "SLEEP_IRQ", "BLOCKED", "DEAD", "GONE"}

LEMMA Constants ==
  /\ MaxProc \in Nat /\ MaxProc >= 1 /\ NTasks \in Nat /\ NBoot \in Nat
  /\ 0 \in Slot /\ Slot \subseteq Int /\ \A i \in Slot : i >= 0
  /\ Idle \in Task /\ None \notin Task
  /\ Irq \subseteq Int /\ 0 \notin Irq
BY SchedAssumption DEF Slot, Task, Idle, None

LEMMA InitInv == ASSUME Disciplined, Init PROVE SchedInv
<1>0. /\ NBoot \in Nat /\ NTasks \in Nat /\ NBoot =< NTasks /\ NBoot + 1 =< MaxProc
      /\ MaxProc \in Nat /\ TimerPeriod \in Nat \ {0}
  BY SchedAssumption
<1>1. irq \in [Task -> {0}]
  BY DEF Init, StaleIrq
<1>2. TypeOK
  BY <1>0, <1>1 DEF Init, TypeOK, Slot, Task, Idle, None
<1>3. Listing
  <2>1. \A i \in Slot : i =< NBoot => TaskList[i] = i /\ i \in Task /\ i # None
    BY <1>0 DEF Init, Slot, Task, None
  <2>2. \A i \in Slot : ~(i =< NBoot) => TaskList[i] = None
    BY DEF Init
  <2>3. \A t \in Task : t =< NBoot => t \in Slot
    BY <1>0 DEF Slot, Task
  <2>4. 0 \in Slot /\ 0 =< NBoot
    BY <1>0 DEF Slot
  <2>. QED BY <1>0, <2>1, <2>2, <2>3, <2>4 DEF Init, Listing, Listed, SlotsCovered, Idle
<1>4. Current
  <2>1. Listed(CurrentTask)
    BY <1>3, Constants DEF Init, Listing, Listed
  <2>2. state[Idle] = "READY" /\ \A t \in Task : state[t] # "RUNNING"
    BY <1>0 DEF Init, Idle, Task
  <2>3. walk = "switch" /\ CurrentTask = Idle
    BY DEF Init
  <2>. QED BY <2>1, <2>2, <2>3 DEF Current
<1>5. Lines
  BY <1>1 DEF Init, Lines, UnmaskedHandlerAsleep
<1>6. Frames
  BY FS_EmptySet DEF Init, Frames, EoiBalanced
<1>. QED BY <1>2, <1>3, <1>4, <1>5, <1>6 DEF SchedInv

-----------------------------------------------------------------------------
(* Steps that leave a layer alone. *)

\* The list stays; threads keep existing, and those that block have a slot.
LEMMA ListingFrame ==
  ASSUME Listing, TypeOK, UNCHANGED <<TaskList, MaxUsedProc>>,
         \A t \in Task : \/ state'[t] = state[t]
                         \/ /\ state[t] \notin {"NONE", "GONE"}
                            /\ state'[t] \notin {"NONE", "GONE"}
                            /\ state'[t] = "READY" \/ Listed(t)
  PROVE  Listing'
<1>1. \A i \in Slot : TaskList[i] # None => TaskList[i] \in Task
  BY DEF TypeOK
<1>2. \A t \in Task : Listed(t)' <=> Listed(t)
  BY DEF Listed
<1>. QED BY <1>1, <1>2 DEF Listing, SlotsCovered

\* No registration, no mask and no handler's sleep changes.
LEMMA LinesFrame ==
  ASSUME Lines, TypeOK, UNCHANGED <<irq, irq_task_map, masked>>,
         \A t \in Task : /\ state[t] = "SLEEP_IRQ" => state'[t] = "SLEEP_IRQ"
                         /\ state[t] \in Ended => state'[t] \in Ended
                         /\ state'[t] = "NONE" => state[t] = "NONE"
  PROVE  Lines'
<1>1. \A n \in Irq : irq_task_map[n] # None => irq_task_map[n] \in Task
  BY DEF TypeOK
<1>. QED BY <1>1 DEF Lines, UnmaskedHandlerAsleep

\* No interrupt is taken or ended.
LEMMA FramesFrame ==
  ASSUME Frames, TypeOK, UNCHANGED <<inservice, eoi, CurrentTask>>,
         walk' = "preempt" <=> walk = "preempt",
         \A t \in Task : state[t] = "READY" => state'[t] = "READY"
  PROVE  Frames'
BY DEF Frames, EoiBalanced, TypeOK

-----------------------------------------------------------------------------
(* A call of PsSwitchTask. *)

SwitchCall(st) ==
  /\ walk = "user"
  /\ PsSwitchTask(st)
  /\ UNCHANGED <<TaskList, MaxUsedProc, CurrentTaskNum, CurrentTask, target>>
  /\ \/ st = state
     \/ /\ CurrentTask # Idle
        /\ \E x \in {"SLEEP_TIMER", "SLEEP_IRQ", "BLOCKED", "DEAD"} :
             st = [state EXCEPT ![CurrentTask] = x]

\* The caller is still running, asleep or dead; others may have left the timer.
LEMMA SwitchCallState ==
  ASSUME TypeOK, Current, NEW st, SwitchCall(st)
  PROVE  /\ state' \in [Task -> States]
         /\ SystemTimer' \in 0..TimerPeriod /\ walk' = "switch"
         /\ state[CurrentTask] = "RUNNING" /\ CurrentTask \in Task
         /\ \A t \in Task : t # CurrentTask =>
              state'[t] = state[t] \/ (state[t] = "SLEEP_TIMER" /\ state'[t] = "READY")
         /\ state'[CurrentTask] \notin {"NONE", "GONE"}
         /\ CurrentTask = Idle => state'[CurrentTask] = "RUNNING"
<1>1. /\ state \in [Task -> States] /\ CurrentTask \in Task /\ state[CurrentTask] = "RUNNING"
      /\ SystemTimer \in 0..TimerPeriod /\ TimerPeriod \in Nat
  BY SchedAssumption DEF TypeOK, States, Current, SwitchCall
<1>2. /\ st \in [Task -> States]
      /\ \A t \in Task : t # CurrentTask => st[t] = state[t]
      /\ st[CurrentTask] \notin {"NONE", "GONE"}
      /\ CurrentTask = Idle => st[CurrentTask] = "RUNNING"
  BY <1>1 DEF SwitchCall, States
<1>3. /\ \A t \in Task : state'[t] = st[t] \/ (st[t] = "SLEEP_TIMER" /\ state'[t] = "READY")
      /\ state' \in [Task -> States] /\ walk' = "switch"
  BY <1>2 DEF SwitchCall, PsSwitchTask, States
<1>4. SystemTimer' \in 0..TimerPeriod
  BY <1>1 DEF SwitchCall, PsSwitchTask
<1>. QED BY <1>1, <1>2, <1>3, <1>4

LEMMA SwitchCallKeeps ==
  ASSUME TypeOK, Listing, Current, NEW st, SwitchCall(st)
  PROVE  Listing' /\ Current'
<1>0. /\ state' \in [Task -> States] /\ walk' = "switch" /\ walk = "user"
      /\ state[CurrentTask] = "RUNNING" /\ CurrentTask \in Task
      /\ \A t \in Task : t # CurrentTask =>
           state'[t] = state[t] \/ (state[t] = "SLEEP_TIMER" /\ state'[t] = "READY")
      /\ state'[CurrentTask] \notin {"NONE", "GONE"}
      /\ CurrentTask = Idle => state'[CurrentTask] = "RUNNING"
      /\ UNCHANGED <<TaskList, MaxUsedProc, CurrentTaskNum, CurrentTask, target>>
  BY SwitchCallState DEF SwitchCall
<1>1. Listing'
  <2>1. \A t \in Task : state'[t] = state[t] \/ t = CurrentTask
                        \/ (state[t] = "SLEEP_TIMER" /\ state'[t] = "READY")
    BY <1>0
  <2>2. Listed(CurrentTask)
    BY DEF Current
  <2>. QED BY <1>0, <2>1, <2>2, ListingFrame
<1>2. Current'
  <2>1. state'[Idle] \in {"READY", "RUNNING"}
    BY <1>0, Constants DEF Current
  <2>2. \A t \in Task : state'[t] = "RUNNING" => t = CurrentTask
    BY <1>0 DEF Current
  <2>3. TaskList[CurrentTaskNum] = CurrentTask /\ CurrentTaskNum \in Slot
    BY <1>0 DEF Current, TypeOK
  <2>4. CurrentTaskNum =< CurrentTaskNum
    BY <2>3, Constants
  <2>. QED BY <1>0, <2>1, <2>2, <2>3, <2>4 DEF Current, Listed
<1>. QED BY <1>1, <1>2

-----------------------------------------------------------------------------
(* The walk. *)

LEMMA NextSlotInRange ==
  ASSUME TypeOK
  PROVE  /\ NextSlot \in Slot
         /\ NextSlot # 0 => NextSlot = CurrentTaskNum + 1
         /\ NextSlot # 0 => \A i \in Slot : i =< CurrentTaskNum => i =< NextSlot /\ i # NextSlot
BY Constants DEF TypeOK, NextSlot, Slot

LEMMA YieldedState ==
  ASSUME TypeOK, Current
  PROVE  /\ Yielded \in [Task -> States]
         /\ \A t \in Task : /\ Yielded[t] # "RUNNING"
                            /\ state[t] # "RUNNING" => Yielded[t] = state[t]
                            /\ state[t] = "RUNNING" => Yielded[t] = "READY"
         /\ Yielded[Idle] = "READY"
BY Constants DEF TypeOK, Current, Yielded, States

\* Slot 0 stops the walk, so a slot that does not lies behind the one just left;
\* and the thread in it is not the one the kernel is still running on.
LEMMA WalkForward ==
  ASSUME TypeOK, Listing, Current, walk = "switch",
         TaskList[NextSlot] # None => Yielded[TaskList[NextSlot]] # "READY"
  PROVE  /\ NextSlot \in Slot /\ NextSlot # 0
         /\ CurrentTask # Idle =>
              \E i \in Slot : i =< NextSlot /\ i # NextSlot /\ TaskList[i] = CurrentTask
<1>1. NextSlot \in Slot /\ Yielded[Idle] = "READY" /\ TaskList[0] = Idle /\ Idle # None
  BY NextSlotInRange, YieldedState, Constants DEF Listing
<1>2. NextSlot # 0
  BY <1>1
<1>. QED BY <1>1, <1>2, NextSlotInRange DEF Current

LEMMA SkipKeeps ==
  ASSUME TypeOK, Listing, Current, SwitchSkip
  PROVE  TypeOK' /\ Listing' /\ Current'
<1>1. /\ walk = "switch" /\ walk' = "switch" /\ state' = Yielded /\ CurrentTaskNum' = NextSlot
      /\ TaskList[NextSlot] # None => Yielded[TaskList[NextSlot]] \notin {"DEAD", "READY"}
      /\ UNCHANGED <<TaskList, MaxUsedProc, CurrentTask, SystemTimer, target, irq,
                     irq_task_map, masked, pending, inservice, eoi>>
  BY DEF SwitchSkip, taskVars, irqVars, eoiVars
<1>2. /\ NextSlot \in Slot
      /\ CurrentTask # Idle =>
           \E i \in Slot : i =< NextSlot /\ i # NextSlot /\ TaskList[i] = CurrentTask
  BY <1>1, WalkForward
<1>3. TypeOK'
  BY <1>1, <1>2, YieldedState DEF TypeOK, States
<1>4. Listing'
  BY <1>1, YieldedState, ListingFrame
<1>5. Current'
  BY <1>1, <1>2, YieldedState, Constants DEF Current, Listed
<1>. QED BY <1>3, <1>4, <1>5

\* The dead thread that is cleaned up is neither idle nor current.
LEMMA ReapKeeps ==
  ASSUME TypeOK, Listing, Current, SwitchReap
  PROVE  TypeOK' /\ Listing' /\ Current'
<1>. DEFINE d == TaskList[NextSlot]
<1>1. /\ walk = "switch" /\ walk' = "switch" /\ CurrentTaskNum' = NextSlot
      /\ d # None /\ Yielded[d] = "DEAD" /\ state' = [Yielded EXCEPT ![d] = "GONE"]
      /\ PsRemoveTaskFromQueue(d)
      /\ UNCHANGED <<CurrentTask, SystemTimer, target, irq,
                     irq_task_map, masked, pending, inservice, eoi>>
  BY DEF SwitchReap, irqVars, eoiVars
<1>2. /\ NextSlot \in Slot /\ NextSlot # 0
      /\ CurrentTask # Idle =>
           \E i \in Slot : i =< NextSlot /\ i # NextSlot /\ TaskList[i] = CurrentTask
  BY <1>1, WalkForward
<1>3. d \in Task /\ d # Idle /\ d # CurrentTask
  <2>1. d \in Task /\ Yielded[Idle] = "READY"
    BY <1>1, <1>2, YieldedState DEF TypeOK
  <2>. QED BY <1>1, <1>2, <2>1 DEF Listing
<1>4. /\ TaskList' = [TaskList EXCEPT ![NextSlot] = None]
      /\ MaxUsedProc' = IF NextSlot = MaxUsedProc THEN MaxUsedProc - 1 ELSE MaxUsedProc
  <2>1. SlotOf(d) = NextSlot
    BY <1>1, <1>2 DEF SlotOf, Listing
  <2>. QED BY <1>1, <2>1 DEF PsRemoveTaskFromQueue
<1>5. /\ state' \in [Task -> States]
      /\ state'[d] = "GONE" /\ \A t \in Task : t # d => state'[t] = Yielded[t]
  BY <1>1, <1>3, YieldedState DEF States
<1>6. TypeOK'
  <2>1. MaxUsedProc' \in Slot
    BY <1>2, <1>4, Constants DEF TypeOK, Slot
  <2>2. TaskList' \in [Slot -> Task \cup {None}]
    BY <1>2, <1>4 DEF TypeOK
  <2>. QED BY <1>1, <1>2, <1>5, <2>1, <2>2 DEF TypeOK, States
<1>7. Listing'
  <2>1. \A i \in Slot : TaskList'[i] = IF i = NextSlot THEN None ELSE TaskList[i]
    BY <1>2, <1>4 DEF TypeOK
  <2>2. \A i \in Slot : i # NextSlot /\ TaskList[i] # None => TaskList[i] \in Task /\ TaskList[i] # d
    BY <1>1, <1>2 DEF Listing, TypeOK
  <2>3. \A t \in Task : t # d /\ Listed(t) => Listed(t)'
    BY <2>1 DEF Listed
  <2>4. \A i, j \in Slot : TaskList'[i] = TaskList'[j] /\ TaskList'[i] # None => i = j
    BY <2>1 DEF Listing
  <2>5. \A i \in Slot : TaskList'[i] # None => state'[TaskList'[i]] \notin {"NONE", "GONE"}
    BY <1>5, <2>1, <2>2, YieldedState DEF Listing
  <2>6. \A t \in Task : state'[t] \notin {"NONE", "GONE", "READY"} => Listed(t)'
    BY <1>5, <2>3, YieldedState DEF Listing
  <2>7. SlotsCovered'
    <3>1. \A i \in Slot : TaskList'[i] # None => i =< MaxUsedProc /\ i # NextSlot
      BY <2>1 DEF Listing, SlotsCovered
    <3>2. MaxUsedProc \in Int /\ Slot \subseteq Int
      BY Constants DEF TypeOK
    <3>3. \A i \in Slot : TaskList'[i] # None => i =< MaxUsedProc'
      BY <1>4, <3>1, <3>2
    <3>. QED BY <3>3 DEF SlotsCovered
  <2>8. TaskList'[0] = Idle
    BY <1>2, <2>1, Constants DEF Listing
  <2>. QED BY <2>4, <2>5, <2>6, <2>7, <2>8 DEF Listing
<1>8. Current'
  <2>1. \A i \in Slot : i # NextSlot => TaskList'[i] = TaskList[i]
    BY <1>2, <1>4 DEF TypeOK
  <2>2. CurrentTask # Idle => \E i \in Slot : i =< NextSlot /\ TaskList'[i] = CurrentTask
    BY <1>2, <2>1
  <2>3. TaskList'[0] = Idle
    BY <1>7 DEF Listing
  <2>4. Listed(CurrentTask)'
    BY <1>1, <2>2, <2>3, Constants DEF Listed
  <2>5. state'[Idle] = "READY" /\ \A t \in Task : state'[t] # "RUNNING"
    BY <1>3, <1>5, YieldedState, Constants
  <2>. QED BY <1>1, <2>2, <2>4, <2>5 DEF Current
<1>. QED BY <1>6, <1>7, <1>8

\* A thread is switched to, from either walk.
Picks(t) ==
  /\ t \in Task /\ TaskList[NextSlot] = t /\ Yielded[t] = "READY"
  /\ CurrentTaskNum' = NextSlot
  /\ state' = [Yielded EXCEPT ![t] = "RUNNING"]
  /\ Resume(t)
  /\ UNCHANGED <<TaskList, MaxUsedProc, SystemTimer, target, irq, irq_task_map, masked, pending>>

LEMMA PickIsPicks ==
  ASSUME TypeOK, Listing, Current, SwitchPick \/ PreemptPick
  PROVE  \E t \in Task : Picks(t)
<1>1. NextSlot \in Slot
  BY NextSlotInRange
<1>2. CASE SwitchPick
  <2>1. TaskList[NextSlot] \in Task
    BY <1>1, <1>2 DEF SwitchPick, TypeOK
  <2>. QED BY <1>2, <2>1 DEF SwitchPick, Picks, taskVars, irqVars
<1>3. CASE PreemptPick
  <2>1. target \in Task /\ Yielded[target] = "READY"
    BY <1>3, YieldedState DEF PreemptPick, Current, TypeOK
  <2>. QED BY <1>3, <2>1 DEF PreemptPick, Picks, taskVars, irqVars
<1>. QED BY <1>2, <1>3

LEMMA PickKeeps ==
  ASSUME TypeOK, Listing, Current, NEW t \in Task, Picks(t)
  PROVE  TypeOK' /\ Listing' /\ Current'
<1>1. /\ NextSlot \in Slot /\ TaskList[NextSlot] = t /\ Yielded[t] = "READY"
      /\ CurrentTask' = t /\ walk' = "user" /\ CurrentTaskNum' = NextSlot
      /\ inservice' \subseteq inservice /\ eoi' \subseteq eoi
      /\ UNCHANGED <<TaskList, MaxUsedProc, SystemTimer, target, irq, irq_task_map, masked, pending>>
  BY NextSlotInRange DEF Picks, Resume, Eoi
<1>2. /\ state' \in [Task -> States] /\ state'[t] = "RUNNING"
      /\ \A u \in Task : u # t => state'[u] = Yielded[u]
  BY YieldedState DEF Picks, States
<1>3. TypeOK'
  BY <1>1, <1>2 DEF TypeOK, States
<1>4. Listed(t)
  BY <1>1 DEF Listed
<1>5. state[t] \notin {"NONE", "GONE"}
  BY <1>1, YieldedState
<1>6. Listing'
  BY <1>1, <1>2, <1>4, <1>5, YieldedState, ListingFrame
<1>7. Current'
  <2>1. state'[Idle] \in {"READY", "RUNNING"}
    BY <1>2, YieldedState, Constants
  <2>2. \A u \in Task : state'[u] = "RUNNING" => u = t
    BY <1>2, YieldedState
  <2>. QED BY <1>1, <1>2, <1>4, <2>1, <2>2 DEF Current, Listed
<1>. QED BY <1>3, <1>6, <1>7

-----------------------------------------------------------------------------
(* The interrupt masks and the in-service bits along the walk. *)

LEMMA WalkLines ==
  ASSUME TypeOK, Listing, Current, Lines,
         SwitchSkip \/ SwitchReap \/ PreemptSkip \/ \E t \in Task : Picks(t)
  PROVE  Lines'
<1>1. /\ UNCHANGED <<irq, irq_task_map, masked>>
      /\ \A t \in Task : \/ state'[t] \in {state[t], Yielded[t]}
                         \/ state'[t] = "RUNNING" /\ Yielded[t] = "READY"
                         \/ state'[t] = "GONE" /\ Yielded[t] = "DEAD"
  <2>1. CASE SwitchSkip
    BY <2>1 DEF SwitchSkip, irqVars
  <2>2. CASE SwitchReap
    BY <2>2, YieldedState DEF SwitchReap, irqVars
  <2>3. CASE PreemptSkip
    BY <2>3 DEF PreemptSkip, irqVars
  <2>4. CASE \E t \in Task : Picks(t)
    BY <2>4, YieldedState DEF Picks
  <2>. QED BY <2>1, <2>2, <2>3, <2>4
<1>2. \A t \in Task : state[t] \in States
  BY DEF TypeOK, States
<1>3. \A t \in Task : /\ state[t] = "SLEEP_IRQ" => state'[t] = "SLEEP_IRQ"
                      /\ state[t] \in Ended => state'[t] \in Ended
                      /\ state'[t] = "NONE" => state[t] = "NONE"
  BY <1>1, <1>2, YieldedState DEF Ended, States
<1>. QED BY <1>1, <1>3, LinesFrame

LEMMA WalkFrames ==
  ASSUME TypeOK, Listing, Current, Frames, SwitchSkip \/ SwitchReap \/ PreemptSkip
  PROVE  Frames'
<1>1. /\ UNCHANGED <<inservice, eoi, CurrentTask>> /\ walk' = walk
  BY DEF SwitchSkip, SwitchReap, PreemptSkip, eoiVars
<1>2. \A t \in Task : state[t] = "READY" => state'[t] = "READY"
  <2>1. CASE SwitchSkip
    BY <2>1, YieldedState DEF SwitchSkip
  <2>2. CASE SwitchReap
    BY <2>2, YieldedState DEF SwitchReap
  <2>3. CASE PreemptSkip
    BY <2>3 DEF PreemptSkip
  <2>. QED BY <2>1, <2>2, <2>3
<1>. QED BY <1>1, <1>2, FramesFrame

\* An interrupted thread that resumes leaves with one line of the controller.
LEMMA PickFrames ==
  ASSUME TypeOK, Listing, Current, Frames, NEW t \in Task, Picks(t)
  PROVE  Frames'
<1>1. /\ CurrentTask' = t /\ walk' = "user" /\ eoi' = eoi \ {t}
      /\ IF t \in eoi THEN Eoi ELSE UNCHANGED inservice
  BY DEF Picks, Resume
<1>2. \A u \in eoi' : state'[u] = "READY"
  <2>1. \A u \in eoi : u \in Task /\ Yielded[u] = "READY"
    BY YieldedState DEF Frames, TypeOK, Current
  <2>2. \A u \in Task : u # t => state'[u] = Yielded[u]
    BY YieldedState DEF Picks
  <2>. QED BY <1>1, <2>1, <2>2
<1>3. IsFiniteSet(inservice') /\ IsFiniteSet(eoi') /\ EoiBalanced'
  <2>1. CASE t \in eoi
    <3>1. PICK n \in inservice : inservice' = inservice \ {n}
      BY <1>1, <2>1 DEF Eoi
    <3>2. /\ IsFiniteSet(inservice \ {n})
          /\ Cardinality(inservice \ {n}) = Cardinality(inservice) - 1
      BY FS_RemoveElement DEF Frames
    <3>3. /\ IsFiniteSet(eoi \ {t})
          /\ Cardinality(eoi \ {t}) = Cardinality(eoi) - 1
      BY <2>1, FS_RemoveElement DEF Frames
    <3>. QED BY <1>1, <3>1, <3>2, <3>3 DEF Frames, EoiBalanced
  <2>2. CASE t \notin eoi
    <3>1. eoi' = eoi /\ inservice' = inservice
      BY <1>1, <2>2
    <3>. QED BY <3>1 DEF Frames, EoiBalanced
  <2>. QED BY <2>1, <2>2
<1>. QED BY <1>1, <1>2, <1>3 DEF Frames

LEMMA WalkKeeps ==
  ASSUME SchedInv, Walk
  PROVE  SchedInv'
<1>0. TypeOK /\ Listing /\ Current /\ Lines /\ Frames
  BY DEF SchedInv
<1>1. CASE SwitchSkip
  BY <1>0, <1>1, SkipKeeps, WalkLines, WalkFrames DEF SchedInv
<1>2. CASE SwitchReap
  BY <1>0, <1>2, ReapKeeps, WalkLines, WalkFrames DEF SchedInv
<1>3. CASE SwitchPick \/ PreemptPick
  <2>1. PICK t \in Task : Picks(t)
    BY <1>0, <1>3, PickIsPicks
  <2>2. TypeOK' /\ Listing' /\ Current'
    BY <1>0, <2>1, PickKeeps
  <2>3. Frames'
    BY <1>0, <2>1, PickFrames
  <2>. QED BY <1>0, <2>1, <2>2, <2>3, WalkLines DEF SchedInv
<1>4. CASE PreemptSkip
  <2>1. /\ walk = "preempt" /\ CurrentTaskNum' = NextSlot /\ NextSlot \in Slot
        /\ UNCHANGED <<TaskList, MaxUsedProc, CurrentTask, SystemTimer, walk, target, state,
                       irq, irq_task_map, masked, pending, inservice, eoi>>
    BY <1>0, <1>4, NextSlotInRange DEF PreemptSkip, taskVars, irqVars, eoiVars
  <2>2. TypeOK'
    BY <1>0, <2>1 DEF TypeOK
  <2>3. Listing'
    BY <1>0, <2>1, ListingFrame
  <2>4. Current'
    BY <1>0, <2>1 DEF Current, Listed
  <2>. QED BY <1>0, <1>4, <2>2, <2>3, <2>4, WalkLines, WalkFrames DEF SchedInv
<1>. QED BY <1>1, <1>2, <1>3, <1>4 DEF Walk

-----------------------------------------------------------------------------
(* System calls and the timer. *)

\* Calls that leave interrupts alone.
PlainCall ==
  \/ timer_irq
  \/ \E t \in Task : ScWait(t) \/ ScSleep(t) \/ Block(t) \/ PsTerminateTask(t)

LEMMA PlainCallKeeps ==
  ASSUME SchedInv, PlainCall
  PROVE  SchedInv'
<1>0. TypeOK /\ Listing /\ Current /\ Lines /\ Frames
  BY DEF SchedInv
<1>1. /\ UNCHANGED <<TaskList, MaxUsedProc, CurrentTaskNum, CurrentTask, target, irq, irq_task_map,
                     masked, pending, inservice, eoi>>
      /\ \E st : SwitchCall(st)
  BY DEF PlainCall, timer_irq, ScWait, ScSleep, Block, PsTerminateTask, GiveUp, Calling,
         SwitchCall, taskVars, irqVars, eoiVars
<1>2. PICK st : SwitchCall(st)
  BY <1>1
<1>3. Listing' /\ Current'
  BY <1>0, <1>2, SwitchCallKeeps
<1>4. /\ state' \in [Task -> States]
      /\ SystemTimer' \in 0..TimerPeriod /\ walk' = "switch" /\ walk = "user"
      /\ state[CurrentTask] = "RUNNING" /\ CurrentTask \in Task
      /\ \A t \in Task : t # CurrentTask =>
           state'[t] = state[t] \/ (state[t] = "SLEEP_TIMER" /\ state'[t] = "READY")
      /\ state'[CurrentTask] \notin {"NONE", "GONE"}
  BY <1>0, <1>2, SwitchCallState DEF SwitchCall
<1>5. TypeOK'
  BY <1>0, <1>1, <1>4 DEF TypeOK, States
<1>6. \A t \in Task : /\ state[t] = "SLEEP_IRQ" => state'[t] = "SLEEP_IRQ"
                      /\ state[t] \in Ended => state'[t] \in Ended
                      /\ state'[t] = "NONE" => state[t] = "NONE"
                      /\ state[t] = "READY" => state'[t] = "READY"
  BY <1>4 DEF Ended
<1>7. Lines'
  BY <1>0, <1>1, <1>6, LinesFrame
<1>8. Frames'
  BY <1>0, <1>1, <1>4, <1>6, FramesFrame
<1>. QED BY <1>3, <1>5, <1>7, <1>8 DEF SchedInv

\* Only one task registers for a line, so the line it takes over is masked.
LEMMA ScHandleIRQKeeps ==
  ASSUME Disciplined, SchedInv, NEW t \in Task, NEW n \in Irq, ScHandleIRQ(t, n)
  PROVE  SchedInv'
<1>0. TypeOK /\ Listing /\ Current /\ Lines /\ Frames
  BY DEF SchedInv
<1>1. /\ UNCHANGED <<TaskList, MaxUsedProc, CurrentTaskNum, CurrentTask, target, masked, pending,
                     inservice, eoi>>
      /\ irq' = [irq EXCEPT ![t] = n] /\ irq_task_map' = [irq_task_map EXCEPT ![n] = t]
      /\ irq[t] \in {0, n} /\ \A u \in Task \ {t} : irq[u] = n => state[u] \in Ended
      /\ CurrentTask = t /\ SwitchCall(state)
  BY DEF ScHandleIRQ, GiveUp, Calling, SwitchCall, taskVars, eoiVars
<1>3. Listing' /\ Current'
  BY <1>0, <1>1, SwitchCallKeeps
<1>4. /\ state' \in [Task -> States]
      /\ SystemTimer' \in 0..TimerPeriod /\ walk' = "switch" /\ walk = "user"
      /\ state[t] = "RUNNING"
      /\ \A u \in Task : u # t =>
           state'[u] = state[u] \/ (state[u] = "SLEEP_TIMER" /\ state'[u] = "READY")
      /\ state'[t] \notin {"NONE", "GONE"}
  BY <1>0, <1>1, SwitchCallState DEF SwitchCall
<1>5. irq \in [Task -> {0} \cup Irq] /\ irq_task_map \in [Irq -> Task \cup {None}]
  BY <1>0 DEF TypeOK
<1>6. TypeOK'
  <2>1. irq' \in [Task -> {0} \cup Irq] /\ irq_task_map' \in [Irq -> Task \cup {None}]
    BY <1>1, <1>5
  <2>. QED BY <1>0, <1>1, <1>4, <2>1 DEF TypeOK, States
<1>7. Lines'
  <2>1. \A u \in Task : u # t => irq'[u] = irq[u]
    BY <1>1, <1>5
  <2>2. \A m \in Irq : m # n => irq_task_map'[m] = irq_task_map[m]
    BY <1>1, <1>5
  <2>3. irq'[t] = n /\ irq_task_map'[n] = t
    BY <1>1, <1>5
  <2>4. \A u \in Task : /\ state[u] = "SLEEP_IRQ" => state'[u] = "SLEEP_IRQ"
                        /\ state[u] \in Ended => state'[u] \in Ended
                        /\ state'[u] = "NONE" => state[u] = "NONE"
    BY <1>4 DEF Ended
  <2>5. \A m \in Irq \ masked : irq_task_map[m] \in Task
    BY <1>0, <1>5 DEF Lines, UnmaskedHandlerAsleep
  <2>6. n \in masked
    <3>1. SUFFICES ASSUME n \notin masked PROVE FALSE
      OBVIOUS
    <3>2. /\ irq_task_map[n] \in Task /\ state[irq_task_map[n]] = "SLEEP_IRQ"
          /\ irq[irq_task_map[n]] = n
      BY <1>0, <2>5, <3>1 DEF Lines, UnmaskedHandlerAsleep
    <3>. QED BY <1>1, <1>4, <3>2 DEF Ended
  <2>7. UnmaskedHandlerAsleep'
    <3>1. SUFFICES ASSUME NEW m \in Irq, m \notin masked
                   PROVE  /\ irq_task_map'[m] # None /\ state'[irq_task_map'[m]] = "SLEEP_IRQ"
                          /\ irq'[irq_task_map'[m]] = m
      BY <1>1 DEF UnmaskedHandlerAsleep
    <3>2. m # n /\ irq_task_map'[m] = irq_task_map[m] /\ irq_task_map[m] \in Task
      BY <2>2, <2>5, <2>6, <3>1
    <3>3. irq_task_map[m] # None /\ state[irq_task_map[m]] = "SLEEP_IRQ" /\ irq[irq_task_map[m]] = m
      BY <1>0, <3>1 DEF Lines, UnmaskedHandlerAsleep
    <3>. QED BY <1>4, <2>1, <2>4, <3>2, <3>3
  <2>8. \A u \in Task : state'[u] \notin Ended /\ irq'[u] # 0 => irq_task_map'[irq'[u]] = u
    <3>1. SUFFICES ASSUME NEW u \in Task, u # t, state'[u] \notin Ended, irq'[u] # 0
                   PROVE  irq_task_map'[irq'[u]] = u
      BY <2>3
    <3>2. irq'[u] = irq[u] /\ irq[u] \in Irq /\ state[u] \notin Ended
      BY <1>5, <2>1, <2>4, <3>1
    <3>3. irq[u] # n /\ irq_task_map[irq[u]] = u
      BY <1>0, <1>1, <3>1, <3>2 DEF Lines
    <3>. QED BY <2>2, <3>2, <3>3
  <2>9. \A u \in Task : state'[u] = "NONE" => irq'[u] = 0
    BY <1>0, <1>4, <2>1, <2>4 DEF Lines
  <2>. QED BY <2>7, <2>8, <2>9 DEF Lines
<1>8. Frames'
  BY <1>0, <1>1, <1>4, FramesFrame
<1>. QED BY <1>3, <1>6, <1>7, <1>8 DEF SchedInv

\* The line that is unmasked is the sleeper's own.
LEMMA ScSleepIRQKeeps ==
  ASSUME SchedInv, NEW t \in Task, ScSleepIRQ(t)
  PROVE  SchedInv'
<1>0. TypeOK /\ Listing /\ Current /\ Lines /\ Frames
  BY DEF SchedInv
<1>. DEFINE st == IF irq[t] = 0 THEN state ELSE [state EXCEPT ![t] = "SLEEP_IRQ"]
<1>1. /\ UNCHANGED <<TaskList, MaxUsedProc, CurrentTaskNum, CurrentTask, target, irq, irq_task_map,
                     pending, inservice, eoi>>
      /\ masked' = masked \ {irq[t]}
      /\ CurrentTask = t /\ SwitchCall(st) /\ PsSwitchTask(st)
  BY DEF ScSleepIRQ, GiveUp, Calling, SwitchCall, taskVars, eoiVars
<1>2. irq[t] # 0 => state'[t] = "SLEEP_IRQ"
  BY <1>0, <1>1 DEF PsSwitchTask, TypeOK
<1>. HIDE DEF st
<1>3. Listing' /\ Current'
  BY <1>0, <1>1, SwitchCallKeeps
<1>4. /\ state' \in [Task -> States]
      /\ SystemTimer' \in 0..TimerPeriod /\ walk' = "switch" /\ walk = "user"
      /\ state[t] = "RUNNING"
      /\ \A u \in Task : u # t =>
           state'[u] = state[u] \/ (state[u] = "SLEEP_TIMER" /\ state'[u] = "READY")
      /\ state'[t] \notin {"NONE", "GONE"}
  BY <1>0, <1>1, SwitchCallState DEF SwitchCall
<1>5. irq \in [Task -> {0} \cup Irq] /\ irq_task_map \in [Irq -> Task \cup {None}]
  BY <1>0 DEF TypeOK
<1>6. TypeOK'
  BY <1>0, <1>1, <1>4 DEF TypeOK, States
<1>7. Lines'
  <2>1. \A u \in Task : /\ state[u] = "SLEEP_IRQ" => state'[u] = "SLEEP_IRQ"
                        /\ state[u] \in Ended => state'[u] \in Ended
                        /\ state'[u] = "NONE" => state[u] = "NONE"
    BY <1>4 DEF Ended
  <2>2. irq[t] # 0 => irq[t] \in Irq /\ irq_task_map[irq[t]] = t
    BY <1>0, <1>4, <1>5 DEF Lines, Ended
  <2>3. UnmaskedHandlerAsleep'
    <3>1. SUFFICES ASSUME NEW m \in Irq, m \notin masked'
                   PROVE  /\ irq_task_map[m] # None /\ state'[irq_task_map[m]] = "SLEEP_IRQ"
                          /\ irq[irq_task_map[m]] = m
      BY <1>1 DEF UnmaskedHandlerAsleep
    <3>2. CASE m = irq[t]
      BY <1>2, <2>2, <3>2, Constants
    <3>3. CASE m # irq[t]
      <4>1. m \notin masked
        BY <1>1, <3>1, <3>3
      <4>. QED BY <1>0, <1>5, <2>1, <4>1 DEF Lines, UnmaskedHandlerAsleep
    <3>. QED BY <3>2, <3>3
  <2>. QED BY <1>0, <1>1, <2>1, <2>3 DEF Lines
<1>8. Frames'
  BY <1>0, <1>1, <1>4, FramesFrame
<1>. QED BY <1>3, <1>6, <1>7, <1>8 DEF SchedInv

-----------------------------------------------------------------------------
(* Interrupts, messages and new threads. *)

LEMMA RaiseKeeps ==
  ASSUME SchedInv, NEW n \in Irq, Raise(n)
  PROVE  SchedInv'
<1>0. TypeOK /\ Listing /\ Current /\ Lines /\ Frames
  BY DEF SchedInv
<1>1. /\ pending' = pending \cup {n}
      /\ UNCHANGED <<TaskList, MaxUsedProc, CurrentTaskNum, CurrentTask, SystemTimer, walk, target,
                     state, irq, irq_task_map, masked, inservice, eoi>>
  BY DEF Raise, taskVars, eoiVars
<1>2. TypeOK'
  BY <1>0, <1>1 DEF TypeOK
<1>3. Listing'
  BY <1>0, <1>1, ListingFrame
<1>4. Current'
  BY <1>0, <1>1 DEF Current, Listed
<1>5. Lines'
  BY <1>0, <1>1, LinesFrame
<1>6. Frames'
  BY <1>0, <1>1, FramesFrame
<1>. QED BY <1>2, <1>3, <1>4, <1>5, <1>6 DEF SchedInv

\* A line that is not masked has a handler, and it is asleep on that line.
LEMMA DeliverableHandled ==
  ASSUME TypeOK, Lines, NEW n \in Irq, Deliverable(n)
  PROVE  /\ Handler(n) = irq_task_map[n] /\ Handler(n) \in Task /\ Handler(n) # None
         /\ state[Handler(n)] = "SLEEP_IRQ" /\ irq[Handler(n)] = n
<1>1. n \in Irq \ masked
  BY DEF Deliverable
<1>2. /\ irq_task_map[n] # None /\ state[irq_task_map[n]] = "SLEEP_IRQ"
      /\ irq[irq_task_map[n]] = n /\ irq_task_map[n] \in Task
  BY <1>1 DEF Lines, UnmaskedHandlerAsleep, TypeOK
<1>. QED BY <1>2 DEF Handler

LEMMA irq_dispatchKeeps ==
  ASSUME SchedInv, NEW n \in Irq, irq_dispatch(n)
  PROVE  SchedInv'
<1>0. TypeOK /\ Listing /\ Current /\ Lines /\ Frames
  BY DEF SchedInv
<1>. DEFINE h == Handler(n)
<1>1. /\ h = irq_task_map[n] /\ h \in Task /\ h # None /\ state[h] = "SLEEP_IRQ" /\ irq[h] = n
  BY <1>0, DeliverableHandled DEF irq_dispatch
<1>2. /\ walk = "user" /\ \A k \in inservice : n < k
      /\ pending' = pending \ {n} /\ masked' = masked \cup {n}
      /\ state' = [state EXCEPT ![h] = "READY"] /\ walk' = "preempt" /\ target' = h
      /\ inservice' = inservice \cup {n} /\ eoi' = eoi \cup {CurrentTask}
      /\ UNCHANGED <<TaskList, MaxUsedProc, CurrentTaskNum, CurrentTask, SystemTimer, irq,
                     irq_task_map>>
  BY <1>1 DEF irq_dispatch, Deliverable, Mask, PsPreemptTask, taskVars
<1>. HIDE DEF h
<1>3. /\ state' \in [Task -> States] /\ state'[h] = "READY"
      /\ \A t \in Task : t # h => state'[t] = state[t]
      /\ CurrentTask \in Task /\ state[CurrentTask] = "RUNNING"
  BY <1>0, <1>1, <1>2 DEF TypeOK, States, Current
<1>4. TypeOK'
  BY <1>0, <1>1, <1>2, <1>3 DEF TypeOK, States
<1>5. Listing'
  <2>1. \A t \in Task : \/ state'[t] = state[t]
                        \/ state[t] \notin {"NONE", "GONE"} /\ state'[t] = "READY"
    BY <1>1, <1>3
  <2>. QED BY <1>0, <1>2, <2>1, ListingFrame
<1>6. Current'
  <2>1. Listed(h)
    BY <1>0, <1>1 DEF Listing
  <2>2. h # CurrentTask /\ h # Idle
    BY <1>0, <1>1, <1>3 DEF Current
  <2>. QED BY <1>0, <1>2, <1>3, <2>1, <2>2, Constants DEF Current, Listed
<1>7. Lines'
  <2>1. UnmaskedHandlerAsleep'
    <3>1. SUFFICES ASSUME NEW m \in Irq, m \notin masked, m # n
                   PROVE  /\ irq_task_map[m] # None /\ state'[irq_task_map[m]] = "SLEEP_IRQ"
                          /\ irq[irq_task_map[m]] = m
      BY <1>2 DEF UnmaskedHandlerAsleep
    <3>2. /\ irq_task_map[m] \in Task /\ irq_task_map[m] # None
          /\ state[irq_task_map[m]] = "SLEEP_IRQ" /\ irq[irq_task_map[m]] = m
      BY <1>0, <3>1 DEF Lines, UnmaskedHandlerAsleep, TypeOK
    <3>. QED BY <1>1, <1>3, <3>1, <3>2
  <2>2. \A t \in Task : /\ state'[t] \notin Ended => state[t] \notin Ended
                        /\ state'[t] = "NONE" => state[t] = "NONE"
    BY <1>1, <1>3 DEF Ended
  <2>. QED BY <1>0, <1>2, <2>1, <2>2 DEF Lines
<1>8. Frames'
  <2>1. \A t \in eoi : state'[t] = "READY"
    BY <1>0, <1>1, <1>2, <1>3 DEF Frames, TypeOK
  <2>2. CurrentTask \notin eoi
    BY <1>0, <1>2 DEF Frames
  <2>3. n \notin inservice
    BY <1>2, Constants
  <2>4. /\ IsFiniteSet(inservice') /\ Cardinality(inservice') = Cardinality(inservice) + 1
    BY <1>0, <1>2, <2>3, FS_AddElement DEF Frames
  <2>5. /\ IsFiniteSet(eoi') /\ Cardinality(eoi') = Cardinality(eoi) + 1
    BY <1>0, <1>2, <2>2, FS_AddElement DEF Frames
  <2>6. EoiBalanced'
    BY <1>0, <2>4, <2>5 DEF Frames, EoiBalanced
  <2>. QED BY <1>2, <2>1, <2>4, <2>5, <2>6 DEF Frames
<1>. QED BY <1>4, <1>5, <1>6, <1>7, <1>8 DEF SchedInv

LEMMA WakeKeeps ==
  ASSUME SchedInv, NEW t \in Task, NEW u \in Task, Wake(t, u)
  PROVE  SchedInv'
<1>0. TypeOK /\ Listing /\ Current /\ Lines /\ Frames
  BY DEF SchedInv
<1>1. /\ state[u] = "BLOCKED" /\ state' = [state EXCEPT ![u] = "READY"] /\ walk = "user"
      /\ UNCHANGED <<TaskList, MaxUsedProc, CurrentTaskNum, CurrentTask, SystemTimer, walk, target,
                     irq, irq_task_map, masked, pending, inservice, eoi>>
  BY DEF Wake, Calling, taskVars, irqVars, eoiVars
<1>2. /\ state' \in [Task -> States] /\ state'[u] = "READY"
      /\ \A v \in Task : v # u => state'[v] = state[v]
  BY <1>0, <1>1 DEF TypeOK, States
<1>3. TypeOK'
  BY <1>0, <1>1, <1>2 DEF TypeOK, States
<1>4. \A v \in Task : state'[v] = state[v] \/ (state[v] = "BLOCKED" /\ state'[v] = "READY")
  BY <1>1, <1>2
<1>5. Listing'
  BY <1>0, <1>1, <1>4, ListingFrame
<1>6. Current'
  <2>1. CurrentTask \in Task /\ state[CurrentTask] = "RUNNING"
    BY <1>0, <1>1 DEF Current, TypeOK
  <2>2. CurrentTask # u /\ Idle # u
    BY <1>0, <1>1, <2>1 DEF Current
  <2>. QED BY <1>0, <1>1, <1>2, <2>1, <2>2, Constants DEF Current, Listed
<1>7. Lines'
  BY <1>0, <1>1, <1>4, LinesFrame DEF Ended
<1>8. Frames'
  BY <1>0, <1>1, <1>4, FramesFrame
<1>. QED BY <1>3, <1>5, <1>6, <1>7, <1>8 DEF SchedInv

\* The new thread takes the first empty slot, or none.
LEMMA PsAddTaskToQueueKeeps ==
  ASSUME SchedInv, NEW u \in Task, state[u] = "NONE", PsAddTaskToQueue(u),
         state' = [state EXCEPT ![u] = "READY"]
  PROVE  /\ TaskList' \in [Slot -> Task \cup {None}] /\ MaxUsedProc' \in Slot
         /\ \A i \in Slot : TaskList[i] # None => TaskList'[i] = TaskList[i]
         /\ Listing'
<1>0. TypeOK /\ Listing
  BY DEF SchedInv
<1>1. /\ state' \in [Task -> States] /\ state'[u] = "READY"
      /\ \A v \in Task : v # u => state'[v] = state[v]
  BY <1>0 DEF TypeOK, States
<1>2. \A i \in Slot : TaskList[i] # None => TaskList[i] \in Task /\ TaskList[i] # u
  BY <1>0 DEF TypeOK, Listing
<1>3. CASE \E i \in Slot : TaskList[i] = None
  <2>1. PICK i \in Slot : /\ TaskList[i] = None /\ TaskList' = [TaskList EXCEPT ![i] = u]
                          /\ MaxUsedProc' = IF i > MaxUsedProc THEN i ELSE MaxUsedProc
    BY <1>3 DEF PsAddTaskToQueue, FirstEmpty
  <2>2. \A j \in Slot : TaskList'[j] = IF j = i THEN u ELSE TaskList[j]
    BY <1>0, <2>1 DEF TypeOK
  <2>3. TaskList' \in [Slot -> Task \cup {None}] /\ MaxUsedProc' \in Slot
    BY <1>0, <2>1 DEF TypeOK
  <2>4. \A j \in Slot : TaskList[j] # None => TaskList'[j] = TaskList[j]
    BY <2>1, <2>2
  <2>5. \A j, k \in Slot : TaskList'[j] = TaskList'[k] /\ TaskList'[j] # None => j = k
    BY <1>0, <1>2, <2>2, Constants DEF Listing
  <2>6. \A j \in Slot : TaskList'[j] # None => state'[TaskList'[j]] \notin {"NONE", "GONE"}
    BY <1>0, <1>1, <1>2, <2>2 DEF Listing
  <2>7. \A v \in Task : Listed(v) => Listed(v)'
    BY <2>4, Constants DEF Listed
  <2>8. \A v \in Task : state'[v] \notin {"NONE", "GONE", "READY"} => Listed(v)'
    BY <1>0, <1>1, <2>7 DEF Listing
  <2>9. TaskList'[0] = Idle
    BY <1>0, <2>4, Constants DEF Listing
  <2>10. SlotsCovered'
    <3>1. \A j \in Slot : TaskList'[j] # None => j = i \/ j =< MaxUsedProc
      BY <1>0, <2>2 DEF Listing, SlotsCovered
    <3>2. MaxUsedProc \in Int /\ i \in Int /\ Slot \subseteq Int
      BY <1>0, Constants DEF TypeOK
    <3>3. \A j \in Slot : TaskList'[j] # None => j =< MaxUsedProc'
      BY <2>1, <3>1, <3>2
    <3>. QED BY <3>3 DEF SlotsCovered
  <2>. QED BY <2>3, <2>4, <2>5, <2>6, <2>8, <2>9, <2>10 DEF Listing
<1>4. CASE ~ \E i \in Slot : TaskList[i] = None
  <2>1. UNCHANGED <<TaskList, MaxUsedProc>>
    BY <1>4 DEF PsAddTaskToQueue, taskVars
  <2>2. \A v \in Task : Listed(v)' <=> Listed(v)
    BY <2>1 DEF Listed
  <2>3. Listing'
    BY <1>0, <1>1, <1>2, <2>1, <2>2 DEF Listing, SlotsCovered
  <2>. QED BY <1>0, <2>1, <2>3 DEF TypeOK
<1>. QED BY <1>3, <1>4

LEMMA HandoffKeeps ==
  ASSUME SchedInv, NEW t \in Task, NEW u \in Task, Handoff(t, u)
  PROVE  SchedInv'
<1>0. TypeOK /\ Listing /\ Current /\ Lines /\ Frames
  BY DEF SchedInv
<1>1. /\ state[u] = "BLOCKED" /\ state' = [state EXCEPT ![u] = "READY"]
      /\ walk = "user" /\ walk' = "preempt" /\ target' = u
      /\ UNCHANGED <<TaskList, MaxUsedProc, CurrentTaskNum, CurrentTask, SystemTimer,
                     irq, irq_task_map, masked, pending, inservice, eoi>>
  BY DEF Handoff, Calling, PsPreemptTask, taskVars, irqVars, eoiVars
<1>2. /\ state' \in [Task -> States] /\ state'[u] = "READY"
      /\ \A v \in Task : v # u => state'[v] = state[v]
      /\ CurrentTask \in Task /\ state[CurrentTask] = "RUNNING"
  BY <1>0, <1>1 DEF TypeOK, States, Current
<1>3. TypeOK'
  BY <1>0, <1>1, <1>2 DEF TypeOK, States
<1>4. \A v \in Task : state'[v] = state[v] \/ (state[v] = "BLOCKED" /\ state'[v] = "READY")
  BY <1>1, <1>2
<1>5. Listing'
  BY <1>0, <1>1, <1>4, ListingFrame
<1>6. Current'
  <2>1. Listed(u)
    BY <1>0, <1>1 DEF Listing
  <2>2. u # CurrentTask /\ u # Idle
    BY <1>0, <1>1, <1>2 DEF Current
  <2>. QED BY <1>0, <1>1, <1>2, <2>1, <2>2, Constants DEF Current, Listed
<1>7. Lines'
  BY <1>0, <1>1, <1>4, LinesFrame DEF Ended
<1>8. Frames'
  <2>1. \A v \in eoi : state'[v] = "READY"
    BY <1>0, <1>1, <1>4 DEF Frames, TypeOK
  <2>. QED BY <1>0, <1>1, <2>1 DEF Frames, EoiBalanced
<1>. QED BY <1>3, <1>5, <1>6, <1>7, <1>8 DEF SchedInv

LEMMA PsCreateNewTaskKeeps ==
  ASSUME SchedInv, NEW t \in Task, NEW u \in Task, PsCreateNewTask(t, u)
  PROVE  SchedInv'
<1>0. TypeOK /\ Listing /\ Current /\ Lines /\ Frames
  BY DEF SchedInv
<1>1. /\ state[u] = "NONE" /\ state' = [state EXCEPT ![u] = "READY"] /\ walk = "user"
      /\ PsAddTaskToQueue(u)
      /\ UNCHANGED <<CurrentTaskNum, CurrentTask, SystemTimer, walk, target,
                     irq, irq_task_map, masked, pending, inservice, eoi>>
  BY DEF PsCreateNewTask, Calling, irqVars, eoiVars
<1>2. /\ TaskList' \in [Slot -> Task \cup {None}] /\ MaxUsedProc' \in Slot
      /\ \A i \in Slot : TaskList[i] # None => TaskList'[i] = TaskList[i]
      /\ Listing'
  BY <1>1, PsAddTaskToQueueKeeps
<1>3. /\ state' \in [Task -> States] /\ state'[u] = "READY"
      /\ \A v \in Task : v # u => state'[v] = state[v]
  BY <1>0, <1>1 DEF TypeOK, States
<1>4. TypeOK'
  BY <1>0, <1>1, <1>2, <1>3 DEF TypeOK, States
<1>5. Current'
  <2>1. /\ CurrentTask \in Task /\ state[CurrentTask] = "RUNNING" /\ CurrentTask # u /\ Idle # u
        /\ TaskList[CurrentTaskNum] = CurrentTask /\ CurrentTaskNum \in Slot
    BY <1>0, <1>1 DEF Current, TypeOK
  <2>2. TaskList'[CurrentTaskNum] = CurrentTask
    BY <1>2, <2>1, Constants
  <2>3. Listed(CurrentTask)'
    BY <1>1, <2>1, <2>2 DEF Listed
  <2>. QED BY <1>0, <1>1, <1>3, <2>1, <2>2, <2>3, Constants DEF Current
<1>6. Lines'
  <2>1. \A n \in Irq : irq_task_map[n] # None => irq_task_map[n] \in Task
    BY <1>0 DEF TypeOK
  <2>2. UnmaskedHandlerAsleep'
    BY <1>0, <1>1, <1>3, <2>1 DEF Lines, UnmaskedHandlerAsleep
  <2>3. irq[u] = 0
    BY <1>0, <1>1 DEF Lines
  <2>. QED BY <1>0, <1>1, <1>3, <2>2, <2>3 DEF Lines, Ended
<1>7. Frames'
  BY <1>0, <1>1, <1>3, FramesFrame
<1>. QED BY <1>2, <1>4, <1>5, <1>6, <1>7 DEF SchedInv

LEMMA InvNext ==
  ASSUME Disciplined, SchedInv, [Next]_schedVars
  PROVE  SchedInv'
<1>0. TypeOK /\ Listing /\ Current /\ Lines /\ Frames
  BY DEF SchedInv
<1>1. CASE Walk
  BY <1>1, WalkKeeps
<1>2. CASE PlainCall
  BY <1>2, PlainCallKeeps
<1>3. CASE \E n \in Irq : Raise(n) \/ irq_dispatch(n)
  BY <1>3, RaiseKeeps, irq_dispatchKeeps
<1>4. ASSUME NEW n \in Irq, irq_dispatch_Fault(n) \/ irq_dispatch_Stale(n) PROVE FALSE
  BY <1>0, <1>4, DeliverableHandled DEF irq_dispatch_Fault, irq_dispatch_Stale, HandlerGone
<1>5. CASE \E t \in Task : ScSleepIRQ(t)
  BY <1>5, ScSleepIRQKeeps
<1>6. CASE \E t \in Task, n \in Irq : ScHandleIRQ(t, n)
  BY <1>6, ScHandleIRQKeeps
<1>7. CASE \E t, u \in Task : Wake(t, u) \/ Handoff(t, u) \/ PsCreateNewTask(t, u)
  BY <1>7, WakeKeeps, HandoffKeeps, PsCreateNewTaskKeeps
<1>8. CASE UNCHANGED schedVars
  <2>1. UNCHANGED <<TaskList, MaxUsedProc, CurrentTaskNum, CurrentTask, SystemTimer, walk, target,
                    state, irq, irq_task_map, masked, pending, inservice, eoi>>
    BY <1>8 DEF schedVars, taskVars, irqVars, eoiVars
  <2>2. TypeOK'
    BY <1>0, <2>1 DEF TypeOK
  <2>3. Listing' /\ Lines' /\ Frames'
    BY <1>0, <2>1, ListingFrame, LinesFrame, FramesFrame
  <2>4. Current'
    BY <1>0, <2>1 DEF Current, Listed
  <2>. QED BY <2>2, <2>3, <2>4 DEF SchedInv
<1>. QED BY <1>1, <1>2, <1>3, <1>4, <1>5, <1>6, <1>7, <1>8 DEF Next, PlainCall

-----------------------------------------------------------------------------
(* Drivers of any kind.  The idle thread may end, and a walk may clean up   *)
(* the thread it started from; but the list and who runs stay as they are.  *)

AnyType ==
  /\ TaskList \in [Slot -> Task \cup {None}] /\ MaxUsedProc \in Slot \cup {-1}
  /\ CurrentTaskNum \in Slot /\ CurrentTask \in Task /\ target \in Task
  /\ walk \in {"user", "switch", "preempt"}
  /\ state \in [Task -> States]
  /\ irq_task_map \in [Irq -> Task \cup {None}]

AnyListing ==
  /\ \A i, j \in Slot : TaskList[i] = TaskList[j] /\ TaskList[i] # None => i = j
  /\ \A i \in Slot : TaskList[i] # None => state[TaskList[i]] \notin {"NONE", "GONE"}
  /\ \A t \in Task : state[t] \notin {"NONE", "GONE", "READY"} => Listed(t)
  /\ SlotsCovered

AnyCurrent ==
  /\ \A t \in Task : state[t] = "RUNNING" => t = CurrentTask
  /\ walk # "switch" => state[CurrentTask] = "RUNNING"
  /\ walk = "user" => TaskList[CurrentTaskNum] = CurrentTask
  /\ walk = "preempt" =>
       \/ Listed(target) /\ state[target] = "READY" /\ target # CurrentTask
       \/ state[target] = "GONE" /\ \E n \in Irq : irq_task_map[n] = target

AnyInv == AnyType /\ AnyListing /\ AnyCurrent

\* The list stays; threads keep existing, and those that block have a slot.
LEMMA AnyListingFrame ==
  ASSUME AnyInv, UNCHANGED <<TaskList, MaxUsedProc>>,
         \A t \in Task : \/ state'[t] = state[t]
                         \/ /\ state[t] \notin {"NONE", "GONE"}
                            /\ state'[t] \notin {"NONE", "GONE"}
                            /\ state'[t] = "READY" \/ Listed(t)
  PROVE  AnyListing'
<1>1. \A i \in Slot : TaskList[i] # None => TaskList[i] \in Task
  BY DEF AnyInv, AnyType
<1>2. \A t \in Task : Listed(t)' <=> Listed(t)
  BY DEF Listed
<1>. QED BY <1>1, <1>2 DEF AnyInv, AnyListing, SlotsCovered

LEMMA AnyYielded ==
  ASSUME AnyInv
  PROVE  /\ NextSlot \in Slot
         /\ Yielded \in [Task -> States]
         /\ \A t \in Task : /\ Yielded[t] # "RUNNING"
                            /\ state[t] # "RUNNING" => Yielded[t] = state[t]
                            /\ state[t] = "RUNNING" => Yielded[t] = "READY"
<1>1. NextSlot \in Slot
  BY Constants DEF AnyInv, AnyType, NextSlot, Slot
<1>. QED BY <1>1 DEF AnyInv, AnyType, AnyCurrent, Yielded, States

LEMMA AnySkip ==
  ASSUME AnyInv, SwitchSkip \/ PreemptSkip
  PROVE  AnyInv'
<1>1. CASE SwitchSkip
  <2>1. /\ walk = "switch" /\ walk' = "switch" /\ state' = Yielded /\ CurrentTaskNum' = NextSlot
        /\ UNCHANGED <<TaskList, MaxUsedProc, CurrentTask, target, irq_task_map>>
    BY <1>1 DEF SwitchSkip, taskVars, irqVars
  <2>2. AnyListing'
    BY <2>1, AnyYielded, AnyListingFrame
  <2>3. AnyType'
    BY <2>1, AnyYielded DEF AnyInv, AnyType
  <2>4. AnyCurrent'
    BY <2>1, AnyYielded DEF AnyCurrent
  <2>. QED BY <2>2, <2>3, <2>4 DEF AnyInv
<1>2. CASE PreemptSkip
  <2>1. /\ walk = "preempt" /\ CurrentTaskNum' = NextSlot
        /\ UNCHANGED <<TaskList, MaxUsedProc, CurrentTask, walk, target, state, irq_task_map>>
    BY <1>2 DEF PreemptSkip, taskVars, irqVars
  <2>2. AnyListing'
    BY <2>1, AnyListingFrame
  <2>3. AnyType'
    BY <2>1, AnyYielded DEF AnyInv, AnyType
  <2>4. AnyCurrent'
    BY <2>1 DEF AnyInv, AnyCurrent, Listed
  <2>. QED BY <2>2, <2>3, <2>4 DEF AnyInv
<1>. QED BY <1>1, <1>2

\* The slot given up may be the idle thread's, or that of the thread the kernel
\* is still running on.
LEMMA AnyReap ==
  ASSUME AnyInv, SwitchReap
  PROVE  AnyInv'
<1>. DEFINE d == TaskList[NextSlot]
<1>0. AnyType /\ AnyListing /\ AnyCurrent
  BY DEF AnyInv
<1>1. /\ walk = "switch" /\ walk' = "switch" /\ CurrentTaskNum' = NextSlot
      /\ d # None /\ Yielded[d] = "DEAD" /\ state' = [Yielded EXCEPT ![d] = "GONE"]
      /\ PsRemoveTaskFromQueue(d)
      /\ UNCHANGED <<CurrentTask, target, irq_task_map>>
  BY DEF SwitchReap, irqVars
<1>2. NextSlot \in Slot /\ d \in Task
  BY <1>0, <1>1, AnyYielded DEF AnyType
<1>3. /\ TaskList' = [TaskList EXCEPT ![NextSlot] = None]
      /\ MaxUsedProc' = IF NextSlot = MaxUsedProc THEN MaxUsedProc - 1 ELSE MaxUsedProc
  <2>1. SlotOf(d) = NextSlot
    BY <1>0, <1>1, <1>2 DEF SlotOf, AnyListing
  <2>. QED BY <1>1, <2>1 DEF PsRemoveTaskFromQueue
<1>4. /\ state' \in [Task -> States]
      /\ state'[d] = "GONE" /\ \A t \in Task : t # d => state'[t] = Yielded[t]
  BY <1>1, <1>2, AnyYielded DEF States
<1>5. \A i \in Slot : TaskList'[i] = IF i = NextSlot THEN None ELSE TaskList[i]
  BY <1>0, <1>2, <1>3 DEF AnyType
<1>6. AnyType'
  <2>1. MaxUsedProc' \in Slot \cup {-1}
    BY <1>0, <1>2, <1>3, Constants DEF AnyType, Slot
  <2>2. TaskList' \in [Slot -> Task \cup {None}]
    BY <1>0, <1>2, <1>3 DEF AnyType
  <2>. QED BY <1>0, <1>1, <1>2, <1>4, <2>1, <2>2 DEF AnyType
<1>7. AnyListing'
  <2>1. \A i \in Slot : i # NextSlot /\ TaskList[i] # None => TaskList[i] \in Task /\ TaskList[i] # d
    BY <1>0, <1>1, <1>2 DEF AnyListing, AnyType
  <2>2. \A t \in Task : t # d /\ Listed(t) => Listed(t)'
    BY <1>5 DEF Listed
  <2>3. \A i, j \in Slot : TaskList'[i] = TaskList'[j] /\ TaskList'[i] # None => i = j
    BY <1>0, <1>5 DEF AnyListing
  <2>4. \A i \in Slot : TaskList'[i] # None => state'[TaskList'[i]] \notin {"NONE", "GONE"}
    BY <1>0, <1>4, <1>5, <2>1, AnyYielded DEF AnyListing
  <2>5. \A t \in Task : state'[t] \notin {"NONE", "GONE", "READY"} => Listed(t)'
    BY <1>0, <1>4, <2>2, AnyYielded DEF AnyListing
  <2>6. SlotsCovered'
    <3>1. \A i \in Slot : TaskList'[i] # None => i =< MaxUsedProc /\ i # NextSlot
      BY <1>0, <1>5 DEF AnyListing, SlotsCovered
    <3>2. MaxUsedProc \in Int /\ Slot \subseteq Int
      BY <1>0, Constants DEF AnyType
    <3>3. \A i \in Slot : TaskList'[i] # None => i =< MaxUsedProc'
      BY <1>3, <3>1, <3>2
    <3>. QED BY <3>3 DEF SlotsCovered
  <2>. QED BY <2>3, <2>4, <2>5, <2>6 DEF AnyListing
<1>8. AnyCurrent'
  <2>1. \A t \in Task : state'[t] # "RUNNING"
    BY <1>4, AnyYielded
  <2>. QED BY <1>1, <2>1 DEF AnyCurrent
<1>. QED BY <1>6, <1>7, <1>8 DEF AnyInv

LEMMA AnyPick ==
  ASSUME AnyInv, SwitchPick \/ PreemptPick
  PROVE  AnyInv'
<1>0. AnyType /\ AnyListing /\ AnyCurrent
  BY DEF AnyInv
<1>1. PICK t \in Task : Picks(t)
  <2>1. CASE SwitchPick
    <3>1. TaskList[NextSlot] \in Task
      BY <1>0, <2>1, AnyYielded DEF SwitchPick, AnyType
    <3>. QED BY <2>1, <3>1 DEF SwitchPick, Picks, taskVars, irqVars
  <2>2. CASE PreemptPick
    <3>1. target \in Task /\ state[target] # "GONE"
      BY <1>0, <2>2, AnyYielded, Constants DEF PreemptPick, AnyListing, AnyType
    <3>2. Yielded[target] = "READY"
      BY <1>0, <2>2, <3>1, AnyYielded DEF PreemptPick, AnyCurrent
    <3>. QED BY <2>2, <3>1, <3>2 DEF PreemptPick, Picks, taskVars, irqVars
  <2>. QED BY <2>1, <2>2
<1>2. /\ NextSlot \in Slot /\ TaskList[NextSlot] = t /\ Yielded[t] = "READY"
      /\ CurrentTask' = t /\ walk' = "user" /\ CurrentTaskNum' = NextSlot
      /\ UNCHANGED <<TaskList, MaxUsedProc, target, irq_task_map>>
  BY <1>1, AnyYielded DEF Picks, Resume
<1>3. /\ state' \in [Task -> States] /\ state'[t] = "RUNNING"
      /\ \A u \in Task : u # t => state'[u] = Yielded[u]
  BY <1>1, AnyYielded DEF Picks, States
<1>4. Listed(t) /\ state[t] \notin {"NONE", "GONE"}
  BY <1>2, AnyYielded DEF Listed
<1>5. AnyType'
  BY <1>0, <1>2, <1>3 DEF AnyType
<1>6. AnyListing'
  <2>1. \A u \in Task : \/ state'[u] = state[u]
                        \/ /\ state[u] \notin {"NONE", "GONE"}
                           /\ state'[u] \notin {"NONE", "GONE"}
                           /\ state'[u] = "READY" \/ Listed(u)
    BY <1>3, <1>4, AnyYielded
  <2>. QED BY <1>2, <2>1, AnyListingFrame
<1>7. AnyCurrent'
  BY <1>2, <1>3, AnyYielded DEF AnyCurrent
<1>. QED BY <1>5, <1>6, <1>7 DEF AnyInv

\* Every call of PsSwitchTask, that of an interrupt that faults included.
LEMMA AnySwitchCall ==
  ASSUME AnyInv, walk = "user", NEW st, PsSwitchTask(st),
         UNCHANGED <<TaskList, MaxUsedProc, CurrentTaskNum, CurrentTask, target>>,
         irq_task_map' \in [Irq -> Task \cup {None}],
         \/ st = state
         \/ \E x \in {"SLEEP_TIMER", "SLEEP_IRQ", "BLOCKED", "DEAD"} :
              st = [state EXCEPT ![CurrentTask] = x]
  PROVE  AnyInv'
<1>0. AnyType /\ AnyListing /\ AnyCurrent
  BY DEF AnyInv
<1>1. state \in [Task -> States] /\ CurrentTask \in Task /\ state[CurrentTask] = "RUNNING"
  BY <1>0 DEF AnyType, AnyCurrent
<1>2. /\ st \in [Task -> States]
      /\ \A t \in Task : t # CurrentTask => st[t] = state[t]
      /\ st[CurrentTask] \notin {"NONE", "GONE"}
  BY <1>1 DEF States
<1>3. /\ \A t \in Task : state'[t] = st[t] \/ (st[t] = "SLEEP_TIMER" /\ state'[t] = "READY")
      /\ state' \in [Task -> States] /\ walk' = "switch"
  BY <1>2 DEF PsSwitchTask, States
<1>4. AnyType'
  BY <1>0, <1>3 DEF AnyType
<1>5. AnyListing'
  <2>1. Listed(CurrentTask)
    BY <1>0 DEF AnyType, AnyCurrent, Listed
  <2>2. \A t \in Task : \/ state'[t] = state[t]
                        \/ /\ state[t] \notin {"NONE", "GONE"}
                           /\ state'[t] \notin {"NONE", "GONE"}
                           /\ state'[t] = "READY" \/ Listed(t)
    BY <1>1, <1>2, <1>3, <2>1
  <2>. QED BY <2>2, AnyListingFrame
<1>6. AnyCurrent'
  BY <1>0, <1>2, <1>3 DEF AnyCurrent
<1>. QED BY <1>4, <1>5, <1>6 DEF AnyInv

\* A thread that sleeps is made ready, and may be given the processor.
LEMMA AnyWake ==
  ASSUME AnyInv, walk = "user", NEW u \in Task, state[u] \in {"BLOCKED", "SLEEP_IRQ"},
         state' = [state EXCEPT ![u] = "READY"],
         UNCHANGED <<TaskList, MaxUsedProc, CurrentTaskNum, CurrentTask, irq_task_map>>,
         UNCHANGED <<walk, target>> \/ PsPreemptTask(u)
  PROVE  AnyInv'
<1>0. AnyType /\ AnyListing /\ AnyCurrent
  BY DEF AnyInv
<1>1. /\ state' \in [Task -> States] /\ state'[u] = "READY"
      /\ \A v \in Task : v # u => state'[v] = state[v]
      /\ CurrentTask \in Task /\ state[CurrentTask] = "RUNNING" /\ u # CurrentTask
      /\ Listed(u)
  BY <1>0 DEF AnyType, AnyCurrent, AnyListing, States
<1>2. AnyType'
  BY <1>0, <1>1 DEF AnyType, PsPreemptTask
<1>3. AnyListing'
  <2>1. \A v \in Task : \/ state'[v] = state[v]
                        \/ state[v] \notin {"NONE", "GONE"} /\ state'[v] = "READY"
    BY <1>1
  <2>. QED BY <2>1, AnyListingFrame
<1>4. AnyCurrent'
  <2>1. Listed(u)'
    BY <1>1 DEF Listed
  <2>. QED BY <1>0, <1>1, <2>1 DEF AnyCurrent, PsPreemptTask
<1>. QED BY <1>2, <1>3, <1>4 DEF AnyInv

LEMMA AnyCreate ==
  ASSUME AnyInv, NEW t \in Task, NEW u \in Task, PsCreateNewTask(t, u)
  PROVE  AnyInv'
<1>0. AnyType /\ AnyListing /\ AnyCurrent
  BY DEF AnyInv
<1>1. /\ state[u] = "NONE" /\ state' = [state EXCEPT ![u] = "READY"] /\ walk = "user"
      /\ PsAddTaskToQueue(u)
      /\ UNCHANGED <<CurrentTaskNum, CurrentTask, walk, target, irq_task_map>>
  BY DEF PsCreateNewTask, Calling, irqVars
<1>2. /\ state' \in [Task -> States] /\ state'[u] = "READY"
      /\ \A v \in Task : v # u => state'[v] = state[v]
  BY <1>0, <1>1 DEF AnyType, States
<1>3. \A i \in Slot : TaskList[i] # None => TaskList[i] \in Task /\ TaskList[i] # u
  BY <1>0, <1>1 DEF AnyType, AnyListing
<1>4. /\ TaskList' \in [Slot -> Task \cup {None}] /\ MaxUsedProc' \in Slot \cup {-1}
      /\ \A i \in Slot : TaskList[i] # None => TaskList'[i] = TaskList[i]
      /\ AnyListing'
  <2>1. CASE \E i \in Slot : TaskList[i] = None
    <3>1. PICK i \in Slot : /\ TaskList[i] = None /\ TaskList' = [TaskList EXCEPT ![i] = u]
                            /\ MaxUsedProc' = IF i > MaxUsedProc THEN i ELSE MaxUsedProc
      BY <1>1, <2>1 DEF PsAddTaskToQueue, FirstEmpty
    <3>2. \A j \in Slot : TaskList'[j] = IF j = i THEN u ELSE TaskList[j]
      BY <1>0, <3>1 DEF AnyType
    <3>3. TaskList' \in [Slot -> Task \cup {None}] /\ MaxUsedProc' \in Slot \cup {-1}
      BY <1>0, <3>1 DEF AnyType
    <3>4. \A j \in Slot : TaskList[j] # None => TaskList'[j] = TaskList[j]
      BY <3>1, <3>2
    <3>5. \A j, k \in Slot : TaskList'[j] = TaskList'[k] /\ TaskList'[j] # None => j = k
      BY <1>0, <1>3, <3>2, Constants DEF AnyListing
    <3>6. \A j \in Slot : TaskList'[j] # None => state'[TaskList'[j]] \notin {"NONE", "GONE"}
      BY <1>0, <1>2, <1>3, <3>2 DEF AnyListing
    <3>7. \A v \in Task : state'[v] \notin {"NONE", "GONE", "READY"} => Listed(v)'
      <4>1. \A v \in Task : Listed(v) => Listed(v)'
        BY <3>4, Constants DEF Listed
      <4>. QED BY <1>0, <1>2, <4>1 DEF AnyListing
    <3>8. SlotsCovered'
      <4>1. \A j \in Slot : TaskList'[j] # None => j = i \/ j =< MaxUsedProc
        BY <1>0, <3>2 DEF AnyListing, SlotsCovered
      <4>2. MaxUsedProc \in Int /\ i \in Int /\ Slot \subseteq Int
        BY <1>0, Constants DEF AnyType
      <4>3. \A j \in Slot : TaskList'[j] # None => j =< MaxUsedProc'
        BY <3>1, <4>1, <4>2
      <4>. QED BY <4>3 DEF SlotsCovered
    <3>. QED BY <3>3, <3>4, <3>5, <3>6, <3>7, <3>8 DEF AnyListing
  <2>2. CASE ~ \E i \in Slot : TaskList[i] = None
    <3>1. UNCHANGED <<TaskList, MaxUsedProc>>
      BY <1>1, <2>2 DEF PsAddTaskToQueue, taskVars
    <3>2. \A v \in Task : Listed(v)' <=> Listed(v)
      BY <3>1 DEF Listed
    <3>3. AnyListing'
      BY <1>0, <1>2, <1>3, <3>1, <3>2 DEF AnyListing, SlotsCovered
    <3>. QED BY <1>0, <3>1, <3>3 DEF AnyType
  <2>. QED BY <2>1, <2>2
<1>5. AnyType'
  BY <1>0, <1>1, <1>2, <1>4 DEF AnyType
<1>6. AnyCurrent'
  <2>1. /\ CurrentTask \in Task /\ state[CurrentTask] = "RUNNING" /\ CurrentTask # u
        /\ TaskList[CurrentTaskNum] = CurrentTask /\ CurrentTaskNum \in Slot
    BY <1>0, <1>1 DEF AnyCurrent, AnyType
  <2>2. TaskList'[CurrentTaskNum] = CurrentTask
    BY <1>4, <2>1, Constants
  <2>. QED BY <1>0, <1>1, <1>2, <2>1, <2>2 DEF AnyCurrent
<1>. QED BY <1>4, <1>5, <1>6 DEF AnyInv

LEMMA AnyInit == Init => AnyInv
<1>. SUFFICES ASSUME Init PROVE AnyInv
  OBVIOUS
<1>0. /\ NBoot \in Nat /\ NTasks \in Nat /\ NBoot =< NTasks /\ NBoot + 1 =< MaxProc
      /\ MaxProc \in Nat
  BY SchedAssumption
<1>1. /\ TaskList = [i \in Slot |-> IF i =< NBoot THEN i ELSE None] /\ MaxUsedProc = NBoot
      /\ CurrentTaskNum = 0 /\ CurrentTask = 0 /\ target = 0 /\ walk = "switch"
      /\ state = [t \in Task |-> IF t =< NBoot THEN "READY" ELSE "NONE"]
      /\ irq_task_map = [n \in Irq |-> None]
  BY DEF Init, Idle
<1>2. AnyType
  <2>1. \A i \in Slot : TaskList[i] \in Task \cup {None}
    BY <1>0, <1>1 DEF Slot, Task, None
  <2>. QED BY <1>0, <1>1, <2>1 DEF AnyType, Slot, Task, States
<1>3. AnyListing
  <2>1. \A i \in Slot : i =< NBoot => TaskList[i] = i /\ i \in Task /\ i # None
    BY <1>0, <1>1 DEF Slot, Task, None
  <2>2. \A i \in Slot : ~(i =< NBoot) => TaskList[i] = None
    BY <1>1
  <2>. QED BY <1>0, <1>1, <2>1, <2>2 DEF AnyListing, SlotsCovered
<1>4. AnyCurrent
  BY <1>1 DEF AnyCurrent
<1>. QED BY <1>2, <1>3, <1>4 DEF AnyInv

LEMMA AnyNext == AnyInv /\ [Next]_schedVars => AnyInv'
<1>. SUFFICES ASSUME AnyInv, [Next]_schedVars PROVE AnyInv'
  OBVIOUS
<1>0. AnyType
  BY DEF AnyInv
<1>1. CASE Walk
  BY <1>1, AnySkip, AnyReap, AnyPick DEF Walk
<1>2. CASE timer_irq
  <2>1. /\ walk = "user" /\ PsSwitchTask(state)
        /\ UNCHANGED <<TaskList, MaxUsedProc, CurrentTaskNum, CurrentTask, target, irq_task_map>>
    BY <1>2 DEF timer_irq, taskVars, irqVars
  <2>. QED BY <1>0, <2>1, AnySwitchCall DEF AnyType
<1>3. ASSUME NEW n \in Irq, Raise(n) PROVE AnyInv'
  <2>1. UNCHANGED <<TaskList, MaxUsedProc, CurrentTaskNum, CurrentTask, walk, target, state,
                    irq_task_map>>
    BY <1>3 DEF Raise, taskVars
  <2>. QED BY <2>1 DEF AnyInv, AnyType, AnyListing, AnyCurrent, SlotsCovered, Listed
<1>4. ASSUME NEW n \in Irq, irq_dispatch(n) PROVE AnyInv'
  <2>1. walk = "user" /\ UNCHANGED <<TaskList, MaxUsedProc, CurrentTaskNum, CurrentTask, irq_task_map>>
    BY <1>4 DEF irq_dispatch, Deliverable, taskVars
  <2>2. CASE Handler(n) # None
    <3>1. /\ Handler(n) \in Task /\ state[Handler(n)] = "SLEEP_IRQ"
          /\ state' = [state EXCEPT ![Handler(n)] = "READY"] /\ PsPreemptTask(Handler(n))
      BY <1>0, <1>4, <2>2 DEF irq_dispatch, Handler, AnyType
    <3>. QED BY <2>1, <3>1, AnyWake
  <2>3. CASE Handler(n) = None
    <3>1. UNCHANGED <<state, walk, target>>
      BY <1>4, <2>3 DEF irq_dispatch
    <3>. QED BY <2>1, <3>1 DEF AnyInv, AnyType, AnyListing, AnyCurrent, SlotsCovered, Listed
  <2>. QED BY <2>2, <2>3
<1>5. ASSUME NEW n \in Irq, irq_dispatch_Fault(n) PROVE AnyInv'
  <2>1. /\ walk = "user" /\ PsSwitchTask([state EXCEPT ![CurrentTask] = "DEAD"])
        /\ UNCHANGED <<TaskList, MaxUsedProc, CurrentTaskNum, CurrentTask, target, irq_task_map>>
    BY <1>5 DEF irq_dispatch_Fault, Deliverable, taskVars
  <2>. QED BY <1>0, <2>1, AnySwitchCall DEF AnyType
<1>6. ASSUME NEW t \in Task, NEW st, GiveUp(t, st), irq_task_map' \in [Irq -> Task \cup {None}],
             \/ st = state
             \/ \E x \in {"SLEEP_TIMER", "SLEEP_IRQ", "BLOCKED", "DEAD"} : st = [state EXCEPT ![t] = x]
      PROVE  AnyInv'
  <2>1. /\ walk = "user" /\ CurrentTask = t /\ PsSwitchTask(st)
        /\ UNCHANGED <<TaskList, MaxUsedProc, CurrentTaskNum, CurrentTask, target>>
    BY <1>6 DEF GiveUp, Calling, taskVars
  <2>. QED BY <1>6, <2>1, AnySwitchCall
<1>7. ASSUME NEW t \in Task, ScWait(t) \/ ScSleep(t) \/ Block(t) \/ PsTerminateTask(t) \/ ScSleepIRQ(t)
      PROVE  AnyInv'
  <2>1. irq_task_map' \in [Irq -> Task \cup {None}]
    BY <1>0, <1>7 DEF ScWait, ScSleep, Block, PsTerminateTask, ScSleepIRQ, AnyType
  <2>2. \E st : /\ GiveUp(t, st)
                /\ \/ st = state
                   \/ \E x \in {"SLEEP_TIMER", "SLEEP_IRQ", "BLOCKED", "DEAD"} :
                        st = [state EXCEPT ![t] = x]
    <3>1. CASE ScWait(t)
      BY <3>1 DEF ScWait
    <3>2. CASE ScSleep(t)
      BY <3>2 DEF ScSleep
    <3>3. CASE Block(t)
      BY <3>3 DEF Block
    <3>4. CASE PsTerminateTask(t)
      BY <3>4 DEF PsTerminateTask
    <3>5. CASE ScSleepIRQ(t)
      BY <3>5 DEF ScSleepIRQ
    <3>. QED BY <1>7, <3>1, <3>2, <3>3, <3>4, <3>5
  <2>. QED BY <1>6, <2>1, <2>2
<1>8. ASSUME NEW t \in Task, NEW n \in Irq, ScHandleIRQ(t, n) PROVE AnyInv'
  <2>1. GiveUp(t, state) /\ irq_task_map' \in [Irq -> Task \cup {None}]
    BY <1>0, <1>8 DEF ScHandleIRQ, AnyType
  <2>. QED BY <1>6, <2>1
<1>9. ASSUME NEW t \in Task, NEW u \in Task, Wake(t, u) \/ Handoff(t, u) PROVE AnyInv'
  <2>1. /\ walk = "user" /\ state[u] = "BLOCKED" /\ state' = [state EXCEPT ![u] = "READY"]
        /\ UNCHANGED <<TaskList, MaxUsedProc, CurrentTaskNum, CurrentTask, irq_task_map>>
        /\ UNCHANGED <<walk, target>> \/ PsPreemptTask(u)
    BY <1>9 DEF Wake, Handoff, Calling, taskVars, irqVars
  <2>. QED BY <2>1, AnyWake
<1>10. ASSUME NEW t \in Task, NEW u \in Task, PsCreateNewTask(t, u) PROVE AnyInv'
  BY <1>10, AnyCreate
<1>11. CASE UNCHANGED schedVars
  <2>1. UNCHANGED <<TaskList, MaxUsedProc, CurrentTaskNum, CurrentTask, walk, target, state,
                    irq_task_map>>
    BY <1>11 DEF schedVars, taskVars, irqVars
  <2>. QED BY <2>1 DEF AnyInv, AnyType, AnyListing, AnyCurrent, SlotsCovered, Listed
<1>12. ASSUME NEW n \in Irq, irq_dispatch_Stale(n) PROVE AnyInv'
  <2>1. /\ walk = "user" /\ walk' = "preempt" /\ target' = irq_task_map[n]
        /\ irq_task_map[n] # None /\ state[irq_task_map[n]] = "GONE"
        /\ UNCHANGED <<TaskList, MaxUsedProc, CurrentTaskNum, CurrentTask, state, irq_task_map>>
    BY <1>12 DEF irq_dispatch_Stale, HandlerGone, Deliverable, PsPreemptTask, taskVars
  <2>2. AnyType' /\ AnyListing'
    <3>1. irq_task_map[n] \in Task
      BY <1>0, <2>1 DEF AnyType
    <3>. QED BY <2>1, <3>1 DEF AnyInv, AnyType, AnyListing, SlotsCovered, Listed
  <2>3. AnyCurrent'
    BY <2>1 DEF AnyInv, AnyCurrent
  <2>. QED BY <2>2, <2>3 DEF AnyInv
<1>. QED BY <1>1, <1>2, <1>3, <1>4, <1>5, <1>7, <1>8, <1>9, <1>10, <1>11, <1>12 DEF Next

LEMMA AnyAlways == Spec => []AnyInv
<1>. QED BY AnyInit, AnyNext, PTL DEF Spec

-----------------------------------------------------------------------------
(* The theorems *)

LEMMA InvAlways == ASSUME Disciplined PROVE Spec => []SchedInv
<1>1. Init => SchedInv
  BY InitInv
<1>2. SchedInv /\ [Next]_schedVars => SchedInv'
  BY InvNext
<1>. QED BY <1>1, <1>2, PTL DEF Spec

\* The scheduler's variables keep their types.
THEOREM TypeCorrect == ASSUME Disciplined PROVE Spec => []TypeOK
<1>1. SchedInv => TypeOK
  BY DEF SchedInv
<1>. QED BY <1>1, InvAlways, PTL

\* The bound the timer scan relies on covers every slot in use, in whatever
\* order threads are created and cleaned up (task.c:127-178).
THEOREM SlotsAlwaysCovered == Spec => []SlotsCovered
<1>1. AnyInv => SlotsCovered
  BY DEF AnyInv, AnyListing
<1>. QED BY <1>1, AnyAlways, PTL

\* PsSwitchTask never frees the stack it is running on (task.c:255-259).
THEOREM NeverFreesItsStack == ASSUME Disciplined PROVE Spec => []NeverFreesOwnStack
<1>1. SchedInv => NeverFreesOwnStack
  <2>1. SUFFICES ASSUME SchedInv PROVE state[CurrentTask] # "GONE"
    BY DEF NeverFreesOwnStack
  <2>2. PICK i \in Slot : TaskList[i] = CurrentTask
    BY <2>1 DEF SchedInv, Current, Listed
  <2>3. CurrentTask # None
    BY <2>1, Constants DEF SchedInv, TypeOK
  <2>. QED BY <2>1, <2>2, <2>3 DEF SchedInv, Listing
<1>. QED BY <1>1, InvAlways, PTL

\* With disciplined drivers PsPreemptTask is only called for a thread that has a
\* slot, is ready and does not run (task.c:180-218).
THEOREM PreemptTargetAlwaysListed == ASSUME Disciplined PROVE Spec => []PreemptTargetListed
<1>1. SchedInv => PreemptTargetListed
  BY DEF SchedInv, Current, PreemptTargetListed
<1>. QED BY <1>1, InvAlways, PTL

\* Whatever drivers do, a thread that PsPreemptTask cannot find is one that ended
\* registered for an interrupt (int.c:38-43).
THEOREM OnlyGoneEverUnlisted == Spec => []OnlyGoneUnlisted
<1>1. AnyInv => OnlyGoneUnlisted
  BY DEF AnyInv, AnyCurrent, OnlyGoneUnlisted
<1>. QED BY <1>1, AnyAlways, PTL

\* In user mode one thread is RUNNING and CurrentTaskNum is its slot.
THEOREM OneAlwaysRunning == Spec => []OneRunning
<1>1. AnyInv => OneRunning
  BY DEF AnyInv, AnyType, AnyCurrent, OneRunning
<1>. QED BY <1>1, AnyAlways, PTL

\* Each line in service has an interrupted thread that will end it (jump.S:202-212).
THEOREM EoiAlwaysBalanced == ASSUME Disciplined PROVE Spec => []EoiBalanced
<1>1. SchedInv => EoiBalanced
  BY DEF SchedInv, Frames
<1>. QED BY <1>1, InvAlways, PTL

\* A line is open only while the thread registered for it sleeps on it
\* (syscall.c:147-184, int.c:29-49).
THEOREM UnmaskedHandlerAlwaysAsleep == ASSUME Disciplined PROVE Spec => []UnmaskedHandlerAsleep
<1>1. SchedInv => UnmaskedHandlerAsleep
  BY DEF SchedInv, Lines
<1>. QED BY <1>1, InvAlways, PTL

LEMMA PendingTaken ==
  ASSUME SchedInv, Next, NEW n \in pending \ pending'
  PROVE  n \in Irq /\ (irq_dispatch(n) \/ irq_dispatch_Fault(n) \/ irq_dispatch_Stale(n))
<1>0. n \in Irq /\ n \in pending /\ n \notin pending'
  BY DEF SchedInv, TypeOK
<1>1. ASSUME Walk PROVE pending' = pending
  BY <1>1 DEF Walk, SwitchSkip, SwitchReap, SwitchPick, PreemptSkip, PreemptPick, irqVars
<1>2. ASSUME timer_irq PROVE pending' = pending
  BY <1>2 DEF timer_irq, irqVars
<1>3. ASSUME NEW t \in Task, ScWait(t) \/ ScSleep(t) \/ Block(t) \/ PsTerminateTask(t) \/ ScSleepIRQ(t)
      PROVE  pending' = pending
  BY <1>3 DEF ScWait, ScSleep, Block, PsTerminateTask, ScSleepIRQ, GiveUp
<1>4. ASSUME NEW t \in Task, NEW m \in Irq, ScHandleIRQ(t, m) PROVE pending' = pending
  BY <1>4 DEF ScHandleIRQ, GiveUp
<1>5. ASSUME NEW t \in Task, NEW u \in Task, Wake(t, u) \/ Handoff(t, u) \/ PsCreateNewTask(t, u)
      PROVE  pending' = pending
  BY <1>5 DEF Wake, Handoff, PsCreateNewTask, irqVars
<1>6. ASSUME NEW m \in Irq, Raise(m) PROVE pending \subseteq pending'
  BY <1>6 DEF Raise
<1>7. ASSUME NEW m \in Irq, irq_dispatch(m) \/ irq_dispatch_Fault(m) \/ irq_dispatch_Stale(m)
      PROVE  pending' = pending \ {m}
  BY <1>7 DEF irq_dispatch, irq_dispatch_Fault, irq_dispatch_Stale
<1>. QED BY <1>0, <1>1, <1>2, <1>3, <1>4, <1>5, <1>6, <1>7 DEF Next

\* An interrupt is taken only to wake the thread asleep on it (int.c:29-49).
THEOREM IrqNeverDropped == ASSUME Disciplined PROVE Spec => NoIrqDropped
<1>1. ASSUME SchedInv, Next, NEW n \in pending \ pending'
      PROVE  \E t \in Task : irq[t] = n /\ state[t] = "SLEEP_IRQ" /\ state'[t] = "READY"
  <2>0. TypeOK /\ Lines /\ n \in Irq /\ (irq_dispatch(n) \/ irq_dispatch_Fault(n) \/ irq_dispatch_Stale(n))
    BY <1>1, PendingTaken DEF SchedInv
  <2>1. /\ Handler(n) = irq_task_map[n] /\ Handler(n) \in Task /\ Handler(n) # None
        /\ state[Handler(n)] = "SLEEP_IRQ" /\ irq[Handler(n)] = n
    BY <2>0, DeliverableHandled DEF irq_dispatch, irq_dispatch_Fault, irq_dispatch_Stale
  <2>2. irq_dispatch(n)
    BY <2>0, <2>1 DEF irq_dispatch_Fault, irq_dispatch_Stale, HandlerGone
  <2>3. state' = [state EXCEPT ![Handler(n)] = "READY"]
    BY <2>1, <2>2 DEF irq_dispatch
  <2>4. state'[Handler(n)] = "READY"
    BY <2>0, <2>1, <2>3 DEF TypeOK
  <2>. QED BY <2>1, <2>4
<1>2. SchedInv /\ [Next]_schedVars =>
        [\A n \in pending \ pending' : \E t \in Task :
           irq[t] = n /\ state[t] = "SLEEP_IRQ" /\ state'[t] = "READY"]_schedVars
  BY <1>1
<1>. QED BY <1>2, InvAlways, PTL DEF Spec, NoIrqDropped
=============================================================================
