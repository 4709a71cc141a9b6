-------------------------------- MODULE Sched --------------------------------
(***************************************************************************)
(* The scheduler (src/kernel/task.c), the interrupts that drive it         *)
(* (int.c, jump.S, i386.c) and the system calls that give up the processor *)
(* (syscall.c).                                                            *)
(*                                                                         *)
(* The kernel runs with interrupts off, so user code, system calls and     *)
(* interrupts interleave only while walk = "user".  The two loops over     *)
(* TaskList, in PsSwitchTask and PsPreemptTask, take one action per slot:  *)
(* nothing interrupts them, and that they end is a property to check.      *)
(*                                                                         *)
(* What a clean-up releases besides the slot is in Port.tla.  Of ports and *)
(* semaphores (Port.tla, Sem.tla) only what they ask of the scheduler      *)
(* appears: Block, Wake and Handoff, one state for tSLEEP_PORT and         *)
(* tSLEEP_SEM.                                                             *)
(***************************************************************************)
EXTENDS Integers, FiniteSets

CONSTANTS
  MaxProc,      \* slots of TaskList
  TimerPeriod,  \* PsSwitchTask calls between two scans of the timer (100)
  NBoot,        \* threads started by _start, besides the idle thread
  NTasks,       \* bound: threads in a behaviour, besides the idle thread
  Irq,          \* interrupt numbers programs pass to os_handle_irq
  Disciplined   \* drivers keep to the manual: one irq a task, one task an
                \* irq, and os_handle_irq before os_sleep_irq

ASSUME SchedAssumption ==
  /\ MaxProc \in Nat /\ TimerPeriod \in Nat \ {0}
  /\ NBoot \in Nat /\ NTasks \in Nat
  /\ NBoot =< NTasks /\ NBoot + 1 =< MaxProc
  /\ Irq \subseteq (1..15) \ {2}   \* bound: no program asks for line 2, which
                                  \* would open that of the second controller
  /\ Disciplined \in BOOLEAN

VARIABLES
  TaskList,       \* TaskList[i].t, None for an empty slot
  MaxUsedProc,
  CurrentTaskNum,
  CurrentTask,
  SystemTimer,
  walk,           \* "user", or the loop the kernel is in: "switch", "preempt"
  target,         \* argument of PsPreemptTask while walk = "preempt"
  state,          \* task.state; NONE: not created, GONE: cleaned up
  irq,            \* task.irq
  irq_task_map,   \* None where NULL
  masked,         \* interrupt controller: lines masked,
  pending,        \*   lines raised and not yet delivered,
  inservice,      \*   lines delivered and not yet ended by an EOI
  eoi             \* threads with an irq_dispatch frame whose EOI is still to be
                  \* sent (jump.S:205-208)

taskVars == <<TaskList, MaxUsedProc>>
irqVars == <<irq, irq_task_map, masked, pending>>
eoiVars == <<inservice, eoi>>
schedVars == <<taskVars, CurrentTaskNum, CurrentTask, SystemTimer, walk, target, state,
               irqVars, eoiVars>>

Slot == 0..(MaxProc - 1)
Task == 0..NTasks
Idle == 0   \* KernelTask
None == -1

\* A task structure is not cleared: irq starts as whatever its page holds.
StaleIrq == {0} \cup (IF Disciplined THEN {} ELSE Irq)

\* kinit_ktask, _start: the idle thread in slot 0, one thread per boot process
\* behind it, and _start's call of PsSwitchTask.
Init ==
  /\ TaskList = [i \in Slot |-> IF i =< NBoot THEN i ELSE None]
  /\ MaxUsedProc = NBoot
  /\ CurrentTaskNum = 0
  /\ CurrentTask = Idle
  /\ SystemTimer = 1
  /\ walk = "switch"
  /\ target = Idle
  /\ state = [t \in Task |-> IF t =< NBoot THEN "READY" ELSE "NONE"]
  /\ irq \in {f \in [Task -> StaleIrq] : f[Idle] = 0}
  /\ irq_task_map = [n \in Irq |-> None]
  /\ masked = Irq
  /\ pending = {}
  /\ inservice = {}
  /\ eoi = {}

-----------------------------------------------------------------------------
(* The task list *)

FirstEmpty(i) == TaskList[i] = None /\ \A j \in 0..(i - 1) : TaskList[j] # None

\* Faulty variant of PsAddTaskToQueue: a full list gives up its last slot.
PsAddTaskToQueue_Evict(t) ==
  IF \E i \in Slot : TaskList[i] = None
  THEN \E i \in Slot :
         /\ FirstEmpty(i)
         /\ TaskList' = [TaskList EXCEPT ![i] = t]
         /\ MaxUsedProc' = IF i > MaxUsedProc THEN i ELSE MaxUsedProc
  ELSE TaskList' = [TaskList EXCEPT ![MaxProc - 1] = t] /\ UNCHANGED MaxUsedProc

\* A full list is reported on the console only: the thread is never scheduled.
PsAddTaskToQueue(t) ==
  IF \E i \in Slot : TaskList[i] = None
  THEN \E i \in Slot :
         /\ FirstEmpty(i)
         /\ TaskList' = [TaskList EXCEPT ![i] = t]
         /\ MaxUsedProc' = IF i > MaxUsedProc THEN i ELSE MaxUsedProc
  ELSE UNCHANGED taskVars

\* The slot of a listed thread: no thread is listed twice.
SlotOf(t) == CHOOSE i \in Slot : TaskList[i] = t

\* Faulty variant: MaxUsedProc is taken for the number of threads.
PsRemoveTaskFromQueue_Count(t) ==
  /\ TaskList' = [TaskList EXCEPT ![SlotOf(t)] = None]
  /\ MaxUsedProc' = MaxUsedProc - 1

PsRemoveTaskFromQueue(t) ==
  /\ TaskList' = [TaskList EXCEPT ![SlotOf(t)] = None]
  /\ MaxUsedProc' = IF SlotOf(t) = MaxUsedProc THEN MaxUsedProc - 1 ELSE MaxUsedProc

-----------------------------------------------------------------------------
(* PsSwitchTask *)

\* Faulty variant of PsSwitchTask: the count is not started again.
PsSwitchTask_NoReset(st) ==
  LET expired == SystemTimer + 1 > TimerPeriod
      scanned == {TaskList[x] : x \in 0..MaxUsedProc}
  IN /\ SystemTimer' = SystemTimer + 1
     /\ state' = [t \in Task |-> IF expired /\ t \in scanned /\ st[t] = "SLEEP_TIMER"
                                 THEN "READY" ELSE st[t]]
     /\ walk' = "switch"

\* The call: count it, and every TimerPeriod + 1 calls wake the timer sleepers
\* of slots 0..MaxUsedProc.  st is the state the caller has set.  (An empty slot
\* is read through NULL, where the running program's code is mapped.)
PsSwitchTask(st) ==
  LET expired == SystemTimer + 1 > TimerPeriod
      scanned == {TaskList[x] : x \in 0..MaxUsedProc}
  IN /\ SystemTimer' = IF expired THEN 0 ELSE SystemTimer + 1
     /\ state' = [t \in Task |-> IF expired /\ t \in scanned /\ st[t] = "SLEEP_TIMER"
                                 THEN "READY" ELSE st[t]]
     /\ walk' = "switch"

\* Faulty variant of NextSlot: the list is left one slot early.
NextSlot_Short == IF CurrentTaskNum + 1 >= MaxUsedProc THEN 0 ELSE CurrentTaskNum + 1

NextSlot == IF CurrentTaskNum = MaxProc - 1 THEN 0 ELSE CurrentTaskNum + 1

\* Faulty variant of Yielded: the thread switched from stays running.
Yielded_Running == state

Yielded == [state EXCEPT ![CurrentTask] = IF @ = "RUNNING" THEN "READY" ELSE @]

\* The non-specific EOI ends the line of highest priority in service.
Eoi == \E n \in inservice : (\A k \in inservice : n =< k) /\ inservice' = inservice \ {n}

\* Faulty variant of Resume: the interrupt frame of t returns without its EOI.
Resume_NoEoi(t) ==
  /\ CurrentTask' = t
  /\ walk' = "user"
  /\ eoi' = eoi \ {t}
  /\ UNCHANGED inservice

\* The processor goes to t, which leaves the kernel where it entered it; an
\* interrupted thread sends the EOI of that interrupt on the way.
Resume(t) ==
  /\ CurrentTask' = t
  /\ walk' = "user"
  /\ eoi' = eoi \ {t}
  /\ IF t \in eoi THEN Eoi ELSE UNCHANGED inservice

SwitchSkip ==
  LET t == TaskList[NextSlot] IN
  /\ walk = "switch"
  /\ t # None => Yielded[t] \notin {"DEAD", "READY"}
  /\ CurrentTaskNum' = NextSlot
  /\ state' = Yielded
  /\ UNCHANGED <<taskVars, CurrentTask, SystemTimer, walk, target, irqVars, eoiVars>>

\* PsCleanUpTask.
SwitchReap ==
  LET t == TaskList[NextSlot] IN
  /\ walk = "switch"
  /\ t # None /\ Yielded[t] = "DEAD"
  /\ CurrentTaskNum' = NextSlot
  /\ state' = [Yielded EXCEPT ![t] = "GONE"]
  /\ PsRemoveTaskFromQueue(t)
  /\ UNCHANGED <<CurrentTask, SystemTimer, walk, target, irqVars, eoiVars>>

SwitchPick ==
  LET t == TaskList[NextSlot] IN
  /\ walk = "switch"
  /\ t # None /\ Yielded[t] = "READY"
  /\ CurrentTaskNum' = NextSlot
  /\ state' = [Yielded EXCEPT ![t] = "RUNNING"]
  /\ Resume(t)
  /\ UNCHANGED <<taskVars, SystemTimer, target, irqVars>>

-----------------------------------------------------------------------------
(* PsPreemptTask *)

PsPreemptTask(t) == walk' = "preempt" /\ target' = t

PreemptSkip ==
  /\ walk = "preempt"
  /\ TaskList[NextSlot] # target
  /\ CurrentTaskNum' = NextSlot
  /\ UNCHANGED <<taskVars, CurrentTask, SystemTimer, walk, target, state, irqVars, eoiVars>>

PreemptPick ==
  /\ walk = "preempt"
  /\ TaskList[NextSlot] = target
  /\ CurrentTaskNum' = NextSlot
  /\ state' = [Yielded EXCEPT ![target] = "RUNNING"]
  /\ Resume(target)
  /\ UNCHANGED <<taskVars, SystemTimer, target, irqVars>>

-----------------------------------------------------------------------------
(* Interrupts *)

Raise(n) ==
  /\ n \notin pending
  /\ pending' = pending \cup {n}
  /\ UNCHANGED <<taskVars, CurrentTaskNum, CurrentTask, SystemTimer, walk, target, state,
                 irq, irq_task_map, masked, eoiVars>>

\* Lines 8 to 15 reach the processor through line 2, which remap_irqs masks and
\* nothing unmasks.
Deliverable(n) ==
  /\ walk = "user"
  /\ n \in pending \ masked
  /\ n < 8
  /\ \A k \in inservice : n < k

timer_irq ==
  /\ walk = "user"
  /\ PsSwitchTask(state)
  /\ UNCHANGED <<taskVars, CurrentTaskNum, CurrentTask, target, irqVars, eoiVars>>

\* The thread irq_dispatch wakes, None if nobody waits.
Handler(n) ==
  IF irq_task_map[n] # None /\ state[irq_task_map[n]] = "SLEEP_IRQ"
  THEN irq_task_map[n] ELSE None

Mask(n) == masked' = masked \cup {n}

irq_dispatch(n) ==
  /\ Deliverable(n)
  /\ pending' = pending \ {n}
  /\ Mask(n)
  /\ \/ /\ Handler(n) # None
        /\ state' = [state EXCEPT ![Handler(n)] = "READY"]
        /\ PsPreemptTask(Handler(n))
        /\ inservice' = inservice \cup {n}
        /\ eoi' = eoi \cup {CurrentTask}
     \/ /\ Handler(n) = None
        /\ UNCHANGED <<state, walk, target, eoiVars>>
  /\ UNCHANGED <<taskVars, CurrentTaskNum, CurrentTask, SystemTimer, irq, irq_task_map>>

\* The registered thread is gone, and its task structure may be freed memory.  (If
\* it is not, because the address space lives on, it reads tDEAD: irq_dispatch.)
HandlerGone(n) == irq_task_map[n] # None /\ state[irq_task_map[n]] = "GONE"

\* The freed page is not mapped: the read faults, and the thread that was
\* interrupted is terminated for it.
irq_dispatch_Fault(n) ==
  /\ Deliverable(n)
  /\ HandlerGone(n)
  /\ pending' = pending \ {n}
  /\ Mask(n)
  /\ inservice' = inservice \cup {n}
  /\ PsSwitchTask([state EXCEPT ![CurrentTask] = "DEAD"])
  /\ UNCHANGED <<taskVars, CurrentTaskNum, CurrentTask, target, irq, irq_task_map, eoi>>

\* The freed page is in use again, for a message (port.c:158), say, and the word
\* of state happens to hold tSLEEP_IRQ: PsPreemptTask looks for a thread that is
\* in no slot.  The write of tREADY into that page is outside this module.
irq_dispatch_Stale(n) ==
  /\ Deliverable(n)
  /\ HandlerGone(n)
  /\ pending' = pending \ {n}
  /\ Mask(n)
  /\ inservice' = inservice \cup {n}
  /\ eoi' = eoi \cup {CurrentTask}
  /\ PsPreemptTask(irq_task_map[n])
  /\ UNCHANGED <<taskVars, CurrentTaskNum, CurrentTask, SystemTimer, state, irq, irq_task_map>>

-----------------------------------------------------------------------------
(* System calls of the current thread *)

\* Faulty variant of Calling: the idle thread sleeps and ends like any other.
Calling_Idle(t) == walk = "user" /\ CurrentTask = t

Calling(t) == walk = "user" /\ CurrentTask = t /\ t # Idle

\* Every call below ends in PsSwitchTask, with st the state it sets.
GiveUp(t, st) ==
  /\ Calling(t)
  /\ PsSwitchTask(st)
  /\ UNCHANGED <<taskVars, CurrentTaskNum, CurrentTask, target, pending, eoiVars>>

ScWait(t) == GiveUp(t, state) /\ UNCHANGED <<irq, irq_task_map, masked>>

ScSleep(t) ==
  /\ GiveUp(t, [state EXCEPT ![t] = "SLEEP_TIMER"])
  /\ UNCHANGED <<irq, irq_task_map, masked>>

\* port_recv on an empty queue, sem_acquire of a semaphore at 0.
Block(t) ==
  /\ GiveUp(t, [state EXCEPT ![t] = "BLOCKED"])
  /\ UNCHANGED <<irq, irq_task_map, masked>>

\* ScTerminateProcess, and an exception in the thread (faultE).
PsTerminateTask(t) ==
  /\ GiveUp(t, [state EXCEPT ![t] = "DEAD"])
  /\ UNCHANGED <<irq, irq_task_map, masked>>

Ended == {"NONE", "DEAD", "GONE"}

\* Faulty variant of ScHandleIRQ: the line is unmasked as soon as it is registered.
ScHandleIRQ_Unmask(t, n) ==
  /\ Disciplined =>
       /\ irq[t] \in {0, n}
       /\ \A u \in Task \ {t} : irq[u] = n => state[u] \in Ended
  /\ irq' = [irq EXCEPT ![t] = n]
  /\ irq_task_map' = [irq_task_map EXCEPT ![n] = t]
  /\ GiveUp(t, state)
  /\ masked' = masked \ {n}

ScHandleIRQ(t, n) ==
  /\ Disciplined =>
       /\ irq[t] \in {0, n}
       /\ \A u \in Task \ {t} : irq[u] = n => state[u] \in Ended
  /\ irq' = [irq EXCEPT ![t] = n]
  /\ irq_task_map' = [irq_task_map EXCEPT ![n] = t]
  /\ GiveUp(t, state)
  /\ UNCHANGED masked

\* Faulty variant of ScSleepIRQ: the line stays masked.
ScSleepIRQ_Masked(t) ==
  /\ GiveUp(t, IF irq[t] = 0 THEN state ELSE [state EXCEPT ![t] = "SLEEP_IRQ"])
  /\ UNCHANGED <<irq, irq_task_map, masked>>

\* A thread without an irq just gives up the processor.
ScSleepIRQ(t) ==
  /\ GiveUp(t, IF irq[t] = 0 THEN state ELSE [state EXCEPT ![t] = "SLEEP_IRQ"])
  /\ masked' = masked \ {irq[t]}
  /\ UNCHANGED <<irq, irq_task_map>>

\* port_send to a port its owner sleeps on.
Wake(t, u) ==
  /\ Calling(t)
  /\ state[u] = "BLOCKED"
  /\ state' = [state EXCEPT ![u] = "READY"]
  /\ UNCHANGED <<taskVars, CurrentTaskNum, CurrentTask, SystemTimer, walk, target,
                 irqVars, eoiVars>>

\* sem_release with a waiter, which gets the processor at once.
Handoff(t, u) ==
  /\ Calling(t)
  /\ state[u] = "BLOCKED"
  /\ state' = [state EXCEPT ![u] = "READY"]
  /\ PsPreemptTask(u)
  /\ UNCHANGED <<taskVars, CurrentTaskNum, CurrentTask, SystemTimer, irqVars, eoiVars>>

\* ScCreateThread.
PsCreateNewTask(t, u) ==
  /\ Calling(t)
  /\ state[u] = "NONE"
  /\ u - 1 \in Task /\ state[u - 1] # "NONE"
  /\ state' = [state EXCEPT ![u] = "READY"]
  /\ PsAddTaskToQueue(u)
  /\ UNCHANGED <<CurrentTaskNum, CurrentTask, SystemTimer, walk, target,
                 irqVars, eoiVars>>

-----------------------------------------------------------------------------
Walk == SwitchSkip \/ SwitchReap \/ SwitchPick \/ PreemptSkip \/ PreemptPick

Next ==
  \/ Walk
  \/ timer_irq
  \/ \E n \in Irq :
       Raise(n) \/ irq_dispatch(n) \/ irq_dispatch_Fault(n) \/ irq_dispatch_Stale(n)
  \/ \E t \in Task :
       \/ ScWait(t) \/ ScSleep(t) \/ Block(t) \/ PsTerminateTask(t) \/ ScSleepIRQ(t)
       \/ \E n \in Irq : ScHandleIRQ(t, n)
       \/ \E u \in Task : Wake(t, u) \/ Handoff(t, u) \/ PsCreateNewTask(t, u)

Spec == Init /\ [][Next]_schedVars

\* The clock ticks while user code runs, a loop of the kernel goes on, and a
\* deliverable interrupt is taken as soon as interrupts are enabled.
FairSpec ==
  /\ Spec
  /\ WF_schedVars(Walk)
  /\ WF_schedVars(timer_irq)
  /\ \A n \in Irq : SF_schedVars(irq_dispatch(n))

-----------------------------------------------------------------------------
(* Correctness *)

TypeOK ==
  /\ TaskList \in [Slot -> Task \cup {None}]
  /\ MaxUsedProc \in Slot
  /\ CurrentTaskNum \in Slot
  /\ CurrentTask \in Task
  /\ SystemTimer \in 0..TimerPeriod
  /\ walk \in {"user", "switch", "preempt"}
  /\ target \in Task
  /\ state \in [Task -> {"NONE", "READY", "RUNNING", "SLEEP_TIMER", "SLEEP_IRQ",
                         "BLOCKED", "DEAD", "GONE"}]
  /\ irq \in [Task -> {0} \cup Irq]
  /\ irq_task_map \in [Irq -> Task \cup {None}]
  /\ masked \subseteq Irq
  /\ pending \subseteq Irq
  /\ inservice \subseteq Irq
  /\ eoi \subseteq Task

\* MaxUsedProc bounds the slots in use, whatever order threads come and go in:
\* the timer scan (task.c:229) passes over no sleeper.
SlotsCovered == \A i \in Slot : TaskList[i] # None => i =< MaxUsedProc

\* PsSwitchTask runs on the kernel stack of the current thread, dead or not, which
\* is in the last page of its structure (task.c:90): it chooses another thread
\* before any walk comes round to clean this one up.
NeverFreesOwnStack == state[CurrentTask] # "GONE"

Listed(t) == \E i \in Slot : TaskList[i] = t

\* The loop of PsPreemptTask (task.c:185-196) has no exit but the slot of its
\* target, which must then be a thread that was made ready and has not been
\* switched to.  That is so of semaphores, and of drivers that keep to the manual.
PreemptTargetListed ==
  walk = "preempt" => Listed(target) /\ state[target] = "READY" /\ target # CurrentTask

\* Of other drivers the most that can be said: a full list loses threads, lines
\* change hands, but a thread PsPreemptTask looks for in vain, for ever, is one
\* that ended as the handler of an interrupt (int.c:38-43).
OnlyGoneUnlisted ==
  walk = "preempt" /\ ~Listed(target) =>
    state[target] = "GONE" /\ \E n \in Irq : irq_task_map[n] = target

\* In user mode exactly one thread is running, the one whose slot the next walk
\* starts behind.
OneRunning ==
  walk = "user" => /\ \A t \in Task : state[t] = "RUNNING" <=> t = CurrentTask
                   /\ TaskList[CurrentTaskNum] = CurrentTask

\* Every line in service is ended by one interrupted thread still to resume:
\* none stays in service for good and blocks the lines behind it.
EoiBalanced == Cardinality(inservice) = Cardinality(eoi)

\* A line is unmasked only while its handler sleeps, so an interrupt that comes
\* at any other time stays pending.
UnmaskedHandlerAsleep ==
  \A n \in Irq \ masked : /\ irq_task_map[n] # None
                          /\ state[irq_task_map[n]] = "SLEEP_IRQ"
                          /\ irq[irq_task_map[n]] = n

\* No interrupt is dropped: one is taken only to wake the thread that sleeps on it.
NoIrqDropped ==
  [][\A n \in pending \ pending' : \E t \in Task :
       irq[t] = n /\ state[t] = "SLEEP_IRQ" /\ state'[t] = "READY"]_schedVars

\* Every walk over the task list ends: somebody is always ready to run.
KernelReturns == walk # "user" ~> walk = "user"

Preempting == (\E n \in Irq : irq_dispatch(n)) \/ (\E t, u \in Task : Handoff(t, u))

Storm == []<><<Preempting>>_schedVars

\* ScSleep (syscall.c:17-30, task.c:225-237): a thread that sleeps on the timer is
\* made ready by a later scan, storm or not, and then runs, but for a storm.
TimerSleeperWakes ==
  /\ \A t \in Task : state[t] = "SLEEP_TIMER" ~> state[t] = "READY"
  /\ Storm \/ \A t \in Task : state[t] = "SLEEP_TIMER" ~> state[t] = "RUNNING"

\* The list is served in turn: a ready thread with a slot runs, unless
\* PsPreemptTask never stops moving CurrentTaskNum.
ReadyRuns ==
  Storm \/ \A t \in Task :
    state[t] = "READY" /\ Listed(t) ~> state[t] = "RUNNING"

\* man2/os_sleep_irq.2:10, "causes the calling task to sleep until the interrupt
\* it is handling occurs".
IrqHeard ==
  Storm \/ \A t \in Task, n \in Irq :
    state[t] = "SLEEP_IRQ" /\ irq[t] = n /\ n \in pending ~> state[t] # "SLEEP_IRQ"
=============================================================================
