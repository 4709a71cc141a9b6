--------------------------------- MODULE Sem ---------------------------------
(***************************************************************************)
(* Semaphores (src/kernel/sem.c) over the resource table and the linked    *)
(* queues.  A system call runs alone up to the point where it gives up the *)
(* processor, so each is one action; sem_release also hands the processor  *)
(* to the thread it wakes, which is Handoff of Sched.tla.  "READY" stands  *)
(* for tREADY and tRUNNING.                                                *)
(*                                                                         *)
(* The clients are as the programs of this system are: a semaphore created *)
(* with 1 is a lock, released by the thread that has it (malloc and free   *)
(* of src/lib/memory.c; mutex and sem_ring of src/srv/ne2000/ne2k.c), and  *)
(* one created with 0 is a signal that any thread releases (sem_xmit_done).*)
(* Locks are nested in one order, later ones outside (mutex, sem_ring), and *)
(* no thread waits for a signal while it has a lock.                       *)
(*                                                                         *)
(* sem_destroy has an empty body: ids, queues and waiters stay for ever.   *)
(***************************************************************************)
EXTENDS Queue, Resource

CONSTANTS
  Task,       \* threads
  MaxCount    \* bound: count of a signal

VARIABLES
  count,          \* count[id]: sem.count
  lock,           \* ids created with 1
  state,          \* task.state
  sleeping_on,    \* task.sleeping_on
  has             \* has[t]: the locks t has acquired and not released

ASSUME SemAssumption ==
  /\ QueueId = Id
  /\ Item = Task
  /\ MaxCount \in Nat

semVars == <<count, lock>>
taskVars == <<state, sleeping_on>>
vars == <<queueVars, rtype, rfree, semVars, taskVars, has>>

Init ==
  /\ RsrcInit
  /\ QueueInit
  /\ count = [id \in Id |-> 0]
  /\ lock = {}
  /\ state = [t \in Task |-> "READY"]
  /\ sleeping_on = [t \in Task |-> 0]
  /\ has = [t \in Task |-> {}]

IsSem(id) == IsLive("SEM", id)

-----------------------------------------------------------------------------
\* With a full table sem_create returns 0 and loses the structure.
sem_create(t, n) ==
  /\ state[t] = "READY"
  /\ rfree # <<>>
  /\ rsrc_new("SEM")
  /\ queue_new(NewId)
  /\ count' = [count EXCEPT ![NewId] = n]
  /\ lock' = IF n = 1 THEN lock \cup {NewId} ELSE lock
  /\ UNCHANGED <<taskVars, has>>

MayAcquire(t, id) == IF id \in lock THEN \A l \in has[t] : l > id ELSE has[t] = {}

MayRelease(t, id) == IF id \in lock THEN id \in has[t] ELSE count[id] < MaxCount

Gets(t, id) == IF id \in lock THEN [has EXCEPT ![t] = @ \cup {id}] ELSE has

\* t has passed lock id on to u, NULL if nobody waits.
Passed(t, u, id) ==
  IF id \in lock
  THEN [v \in Task |-> IF v = u THEN has[v] \cup {id}
                       ELSE IF v = t THEN has[v] \ {id} ELSE has[v]]
  ELSE has

\* Faulty variants of sem_acquire: the test is off by one; a thread that has to
\* wait is not counted.
sem_acquire_Zero(t, id) ==
  /\ state[t] = "READY"
  /\ IsSem(id) /\ MayAcquire(t, id)
  /\ count' = [count EXCEPT ![id] = @ - 1]
  /\ \/ /\ count[id] >= 0
        /\ has' = Gets(t, id)
        /\ UNCHANGED <<taskVars, queueVars>>
     \/ /\ count[id] < 0
        /\ queue_addTail(id, t)
        /\ sleeping_on' = [sleeping_on EXCEPT ![t] = id]
        /\ state' = [state EXCEPT ![t] = "SLEEP_SEM"]
        /\ UNCHANGED has
  /\ UNCHANGED <<lock, rtype, rfree>>

sem_acquire_Uncounted(t, id) ==
  /\ state[t] = "READY"
  /\ IsSem(id) /\ MayAcquire(t, id)
  /\ \/ /\ count[id] > 0
        /\ count' = [count EXCEPT ![id] = @ - 1]
        /\ has' = Gets(t, id)
        /\ UNCHANGED <<taskVars, queueVars>>
     \/ /\ count[id] =< 0
        /\ queue_addTail(id, t)
        /\ sleeping_on' = [sleeping_on EXCEPT ![t] = id]
        /\ state' = [state EXCEPT ![t] = "SLEEP_SEM"]
        /\ UNCHANGED <<has, count>>
  /\ UNCHANGED <<lock, rtype, rfree>>

\* A thread that slept does not look at count again: it was chosen.
sem_acquire(t, id) ==
  /\ state[t] = "READY"
  /\ IsSem(id) /\ MayAcquire(t, id)
  /\ count' = [count EXCEPT ![id] = @ - 1]
  /\ \/ /\ count[id] > 0
        /\ has' = Gets(t, id)
        /\ UNCHANGED <<taskVars, queueVars>>
     \/ /\ count[id] =< 0
        /\ queue_addTail(id, t)
        /\ sleeping_on' = [sleeping_on EXCEPT ![t] = id]
        /\ state' = [state EXCEPT ![t] = "SLEEP_SEM"]
        /\ UNCHANGED has
  /\ UNCHANGED <<lock, rtype, rfree>>

\* Faulty variant of Wake: the waiter is woken and stays in the queue.
Wake_Peek(id) ==
  /\ HeadData(id) # NULL
  /\ state' = [state EXCEPT ![HeadData(id)] = "READY"]
  /\ UNCHANGED queueVars

\* The first waiter leaves the queue and gets the processor (PsPreemptTask).
Wake(id) ==
  /\ HeadData(id) # NULL
  /\ state' = [state EXCEPT ![HeadData(id)] = "READY"]
  /\ queue_removeHead(id)

sem_release(t, id) ==
  /\ state[t] = "READY"
  /\ IsSem(id) /\ MayRelease(t, id)
  /\ count' = [count EXCEPT ![id] = @ + 1]
  /\ \/ Wake(id)
     \/ HeadData(id) = NULL /\ UNCHANGED <<state, queueVars>>
  /\ has' = Passed(t, HeadData(id), id)
  /\ UNCHANGED <<lock, sleeping_on, rtype, rfree>>

-----------------------------------------------------------------------------
Next ==
  \E t \in Task :
    \/ \E n \in {0, 1} : sem_create(t, n)
    \/ \E id \in Id : sem_acquire(t, id) \/ sem_release(t, id)

Spec == Init /\ [][Next]_vars

\* What the programs do between acquiring and releasing a lock ends.
FairSpec == Spec /\ \A t \in Task, id \in Id : SF_vars(id \in lock /\ sem_release(t, id))

-----------------------------------------------------------------------------
(* Correctness *)

TypeOK ==
  /\ QueueTypeOK
  /\ RsrcTypeOK
  /\ count \in [Id -> Int]
  /\ lock \subseteq Id
  /\ state \in [Task -> {"READY", "SLEEP_SEM"}]
  /\ sleeping_on \in [Task -> Id \cup {0}]
  /\ has \in [Task -> SUBSET Id]

Waiting(t, id) == \E i \in DOMAIN Line(id) : Line(id)[i] = t

\* sem_release makes the thread it finds ready without looking at its state
\* (sem.c:55-57): that is right because a thread is queued exactly while it
\* sleeps in sem_acquire, once, and in the queue of the semaphore it called.  A
\* count below 0 is the number of waiters, and nobody waits at 0 or above:
\* sem_acquire may take a permit without looking at the queue (sem.c:31-34).
SleepersQueued ==
  /\ \A t \in Task, id \in Id :
       Waiting(t, id) <=> state[t] = "SLEEP_SEM" /\ sleeping_on[t] = id
  /\ \A id \in Id : \A i, j \in DOMAIN Line(id) : Line(id)[i] = Line(id)[j] => i = j
  /\ \A id \in Id : IsSem(id) => queue[id].count = IF count[id] < 0 THEN -count[id] ELSE 0

\* At most one thread has a lock, also while the kernel passes it on, and the
\* permit is there again exactly when nobody has it.
MutualExclusion ==
  \A id \in lock : /\ \A t, u \in Task : id \in has[t] /\ id \in has[u] => t = u
                   /\ count[id] = 1 <=> \A t \in Task : id \notin has[t]

\* sem_acquire and sem_release are those of first-come-first-served counting
\* semaphores: no permit is lost or made, and nobody overtakes a waiter.
Abstract == INSTANCE Semaphore
  WITH Name <- Id, Client <- Task,
       open <- [id \in Id |-> IsSem(id)],
       permits <- [id \in Id |-> IF count[id] > 0 THEN count[id] ELSE 0],
       line <- [id \in Id |-> Line(id)]
ImplementsSemaphore == Abstract!Spec

\* A thread that waits for a lock gets it, however often others ask for it.
LockGranted ==
  \A t \in Task, id \in Id :
    (id \in lock /\ state[t] = "SLEEP_SEM" /\ sleeping_on[t] = id) ~> id \in has[t]
=============================================================================
