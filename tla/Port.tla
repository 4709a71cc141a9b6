-------------------------------- MODULE Port --------------------------------
(***************************************************************************)
(* Message ports (src/kernel/port.c) together with what they depend on:    *)
(* the resource table (Resource.tla) and the part of a thread's life that  *)
(* ports see (creation, sleep, wake-up, termination, clean-up).            *)
(*                                                                         *)
(* System calls and interrupts enter the kernel through interrupt gates,   *)
(* so a call runs alone up to the point where it gives up the processor.   *)
(* One action below is one such run.  Which ready thread runs next is left *)
(* open; Sched.tla models the scheduler that makes the choice.  "READY"    *)
(* stands for tREADY and tRUNNING.                                         *)
(*                                                                         *)
(* A call that returns an error changes nothing, so it is not an action:   *)
(* the ...Result operators give the value each call returns, in the order  *)
(* the code tests, and an action is a call whose result is success.        *)
(***************************************************************************)
EXTENDS Resource, FiniteSets

CONSTANTS
  NBoot,      \* threads started by _start, one per boot process
  NTasks,     \* bound: threads created in a behaviour
  Restricts,  \* values a program passes to port_create as restrict
  Opts,       \* values it passes to port_option as opt
  Args,       \* values it passes to port_option as arg
  Sizes,      \* message sizes a program passes
  MaxQueue,   \* bound: messages queued on one port
  MaxPages,   \* bound: 4k message pages ever allocated
  MaxRef,     \* bound: a port's refcount
  MaxThreads  \* bound: an address space's refcount

ASSUME PortAssumption ==
  /\ NBoot \in Nat \ {0}
  /\ NTasks \in Nat
  /\ NBoot =< NTasks
  /\ NBoot + 1 < RMax
  /\ Restricts \subseteq Int
  /\ Opts \subseteq Int
  /\ Args \subseteq Int
  /\ Sizes \subseteq Int
  /\ MaxQueue \in Nat
  /\ MaxPages \in Nat
  /\ MaxRef \in Nat
  /\ MaxThreads \in Nat

VARIABLES
  created,  \* threads created so far: 1..created have a task structure
  state,    \* task.state
  parent,   \* task.Parent, named by the thread the process booted with
  rid,      \* task.rid, 0 if the table was full when the thread was created
  threads,  \* process.addr.refcount
  waiting,  \* port a thread is inside port_recv for, else 0; while it sleeps
            \* this is task.sleeping_on
  owner, restrict, slaved, refcount, queue,
            \* fields of the msg_port registered under an id, 0 or empty for an
            \* id that is not a port: threads and ports are named by their ids
  pool,     \* msg_pool: recycled 4k pages
  npages    \* 4k pages port_send has taken from MmAllocPages

taskVars == <<created, parent, rid, threads>>
linkVars == <<owner, restrict, slaved, refcount>>
portVars == <<linkVars, queue>>
pageVars == <<pool, npages>>
vars == <<rsrcVars, taskVars, state, waiting, portVars, pageVars>>

Task == 1..NTasks
Page == 1..MaxPages

Opt == [NOWAIT |-> 1, SETRESTRICT |-> 2, SETDEFAULT |-> 3, SLAVE |-> 4]

\* rsrc_find_port(id) # NULL
IsPort(id) == IsLive("PORT", id)

\* A thread in user mode: it may make any system call.
Running(t) == state[t] = "READY" /\ waiting[t] = 0

\* The task structure of u has been returned to the page allocator.
Freed(u) == state[u] = "FREED"

\* _start: the namer's port is created first and given to thread 1.
Init ==
  /\ rtype = [id \in Id |-> IF id = 1 THEN "PORT"
                            ELSE IF id =< NBoot + 1 THEN "TASK" ELSE "NONE"]
  /\ rfree = [i \in 1..(RMax - NBoot - 2) |-> NBoot + 1 + i]
  /\ created = NBoot
  /\ state = [t \in Task |-> IF t =< NBoot THEN "READY" ELSE "NONE"]
  /\ parent = [t \in Task |-> IF t =< NBoot THEN t ELSE 0]
  /\ rid = [t \in Task |-> IF t =< NBoot THEN t + 1 ELSE 0]
  /\ threads = [t \in Task |-> IF t =< NBoot THEN 1 ELSE 0]
  /\ waiting = [t \in Task |-> 0]
  /\ owner = [id \in Id |-> IF id = 1 THEN 1 ELSE 0]
  /\ restrict = [id \in Id |-> 0]
  /\ slaved = [id \in Id |-> 0]
  /\ refcount = [id \in Id |-> IF id = 1 THEN 1 ELSE 0]
  /\ queue = [id \in Id |-> <<>>]
  /\ pool = <<>>
  /\ npages = 0

-----------------------------------------------------------------------------
(* port_create, port_destroy *)

\* The structure registered under id becomes one of owner t, or (t = 0) is
\* returned to the heap.
Structure(id, t, r) ==
  /\ owner' = [owner EXCEPT ![id] = t]
  /\ restrict' = [restrict EXCEPT ![id] = r]
  /\ slaved' = [slaved EXCEPT ![id] = 0]
  /\ refcount' = [refcount EXCEPT ![id] = IF t = 0 THEN 0 ELSE 1]
  /\ queue' = [queue EXCEPT ![id] = <<>>]

\* Returns NewId.  With a full table it returns 0 and registers nothing.
port_create(t, r) ==
  /\ Running(t)
  /\ rfree # <<>>
  /\ rsrc_new("PORT")
  /\ Structure(NewId, t, r)
  /\ UNCHANGED <<state, waiting, taskVars, pageVars>>

\* Faulty variants of DestroyResult: no owner test; no reference test.
DestroyResult_AnyOwner(t, id) ==
  IF ~IsPort(id) THEN "ERR_RESOURCE"
  ELSE IF refcount[id] # 1 THEN "ERR_RESOURCE"
  ELSE "ERR_NONE"

DestroyResult_AnyRef(t, id) ==
  IF ~IsPort(id) THEN "ERR_RESOURCE"
  ELSE IF owner[id] # t THEN "ERR_PERMISSION"
  ELSE "ERR_NONE"

DestroyResult(t, id) ==
  IF ~IsPort(id) THEN "ERR_RESOURCE"
  ELSE IF owner[id] # t THEN "ERR_PERMISSION"
  ELSE IF refcount[id] # 1 THEN "ERR_RESOURCE"
  ELSE "ERR_NONE"

\* Queued messages go with the structure: their memory is never recycled.  A
\* slave that is destroyed does not give back its reference on its master.
port_destroy(t, id) ==
  /\ Running(t)
  /\ DestroyResult(t, id) = "ERR_NONE"
  /\ rsrc_del(id)
  /\ Structure(id, 0, 0)
  /\ UNCHANGED <<state, waiting, taskVars, pageVars>>

-----------------------------------------------------------------------------
(* port_option *)

OptionResult(t, id, opt, arg) ==
  IF ~IsPort(id) THEN "ERR_RESOURCE"
  ELSE IF owner[id] # t THEN "ERR_PERMISSION"
  ELSE IF opt = Opt.SETRESTRICT THEN "ERR_NONE"
  ELSE IF opt = Opt.SLAVE /\ arg = 0 THEN "ERR_NONE"
  ELSE IF opt = Opt.SLAVE /\ ~IsPort(arg) THEN "ERR_RESOURCE"
  ELSE IF opt = Opt.SLAVE /\ owner[arg] # t THEN "ERR_PERMISSION"
  ELSE IF opt = Opt.SLAVE THEN "ERR_NONE"
  ELSE "ERR_PERMISSION"

\* KePanic: the master a port is slaved to is no longer registered.
OptionPanics(id) == slaved[id] # 0 /\ ~IsPort(slaved[id])

\* Faulty variant of Reslave: a slave that is given the master it has already
\* takes a reference from it.
Reslave_SameMaster(id, arg) ==
  /\ refcount' = [i \in Id |-> IF i = slaved[id] THEN refcount[i] - 1
                               ELSE IF i = arg THEN refcount[i] + 1 ELSE refcount[i]]
  /\ slaved' = [slaved EXCEPT ![id] = arg]

\* The new master gains a reference before the old one loses its own; they
\* may be the same port, and either may be the slave itself.
Reslave(id, arg) ==
  /\ refcount' = [i \in Id |-> refcount[i] + (IF i = arg THEN 1 ELSE 0)
                                          - (IF i = slaved[id] THEN 1 ELSE 0)]
  /\ slaved' = [slaved EXCEPT ![id] = arg]

port_option(t, id, opt, arg) ==
  /\ Running(t)
  /\ OptionResult(t, id, opt, arg) = "ERR_NONE"
  /\ \/ /\ opt = Opt.SETRESTRICT
        /\ restrict' = [restrict EXCEPT ![id] = arg]
        /\ UNCHANGED <<slaved, refcount>>
     \/ /\ opt = Opt.SLAVE
        /\ ~OptionPanics(id)
        /\ Reslave(id, arg)
        /\ \A i \in Id : refcount'[i] =< MaxRef
        /\ UNCHANGED restrict
  /\ UNCHANGED <<owner, queue, state, waiting, rsrcVars, taskVars, pageVars>>

-----------------------------------------------------------------------------
(* port_send *)

\* f->owner == CurrentTask, or a thread of the same process.  A freed owner is
\* read through a dangling pointer: the test may come out either way.
SourceAllowed(t, src) ==
  \/ owner[src] = t
  \/ parent[owner[src]] = parent[t]
  \/ Freed(owner[src])

Restricted(id, src) == restrict[id] # 0 /\ restrict[id] # src

\* The port whose queue a message to dst joins.
Target(dst) == IF slaved[dst] = 0 THEN dst ELSE slaved[dst]

SendResult(t, src, dst, size) ==
  IF ~IsPort(src) THEN "ERR_SENDPORT"
  ELSE IF ~SourceAllowed(t, src) THEN "ERR_PERMISSION"
  ELSE IF ~IsPort(dst) THEN "ERR_RECVPORT"
  ELSE IF Restricted(dst, src) THEN "ERR_PERMISSION"
  ELSE IF ~IsPort(Target(dst)) THEN "ERR_RESOURCE"
  ELSE IF slaved[dst] # 0 /\ slaved[Target(dst)] # 0 THEN "ERR_RESOURCE"
  ELSE IF Restricted(Target(dst), src) THEN "ERR_PERMISSION"
  ELSE IF size < 1 \/ size > 4096 THEN "ERR_MEMORY"
  ELSE "OK"    \* the code returns size

\* Messages of up to 1024 bytes live in kernel heap blocks; larger ones in a
\* 4k page, recycled through msg_pool.
Paged(size) == size >= 1025

CarrierPage(size) ==
  IF ~Paged(size) THEN 0 ELSE IF pool # <<>> THEN Head(pool) ELSE npages + 1

\* Faulty variant of TakeCarrier: the page is left in the pool.
TakeCarrier_KeepPool(size) ==
  /\ pool' = pool
  /\ npages' = IF Paged(size) /\ pool = <<>> THEN npages + 1 ELSE npages

TakeCarrier(size) ==
  /\ pool' = IF Paged(size) /\ pool # <<>> THEN Tail(pool) ELSE pool
  /\ npages' = IF Paged(size) /\ pool = <<>> THEN npages + 1 ELSE npages

\* Faulty variant of WakeOwner: the owner is woken only by a message that finds
\* the queue empty.
WakeOwner_FirstOnly(t, q, dst) ==
  LET o == owner[q] IN
  \/ /\ state[o] = "SLEEP_PORT" /\ waiting[o] = dst /\ queue[q] = <<>>
     /\ state' = [state EXCEPT ![o] = "READY"]
  \/ /\ ~(state[o] = "SLEEP_PORT" /\ waiting[o] = dst /\ queue[q] = <<>>)
     /\ state' = state

\* The owner of q is made ready when it sleeps on the port the message was
\* addressed to.  A freed owner is a dangling pointer: the sender faults in
\* the kernel and is terminated, or the bytes there do not match.
WakeOwner(t, q, dst) ==
  LET o == owner[q] IN
  \/ /\ state[o] = "SLEEP_PORT" /\ waiting[o] = dst
     /\ state' = [state EXCEPT ![o] = "READY"]
  \/ /\ ~(state[o] = "SLEEP_PORT" /\ waiting[o] = dst)
     /\ state' = state
  \/ /\ Freed(o)
     /\ state' = [state EXCEPT ![t] = "DEAD"]

port_send(t, src, dst, size) ==
  /\ Running(t)
  /\ SendResult(t, src, dst, size) = "OK"
  /\ LET q == Target(dst)
         m == [to |-> dst, size |-> size, page |-> CarrierPage(size)]
     IN /\ Len(queue[q]) < MaxQueue
        /\ m.page =< MaxPages
        /\ TakeCarrier(size)
        /\ queue' = [queue EXCEPT ![q] = Append(@, m)]
        /\ WakeOwner(t, q, dst)
  /\ UNCHANGED <<waiting, rsrcVars, taskVars, linkVars>>

\* Reading f->owner->Parent of a freed task structure faults in the kernel and
\* terminates the caller.
SourceFault(t, src) ==
  /\ Running(t)
  /\ IsPort(src)
  /\ owner[src] # t
  /\ Freed(owner[src])
  /\ state' = [state EXCEPT ![t] = "DEAD"]
  /\ UNCHANGED <<waiting, portVars, rsrcVars, taskVars, pageVars>>

-----------------------------------------------------------------------------
(* port_recv *)

RecvResult(t, id) ==
  IF ~IsPort(id) THEN "ERR_RECVPORT"
  ELSE IF owner[id] # t THEN "ERR_PERMISSION"
  ELSE "OK"

\* Faulty variant of RecvLoop: an if instead of the while, so that a wake-up is
\* taken for a message.
RecvLoop_NoRecheck(t, id) ==
  \/ /\ queue[id] = <<>> /\ waiting[t] = 0
     /\ state' = [state EXCEPT ![t] = "SLEEP_PORT"]
     /\ waiting' = [waiting EXCEPT ![t] = id]
     /\ UNCHANGED <<queue, pool>>
  \/ /\ queue[id] # <<>> \/ waiting[t] # 0
     /\ queue' = [queue EXCEPT ![id] = IF @ = <<>> THEN @ ELSE Tail(@)]
     /\ waiting' = [waiting EXCEPT ![t] = 0]
     /\ UNCHANGED <<state, pool>>

\* The while loop: sleep as long as the queue is empty, then take its head.
\* p, found when the call began, is not looked up again.
RecvLoop(t, id) ==
  \/ /\ queue[id] = <<>>
     /\ state' = [state EXCEPT ![t] = "SLEEP_PORT"]
     /\ waiting' = [waiting EXCEPT ![t] = id]
     /\ UNCHANGED <<queue, pool>>
  \/ /\ queue[id] # <<>>
     /\ LET m == Head(queue[id]) IN
        /\ queue' = [queue EXCEPT ![id] = Tail(@)]
        /\ pool' = IF Paged(m.size) THEN <<m.page>> \o pool ELSE pool
     /\ waiting' = [waiting EXCEPT ![t] = 0]
     /\ UNCHANGED state

port_recv(t, id) ==
  /\ Running(t)
  /\ RecvResult(t, id) = "OK"
  /\ RecvLoop(t, id)
  /\ UNCHANGED <<linkVars, rsrcVars, taskVars, npages>>

\* PsSwitchTask returns to a thread that was made ready inside port_recv.
RecvResume(t) ==
  /\ state[t] = "READY"
  /\ waiting[t] # 0
  /\ RecvLoop(t, waiting[t])
  /\ UNCHANGED <<linkVars, rsrcVars, taskVars, npages>>

-----------------------------------------------------------------------------
(* Threads *)

\* ScCreateThread: a new thread of the caller's process.
PsCreateNewTask(t) ==
  LET u == created + 1 IN
  /\ Running(t)
  /\ u \in Task
  /\ threads[parent[t]] < MaxThreads
  /\ created' = u
  /\ state' = [state EXCEPT ![u] = "READY"]
  /\ parent' = [parent EXCEPT ![u] = parent[t]]
  /\ threads' = [threads EXCEPT ![parent[t]] = @ + 1]
  /\ rid' = [rid EXCEPT ![u] = NewId]
  /\ rsrc_new("TASK")
  /\ UNCHANGED <<waiting, portVars, pageVars>>

\* The early return of PsCreateNewTask, no room for the stack: the
\* address space keeps the reference taken for the thread.
PsCreateNewTaskFails(t) ==
  /\ Running(t)
  /\ threads[parent[t]] < MaxThreads
  /\ threads' = [threads EXCEPT ![parent[t]] = @ + 1]
  /\ UNCHANGED <<created, parent, rid, state, waiting, rsrcVars, portVars, pageVars>>

\* Faulty variant of ScTerminateProcess: the thread's id is released at once
\* and again at clean-up.
ScTerminateProcess_FreesRid(t) ==
  /\ Running(t)
  /\ state' = [state EXCEPT ![t] = "DEAD"]
  /\ rsrc_del(rid[t])
  /\ UNCHANGED <<waiting, portVars, taskVars, pageVars>>

ScTerminateProcess(t) ==
  /\ Running(t)
  /\ state' = [state EXCEPT ![t] = "DEAD"]
  /\ UNCHANGED <<waiting, portVars, rsrcVars, taskVars, pageVars>>

\* Faulty variant of PsCleanUpTask: the address space is freed with its last
\* but one reference.
PsCleanUpTask_Early(t) ==
  /\ state[t] = "DEAD"
  /\ rsrc_del(rid[t])
  /\ threads' = [threads EXCEPT ![parent[t]] = @ - 1]
  /\ state' = [state EXCEPT ![t] = IF threads[parent[t]] =< 2 THEN "FREED" ELSE "REAPED"]
  /\ UNCHANGED <<created, parent, rid, waiting, portVars, pageVars>>

\* PsSwitchTask meets a dead thread.  Its ports and messages stay.  With the last
\* reference the address space is freed, and the task structure with it.
PsCleanUpTask(t) ==
  /\ state[t] = "DEAD"
  /\ rsrc_del(rid[t])
  /\ threads' = [threads EXCEPT ![parent[t]] = @ - 1]
  /\ state' = [state EXCEPT ![t] = IF threads[parent[t]] = 1 THEN "FREED" ELSE "REAPED"]
  /\ UNCHANGED <<created, parent, rid, waiting, portVars, pageVars>>

-----------------------------------------------------------------------------
Next ==
  \E t \in Task :
    \/ \E r \in Restricts : port_create(t, r)
    \/ \E id \in Id : port_destroy(t, id)
    \/ \E id \in Id, opt \in Opts, arg \in Args : port_option(t, id, opt, arg)
    \/ \E src, dst \in Id, size \in Sizes : port_send(t, src, dst, size)
    \/ \E src \in Id : SourceFault(t, src)
    \/ \E id \in Id : port_recv(t, id)
    \/ RecvResume(t)
    \/ PsCreateNewTask(t)
    \/ PsCreateNewTaskFails(t)
    \/ ScTerminateProcess(t)
    \/ PsCleanUpTask(t)

Spec == Init /\ [][Next]_vars

-----------------------------------------------------------------------------
(* Correctness *)

Message == [to : Id, size : Sizes \cap (1..4096), page : 0..MaxPages]

TypeOK ==
  /\ RsrcTypeOK
  /\ created \in NBoot..NTasks
  /\ state \in [Task -> {"NONE", "READY", "SLEEP_PORT", "DEAD", "REAPED", "FREED"}]
  /\ parent \in [Task -> 0..NBoot]
  /\ rid \in [Task -> 0..(RMax - 1)]
  /\ threads \in [Task -> Nat]
  /\ waiting \in [Task -> 0..(RMax - 1)]
  /\ owner \in [Id -> 0..NTasks]
  /\ restrict \in [Id -> Int]
  /\ slaved \in [Id -> 0..(RMax - 1)]
  /\ refcount \in [Id -> Nat]
  /\ queue \in [Id -> Seq(Message)]
  /\ pool \in Seq(Page)
  /\ npages \in 0..MaxPages

Slaves(id) == {s \in Id : IsPort(s) /\ slaved[s] = id}

\* A port's master is registered and has the slave's owner (port.c:71-92): the
\* KePanic at port.c:87 is unreachable, and the lookup of the master in
\* port_send (port.c:139) never fails.
MasterSound ==
  \A id \in Id : IsPort(id) /\ slaved[id] # 0 =>
    /\ IsPort(slaved[id])
    /\ owner[slaved[id]] = owner[id]

\* refcount counts the port itself and at least its slaves, so refcount = 1,
\* which lets port_destroy free the structure, means no port routes to it.
RefcountCoversSlaves ==
  \A id \in Id : IsPort(id) => refcount[id] >= 1 + Cardinality(Slaves(id))

\* port_recv keeps the pointer p across PsSwitchTask (port.c:209-228): whatever
\* other threads did meanwhile, the id still names a port of the sleeper.
SleeperOwnsPort ==
  \A t \in Task : waiting[t] # 0 => IsPort(waiting[t]) /\ owner[waiting[t]] = t

\* A thread woken inside port_recv finds a message, unless its port is a slave:
\* then port_send wakes it for a message it put in the master's queue, and only
\* the while of port.c:216 keeps it from taking from an empty queue.
WokenHasMessage ==
  \A t \in Task : waiting[t] # 0 /\ state[t] = "READY" =>
    queue[waiting[t]] # <<>> \/ slaved[waiting[t]] # 0

\* A message addressed to a port is never left in its queue with the owner
\* asleep on that port: only a message routed there through a slave can be.
DirectMessageWakes ==
  \A t \in Task : state[t] = "SLEEP_PORT" =>
    \A i \in 1..Len(queue[waiting[t]]) :
      queue[waiting[t]][i].to # waiting[t]

\* man2/port_recv.2:11, "This call blocks until a message is received": nobody
\* sleeps in port_recv on a port that holds a message.
NoLostWakeup ==
  \A t \in Task : state[t] = "SLEEP_PORT" => queue[waiting[t]] = <<>>

\* The 4k page of a queued message is in no other message and not in msg_pool.
QueuedPages(id) == {i \in 1..Len(queue[id]) : queue[id][i].page # 0}
PagesDistinct ==
  /\ \A i, j \in 1..Len(pool) : pool[i] = pool[j] => i = j
  /\ \A id \in Id : \A i \in QueuedPages(id) :
       LET pg == queue[id][i].page IN
       /\ \A k \in 1..Len(pool) : pool[k] # pg
       /\ \A other \in Id : \A j \in QueuedPages(other) :
            queue[other][j].page = pg => <<id, i>> = <<other, j>>

Attached == {t \in 1..created : state[t] \notin {"REAPED", "FREED"}}

\* The address space's refcount covers the threads not yet cleaned up
\* (task.c:43, task.c:393) ...
ThreadsCounted ==
  \A p \in 1..NBoot : threads[p] >= Cardinality({t \in Attached : parent[t] = p})

\* ... so it is freed (task.c:397-424) only when no thread can run in it.
AspaceOutlivesThreads ==
  \A t \in Task : Freed(t) => \A u \in Attached : parent[u] # parent[t]

\* A thread's id stays its own until it is cleaned up: rsrc_del(Task->rid) at
\* task.c:388 never frees the id of a port or of another thread.
RidsSound ==
  \A t \in Attached : rid[t] # 0 =>
    /\ rtype[rid[t]] = "TASK"
    /\ \A u \in Attached : rid[u] = rid[t] => u = t

\* Ports implement mailboxes: options and thread life never touch a queue, a
\* message joins the tail of one queue (the master's, for a slave), and a
\* blocked port_recv ends only with a message of the port it was called on.
Mail == INSTANCE Mailbox
  WITH Box <- Id, Client <- Task, Msg <- Message,
       holder <- owner, box <- queue,
       blocked <- waiting
ImplementsMailbox == Mail!Spec

\* A thread blocked on a port to which a message has been sent receives it.
DirectMessageReceived ==
  \A t \in Task, id \in Id :
    (waiting[t] = id /\ \E i \in 1..Len(queue[id]) : queue[id][i].to = id)
      ~> waiting[t] = 0

\* Timer interrupts keep PsSwitchTask going round the task list, and nothing
\* makes a thread that is ready inside port_recv unready: it runs eventually.
FairSpec == Spec /\ \A t \in Task : WF_vars(RecvResume(t))
=============================================================================
