----------------------------- MODULE PortProofs -----------------------------
(***************************************************************************)
(* Safety of the message ports for every number of threads, ids, messages  *)
(* and every register value a program may pass.                            *)
(*                                                                         *)
(* The invariant is built in layers.  Table says that the resource table,  *)
(* the port structures and the threads' ids agree; Links adds how ports    *)
(* refer to each other and to their owners.                                *)
(*                                                                         *)
(* On top of it, the 4k pages of messages are passed on between msg_pool   *)
(* and the queues and are never in two places (PageInv); and the ports     *)
(* implement the mailboxes of Mailbox.tla: the owner of a port holds the   *)
(* mailbox of that id, the queue is its content, and a thread inside       *)
(* port_recv is blocked on it.                                             *)
(***************************************************************************)
EXTENDS Port, ResourceProofs, FiniteSetTheorems

States == {"NONE", "READY", "SLEEP_PORT", "DEAD", "REAPED", "FREED"}

\* A message in a page has a page.
SoundMessage == {m \in Message : Paged(m.size) => m.page # 0}

PortShape ==
  /\ owner \in [Id -> 0..NTasks]
  /\ restrict \in [Id -> Int]
  /\ slaved \in [Id -> 0..(RMax - 1)]
  /\ refcount \in [Id -> Int]
  /\ queue \in [Id -> Seq(SoundMessage)]

\* TypeOK without the sign of the counters, which follows from what they count.
Shape ==
  /\ RsrcTypeOK
  /\ created \in NBoot..NTasks
  /\ state \in [Task -> States]
  /\ parent \in [Task -> 0..NBoot]
  /\ rid \in [Task -> 0..(RMax - 1)]
  /\ threads \in [Task -> Int]
  /\ waiting \in [Task -> 0..(RMax - 1)]
  /\ PortShape
  /\ pool \in Seq(Page)
  /\ npages \in 0..MaxPages

\* Threads 1..created exist; the entries of the table that are ports are the
\* ones with a structure, and its owner is a thread.
Records ==
  /\ \A t \in Task : t > created => state[t] = "NONE" /\ rid[t] = 0
  /\ \A t \in 1..created : state[t] # "NONE" /\ parent[t] \in 1..NBoot
  /\ \A p \in Task : p > NBoot => threads[p] = 0
  /\ \A id \in Id : IsPort(id) => owner[id] \in 1..created
  /\ \A id \in Id : ~IsPort(id) =>
       owner[id] = 0 /\ slaved[id] = 0 /\ refcount[id] = 0 /\ queue[id] = <<>>

Table == Shape /\ FreeListSound /\ Records /\ RidsSound

-----------------------------------------------------------------------------
(* What success of a call tells about the state it was made in. *)

LEMMA DestroyOK ==
  ASSUME NEW t, NEW id, DestroyResult(t, id) = "ERR_NONE"
  PROVE  IsPort(id) /\ owner[id] = t /\ refcount[id] = 1
BY DEF DestroyResult

LEMMA OptionOK ==
  ASSUME NEW t, NEW id, NEW opt, NEW arg, OptionResult(t, id, opt, arg) = "ERR_NONE"
  PROVE  /\ IsPort(id) /\ owner[id] = t
         /\ opt = Opt.SLAVE /\ arg # 0 => IsPort(arg) /\ owner[arg] = t
<1>1. Opt.SLAVE # Opt.SETRESTRICT
  BY DEF Opt
<1>. QED BY <1>1 DEF OptionResult

LEMMA SendOK ==
  ASSUME NEW t, NEW src, NEW dst, NEW size, SendResult(t, src, dst, size) = "OK"
  PROVE  /\ IsPort(src) /\ IsPort(dst) /\ IsPort(Target(dst))
         /\ ~(size < 1 \/ size > 4096)
BY DEF SendResult

LEMMA RecvOK ==
  ASSUME NEW t, NEW id, RecvResult(t, id) = "OK"
  PROVE  IsPort(id) /\ owner[id] = t
BY DEF RecvResult

-----------------------------------------------------------------------------
LEMMA Constants ==
  /\ RMax \in Nat /\ RMax - 1 \in Nat /\ NBoot \in Nat /\ NTasks \in Nat
  /\ 1 \in Id /\ Id \subseteq Nat /\ 0 \notin Id /\ Task \subseteq Nat
  /\ \A id \in Id : id \in 0..(RMax - 1)
  /\ \A n \in 0..(RMax - 1) : n # 0 => n \in Id
  /\ NBoot \in 1..NTasks
BY RMaxAssumption, PortAssumption DEF Id, Task

LEMMA TableInit == Init => Table
<1> SUFFICES ASSUME Init PROVE Table
  OBVIOUS
<1>0. /\ NBoot \in Nat \ {0} /\ NTasks \in Nat /\ NBoot =< NTasks
      /\ RMax \in Nat /\ NBoot + 1 < RMax /\ MaxPages \in Nat
  BY PortAssumption, RMaxAssumption
<1>1. /\ rfree \in Seq(Id)
      /\ Len(rfree) = RMax - NBoot - 2
      /\ \A i \in 1..Len(rfree) : rfree[i] = NBoot + 1 + i
  <2>1. RMax - NBoot - 2 \in Nat
    BY <1>0
  <2>2. \A i \in 1..(RMax - NBoot - 2) : NBoot + 1 + i \in Id
    BY <1>0 DEF Id
  <2>. QED BY <2>1, <2>2 DEF Init
<1>2. RsrcTypeOK
  BY <1>0, <1>1 DEF Init, RsrcTypeOK, Kind, Id
<1>3. FreeListSound
  <2>1. ASSUME NEW id \in Id
        PROVE  rtype[id] = "NONE" <=> \E i \in 1..Len(rfree) : rfree[i] = id
    <3>1. rtype[id] = "NONE" <=> id > NBoot + 1
      BY <1>0 DEF Init, Id
    <3>2. ASSUME id > NBoot + 1
          PROVE  id - NBoot - 1 \in 1..Len(rfree) /\ rfree[id - NBoot - 1] = id
      BY <1>0, <1>1, <3>2 DEF Id
    <3>. QED BY <1>0, <1>1, <3>1, <3>2
  <2>2. \A i, j \in 1..Len(rfree) : rfree[i] = rfree[j] => i = j
    BY <1>0, <1>1
  <2>. QED BY <2>1, <2>2 DEF FreeListSound
<1>4. PortShape
  BY <1>0 DEF Init, PortShape
<1>5. Shape
  BY <1>0, <1>2, <1>4 DEF Init, Shape, States, Task
<1>6. Records
  <2>1. \A id \in Id : IsPort(id) <=> id = 1
    BY <1>0 DEF Init, IsPort, IsLive, Id
  <2>. QED BY <1>0, <2>1 DEF Init, Records, Task
<1>7. RidsSound
  BY <1>0 DEF Init, RidsSound, Attached, Task, Id
<1>. QED BY <1>3, <1>5, <1>6, <1>7 DEF Table

-----------------------------------------------------------------------------
(* How each group of actions changes the table and the port structures. *)

\* A step that leaves the table and the threads' existence alone, and keeps a
\* structure's owner and the emptiness of unused structures, keeps Table.
LEMMA TableFrame ==
  ASSUME Table, UNCHANGED <<rsrcVars, created, parent, rid>>,
         state' \in [Task -> States],
         \A t \in Task : state[t] = "NONE" <=> state'[t] = "NONE",
         \A t \in Task : state'[t] \notin {"REAPED", "FREED"} => state[t] \notin {"REAPED", "FREED"},
         waiting' \in [Task -> 0..(RMax - 1)],
         \/ threads' = threads
         \/ threads' \in [Task -> Int] /\ \A p \in Task : p > NBoot => threads'[p] = threads[p],
         PortShape',
         owner' = owner,
         \A id \in Id : ~IsPort(id) =>
           slaved'[id] = slaved[id] /\ refcount'[id] = refcount[id] /\ queue'[id] = queue[id],
         pool' \in Seq(Page), npages' \in 0..MaxPages
  PROVE  Table'
<1>1. /\ Shape /\ Records /\ RidsSound /\ FreeListSound
      /\ UNCHANGED <<rtype, rfree, created, parent, rid>>
  BY DEF Table, rsrcVars
<1>2. Shape'
  BY <1>1 DEF Shape, RsrcTypeOK
<1>3. FreeListSound'
  BY <1>1 DEF FreeListSound
<1>4. \A id \in Id : IsPort(id)' <=> IsPort(id)
  BY <1>1 DEF IsPort, IsLive
<1>5. Records'
  <2>1. \A t \in Task : t > created' => state'[t] = "NONE" /\ rid'[t] = 0
    BY <1>1 DEF Records
  <2>2. \A t \in 1..created' : t \in Task
    BY <1>1, PortAssumption DEF Shape, Task
  <2>3. \A t \in 1..created' : state'[t] # "NONE" /\ parent'[t] \in 1..NBoot
    BY <1>1, <2>2 DEF Records
  <2>. QED BY <1>1, <1>4, <2>1, <2>3 DEF Records
<1>6. RidsSound'
  <2>1. \A t \in 1..created' : t \in Task
    BY <1>1, PortAssumption DEF Shape, Task
  <2>2. Attached' \subseteq Attached
    BY <1>1, <2>1 DEF Attached
  <2>. QED BY <1>1, <2>2 DEF RidsSound
<1>. QED BY <1>2, <1>3, <1>5, <1>6 DEF Table

\* The structure under an id becomes a port of t, or (t = 0) is freed.
LEMMA StructureShape ==
  ASSUME PortShape, NEW id \in Id, NEW t \in 0..NTasks, NEW r \in Int, Structure(id, t, r)
  PROVE  /\ PortShape'
         /\ owner'[id] = t
         /\ t = 0 => slaved'[id] = 0 /\ refcount'[id] = 0 /\ queue'[id] = <<>>
         /\ \A i \in Id \ {id} : /\ owner'[i] = owner[i] /\ slaved'[i] = slaved[i]
                                 /\ refcount'[i] = refcount[i] /\ queue'[i] = queue[i]
<1>1. 0 \in 0..(RMax - 1) /\ <<>> \in Seq(SoundMessage)
  BY RMaxAssumption
<1>. QED BY <1>1 DEF PortShape, Structure

LEMMA RidIsId ==
  ASSUME Shape, NEW u \in Attached, rid[u] # 0
  PROVE  rid[u] \in Id
<1>1. u \in Task
  BY Constants, PortAssumption DEF Attached, Task, Shape
<1>2. rid[u] \in 0..(RMax - 1)
  BY <1>1 DEF Shape
<1>. QED BY <1>2, Constants DEF Id

LEMMA TableCreate ==
  ASSUME Table, NEW t \in Task, NEW r \in Restricts, port_create(t, r)
  PROVE  Table'
<1>1. /\ Shape /\ PortShape /\ Records /\ RidsSound /\ RsrcInv
      /\ rfree # <<>> /\ rsrc_new("PORT")
      /\ Structure(NewId, t, r)
      /\ UNCHANGED <<state, waiting, created, parent, rid, threads, pool, npages>>
      /\ state[t] = "READY"
  BY DEF Table, port_create, RsrcInv, Shape, taskVars, pageVars, Running
<1>2. /\ RsrcInv' /\ NewId \in Id /\ rtype[NewId] = "NONE"
      /\ rtype' = [rtype EXCEPT ![NewId] = "PORT"]
  BY <1>1, RsrcNewSound DEF Kind
<1>3. rtype \in [Id -> Kind \cup {"NONE"}]
  BY <1>1 DEF RsrcInv, RsrcTypeOK
<1>4. /\ PortShape' /\ owner'[NewId] = t
      /\ \A i \in Id \ {NewId} : /\ owner'[i] = owner[i] /\ slaved'[i] = slaved[i]
                                 /\ refcount'[i] = refcount[i] /\ queue'[i] = queue[i]
  <2>1. t \in 0..NTasks /\ r \in Int
    BY PortAssumption DEF Task
  <2>. QED BY <1>1, <1>2, <2>1, StructureShape
<1>5. t \in 1..created
  <2>1. created \in NBoot..NTasks /\ (t > created => state[t] = "NONE")
    BY <1>1 DEF Shape, Records
  <2>. QED BY <1>1, <2>1, PortAssumption DEF Task
<1>6. Shape'
  BY <1>1, <1>2, <1>4 DEF Shape, RsrcInv
<1>7. \A id \in Id : IsPort(id)' <=> IsPort(id) \/ id = NewId
  BY <1>2, <1>3 DEF IsPort, IsLive
<1>9. Records'
  BY <1>1, <1>2, <1>4, <1>5, <1>7 DEF Records
<1>10. RidsSound'
  <2>1. \A u \in Attached : rid[u] # 0 => rid[u] \in Id
    BY <1>1, RidIsId
  <2>2. \A u \in Attached : rid[u] # 0 => rid[u] # NewId
    BY <1>1, <1>2 DEF RidsSound
  <2>3. Attached' = Attached
    BY <1>1 DEF Attached
  <2>4. \A i \in Id : i # NewId => rtype'[i] = rtype[i]
    BY <1>2, <1>3
  <2>. QED BY <1>1, <2>1, <2>2, <2>3, <2>4 DEF RidsSound
<1>. QED BY <1>2, <1>6, <1>9, <1>10 DEF Table, RsrcInv

LEMMA TableDestroy ==
  ASSUME Table, NEW t \in Task, NEW id \in Id, port_destroy(t, id)
  PROVE  Table'
<1>1. /\ Shape /\ PortShape /\ Records /\ RidsSound /\ RsrcInv
      /\ IsPort(id) /\ rsrc_del(id)
      /\ Structure(id, 0, 0)
      /\ UNCHANGED <<state, waiting, created, parent, rid, threads, pool, npages>>
  BY DestroyOK DEF Table, port_destroy, RsrcInv, Shape, taskVars, pageVars
<1>2. RsrcInv' /\ rtype' = [rtype EXCEPT ![id] = "NONE"]
  BY <1>1, RsrcDelSound, Constants DEF IsPort, IsLive
<1>3. rtype \in [Id -> Kind \cup {"NONE"}] /\ rtype[id] = "PORT"
  BY <1>1 DEF RsrcInv, RsrcTypeOK, IsPort, IsLive
<1>4. /\ PortShape'
      /\ owner'[id] = 0 /\ slaved'[id] = 0 /\ refcount'[id] = 0 /\ queue'[id] = <<>>
      /\ \A i \in Id \ {id} : /\ owner'[i] = owner[i] /\ slaved'[i] = slaved[i]
                              /\ refcount'[i] = refcount[i] /\ queue'[i] = queue[i]
  <2>1. 0 \in 0..NTasks /\ 0 \in Int
    BY PortAssumption
  <2>. QED BY <1>1, <2>1, StructureShape
<1>5. Shape'
  BY <1>1, <1>2, <1>4 DEF Shape, RsrcInv
<1>6. \A i \in Id : IsPort(i)' <=> IsPort(i) /\ i # id
  BY <1>2, <1>3 DEF IsPort, IsLive
<1>7. Records'
  BY <1>1, <1>4, <1>6 DEF Records
<1>8. RidsSound'
  <2>1. \A u \in Attached : rid[u] # 0 => rid[u] \in Id /\ rid[u] # id
    BY <1>1, <1>3, RidIsId DEF RidsSound
  <2>2. Attached' = Attached
    BY <1>1 DEF Attached
  <2>3. \A i \in Id : i # id => rtype'[i] = rtype[i]
    BY <1>2, <1>3
  <2>. QED BY <1>1, <2>1, <2>2, <2>3 DEF RidsSound
<1>. QED BY <1>2, <1>5, <1>7, <1>8 DEF Table, RsrcInv

\* A slave's new master is 0 or a port, and its old one is 0 or a port.
LEMMA ReslaveShape ==
  ASSUME PortShape, NEW id \in Id, NEW arg \in Int, arg # 0 => IsPort(arg),
         ~OptionPanics(id), IsPort(id), Reslave(id, arg)
  PROVE  /\ slaved' \in [Id -> 0..(RMax - 1)] /\ refcount' \in [Id -> Int]
         /\ \A i \in Id : ~IsPort(i) => slaved'[i] = slaved[i] /\ refcount'[i] = refcount[i]
<1>1. arg \in 0..(RMax - 1)
  BY Constants DEF IsPort, IsLive
<1>2. ASSUME NEW i \in Id, ~IsPort(i)
      PROVE  i # id /\ i # arg /\ i # slaved[id]
  BY <1>2, Constants DEF OptionPanics
<1>. QED BY <1>1, <1>2 DEF PortShape, Reslave

LEMMA TableOption ==
  ASSUME Table, NEW t \in Task, NEW id \in Id, NEW opt \in Opts, NEW arg \in Args,
         port_option(t, id, opt, arg)
  PROVE  Table'
<1>1. /\ Shape /\ PortShape /\ arg \in Int
      /\ UNCHANGED <<owner, queue, state, waiting, rtype, rfree, created, parent, rid,
                     threads, pool, npages>>
      /\ OptionResult(t, id, opt, arg) = "ERR_NONE"
  BY PortAssumption DEF Table, Shape, port_option, rsrcVars, taskVars, pageVars
<1>2. IsPort(id) /\ (opt = Opt.SLAVE /\ arg # 0 => IsPort(arg))
  BY <1>1, OptionOK
<1>3. /\ PortShape'
      /\ \A i \in Id : ~IsPort(i) => slaved'[i] = slaved[i] /\ refcount'[i] = refcount[i]
  <2>1. CASE restrict' = [restrict EXCEPT ![id] = arg] /\ UNCHANGED <<slaved, refcount>>
    BY <1>1, <2>1 DEF PortShape
  <2>2. CASE opt = Opt.SLAVE /\ ~OptionPanics(id) /\ Reslave(id, arg) /\ UNCHANGED restrict
    BY <1>1, <1>2, <2>2, ReslaveShape DEF PortShape
  <2>. QED BY <2>1, <2>2 DEF port_option
<1>. QED BY <1>1, <1>3, TableFrame DEF Shape, rsrcVars

\* The message port_send queues and what is left of the page pool.
LEMMA CarrierTyped ==
  ASSUME Shape, NEW dst \in Id, NEW size \in Sizes, 1 =< size, size =< 4096,
         CarrierPage(size) =< MaxPages, TakeCarrier(size)
  PROVE  /\ [to |-> dst, size |-> size, page |-> CarrierPage(size)] \in SoundMessage
         /\ pool' \in Seq(Page) /\ npages' \in 0..MaxPages
<1>1. /\ pool \in Seq(Page) /\ npages \in 0..MaxPages /\ MaxPages \in Nat /\ size \in Int
      /\ pool # <<>> => Head(pool) \in Page /\ Tail(pool) \in Seq(Page)
  BY PortAssumption DEF Shape
<1>2. /\ CarrierPage(size) \in 0..MaxPages /\ (Paged(size) => CarrierPage(size) # 0)
      /\ pool' \in Seq(Page) /\ npages' \in 0..MaxPages
  <2>1. CASE ~Paged(size)
    BY <1>1, <2>1 DEF CarrierPage, TakeCarrier
  <2>2. CASE Paged(size) /\ pool # <<>>
    BY <1>1, <2>2 DEF CarrierPage, TakeCarrier, Page
  <2>3. CASE Paged(size) /\ pool = <<>>
    BY <1>1, <2>3 DEF CarrierPage, TakeCarrier
  <2>. QED BY <2>1, <2>2, <2>3
<1>. QED BY <1>1, <1>2 DEF SoundMessage, Message

LEMMA TableSend ==
  ASSUME Table, NEW t \in Task, NEW src \in Id, NEW dst \in Id, NEW size \in Sizes,
         port_send(t, src, dst, size)
  PROVE  Table'
<1>. DEFINE q == Target(dst)
            m == [to |-> dst, size |-> size, page |-> CarrierPage(size)]
<1>1. /\ Shape /\ PortShape
      /\ UNCHANGED <<waiting, rtype, rfree, created, parent, rid, threads, owner, restrict,
                     slaved, refcount>>
      /\ SendResult(t, src, dst, size) = "OK"
      /\ state[t] = "READY"
      /\ CarrierPage(size) =< MaxPages
      /\ TakeCarrier(size)
      /\ queue' = [queue EXCEPT ![q] = Append(@, m)]
      /\ WakeOwner(t, q, dst)
  BY DEF Table, Shape, port_send, rsrcVars, taskVars, linkVars, Running
<1>2. IsPort(q) /\ q \in Id /\ 1 =< size /\ size =< 4096
  <2>1. IsPort(q) /\ ~(size < 1 \/ size > 4096)
    BY <1>1, SendOK
  <2>2. size \in Int
    BY PortAssumption
  <2>. QED BY <2>1, <2>2 DEF IsPort, IsLive
<1>3. m \in SoundMessage /\ pool' \in Seq(Page) /\ npages' \in 0..MaxPages
  BY <1>1, <1>2, CarrierTyped
<1>4. queue' \in [Id -> Seq(SoundMessage)] /\ \A i \in Id : ~IsPort(i) => queue'[i] = queue[i]
  <2>1. queue \in [Id -> Seq(SoundMessage)]
    BY <1>1 DEF PortShape
  <2>2. Append(queue[q], m) \in Seq(SoundMessage)
    BY <1>2, <1>3, <2>1
  <2>. QED BY <1>1, <1>2, <2>1, <2>2
<1>5. owner[q] \in Task
  <2>1. owner[q] \in 1..created /\ created \in NBoot..NTasks
    BY <1>1, <1>2 DEF Table, Records, Shape
  <2>. HIDE DEF q
  <2>. QED BY <2>1, PortAssumption DEF Task
<1>6. /\ state' \in [Task -> States]
      /\ \A u \in Task : state[u] = "NONE" <=> state'[u] = "NONE"
      /\ \A u \in Task : state'[u] \notin {"REAPED", "FREED"} => state[u] \notin {"REAPED", "FREED"}
  <2>1. state \in [Task -> States]
    BY <1>1 DEF Shape
  <2>. QED BY <1>1, <1>5, <2>1 DEF WakeOwner, States
<1>. QED BY <1>1, <1>3, <1>4, <1>6, TableFrame DEF Shape, PortShape, rsrcVars

LEMMA TableSourceFault ==
  ASSUME Table, NEW t \in Task, NEW src \in Id, SourceFault(t, src)
  PROVE  Table'
<1>1. /\ Shape /\ PortShape /\ state[t] = "READY" /\ state' = [state EXCEPT ![t] = "DEAD"]
      /\ UNCHANGED <<waiting, owner, restrict, slaved, refcount, queue,
                     rtype, rfree, created, parent, rid, threads, pool, npages>>
  BY DEF Table, Shape, SourceFault, Running, rsrcVars, taskVars, pageVars, portVars, linkVars
<1>. QED BY <1>1, TableFrame DEF Shape, PortShape, rsrcVars, States

\* Both entries of port_recv's loop.
LEMMA TableRecvLoop ==
  ASSUME Table, NEW t \in Task, NEW id \in Id, IsPort(id), state[t] = "READY",
         RecvLoop(t, id), UNCHANGED <<linkVars, rsrcVars, taskVars, npages>>
  PROVE  Table'
<1>1. /\ Shape /\ PortShape
      /\ UNCHANGED <<owner, restrict, slaved, refcount,
                     rtype, rfree, created, parent, rid, threads, npages>>
  BY DEF Table, Shape, rsrcVars, taskVars, linkVars
<1>2. CASE /\ queue[id] = <<>>
           /\ state' = [state EXCEPT ![t] = "SLEEP_PORT"]
           /\ waiting' = [waiting EXCEPT ![t] = id]
           /\ UNCHANGED <<queue, pool>>
  BY <1>1, <1>2, TableFrame, Constants DEF Shape, PortShape, rsrcVars, States
<1>3. CASE /\ queue[id] # <<>>
           /\ queue' = [queue EXCEPT ![id] = Tail(@)]
           /\ pool' = IF Paged(Head(queue[id]).size)
                      THEN <<Head(queue[id]).page>> \o pool ELSE pool
           /\ waiting' = [waiting EXCEPT ![t] = 0]
           /\ UNCHANGED state
  <2>1. queue \in [Id -> Seq(SoundMessage)]
    BY <1>1 DEF PortShape
  <2>2. Head(queue[id]) \in SoundMessage /\ Tail(queue[id]) \in Seq(SoundMessage)
    BY <1>3, <2>1
  <2>3. queue' \in [Id -> Seq(SoundMessage)] /\ \A i \in Id : ~IsPort(i) => queue'[i] = queue[i]
    BY <1>3, <2>1, <2>2
  <2>4. pool' \in Seq(Page)
    <3>1. pool \in Seq(Page)
      BY <1>1 DEF Shape
    <3>2. \A m \in SoundMessage : Paged(m.size) => m.page \in Page
      BY PortAssumption DEF SoundMessage, Message, Page
    <3>3. Paged(Head(queue[id]).size) => Head(queue[id]).page \in Page
      BY <2>2, <3>2
    <3>. QED BY <1>3, <3>1, <3>3
  <2>5. waiting' \in [Task -> 0..(RMax - 1)]
    BY <1>1, <1>3, RMaxAssumption DEF Shape
  <2>. QED BY <1>1, <1>3, <2>3, <2>4, <2>5, TableFrame DEF Shape, PortShape, rsrcVars
<1>. QED BY <1>2, <1>3 DEF RecvLoop

LEMMA TableNewTask ==
  ASSUME Table, NEW t \in Task, PsCreateNewTask(t)
  PROVE  Table'
<1>. DEFINE u == created + 1
<1>1. /\ Shape /\ PortShape /\ Records /\ RidsSound /\ RsrcInv
      /\ u \in Task /\ created' = u /\ state[t] = "READY"
      /\ state' = [state EXCEPT ![u] = "READY"]
      /\ parent' = [parent EXCEPT ![u] = parent[t]]
      /\ threads' = [threads EXCEPT ![parent[t]] = @ + 1]
      /\ rid' = [rid EXCEPT ![u] = NewId]
      /\ rsrc_new("TASK")
      /\ UNCHANGED <<waiting, owner, restrict, slaved, refcount, queue, pool, npages>>
  BY DEF Table, Shape, RsrcInv, PsCreateNewTask, Running, portVars, linkVars, pageVars
<1>2. /\ created \in NBoot..NTasks /\ created \in Nat /\ t \in 1..created
      /\ \A v \in 1..created : v \in Task
      /\ \A v \in 1..created' : v \in 1..created \/ v = u
  <2>1. created \in NBoot..NTasks /\ created' = created + 1 /\ (t > created => state[t] = "NONE")
    BY <1>1 DEF Shape, Records
  <2>. QED BY <1>1, <2>1, PortAssumption DEF Task
<1>3. /\ RsrcInv' /\ NewId \in 0..(RMax - 1)
      /\ NewId # 0 => NewId \in Id /\ rtype[NewId] = "NONE" /\ rtype' = [rtype EXCEPT ![NewId] = "TASK"]
      /\ NewId = 0 => rtype' = rtype
  <2>1. CASE rfree = <<>>
    BY <1>1, <2>1, RMaxAssumption DEF rsrc_new, NewId, rsrcVars, RsrcInv, RsrcTypeOK, FreeListSound
  <2>2. CASE rfree # <<>>
    BY <1>1, <2>2, RsrcNewSound, Constants DEF Kind
  <2>. QED BY <2>1, <2>2
<1>4. /\ rtype \in [Id -> Kind \cup {"NONE"}] /\ parent \in [Task -> 0..NBoot]
      /\ rid \in [Task -> 0..(RMax - 1)] /\ threads \in [Task -> Int]
      /\ state \in [Task -> States]
  BY <1>1 DEF Shape, RsrcTypeOK
<1>5. Shape'
  <2>1. created' \in NBoot..NTasks
    BY <1>1, <1>2, PortAssumption DEF Task
  <2>2. threads' \in [Task -> Int] /\ parent' \in [Task -> 0..NBoot]
    <3>1. parent[t] \in Task /\ parent[t] \in 0..NBoot
      BY <1>1, <1>2, PortAssumption DEF Records, Task
    <3>. QED BY <1>1, <1>4, <3>1
  <2>3. state' \in [Task -> States] /\ rid' \in [Task -> 0..(RMax - 1)]
    BY <1>1, <1>3, <1>4 DEF States
  <2>4. PortShape' /\ RsrcTypeOK'
    BY <1>1, <1>3 DEF PortShape, RsrcInv
  <2>. QED BY <1>1, <2>1, <2>2, <2>3, <2>4 DEF Shape
<1>6. \A id \in Id : IsPort(id)' <=> IsPort(id)
  BY <1>3, <1>4 DEF IsPort, IsLive
<1>7. Records'
  <2>1. \A v \in Task : v > created' => state'[v] = "NONE" /\ rid'[v] = 0
    BY <1>1, <1>2, <1>4 DEF Records, Task
  <2>2. ASSUME NEW v \in 1..created' PROVE state'[v] # "NONE" /\ parent'[v] \in 1..NBoot
    <3>1. \A w \in 1..created : state[w] # "NONE" /\ parent[w] \in 1..NBoot
      BY <1>1 DEF Records
    <3>2. CASE v \in 1..created
      <4>1. v \in Task /\ (v # u => state'[v] = state[v] /\ parent'[v] = parent[v])
        BY <1>1, <1>2, <1>4, <3>2
      <4>. QED BY <1>1, <1>2, <1>4, <3>1, <3>2, <4>1
    <3>3. CASE v = u
      BY <1>1, <1>2, <1>4, <3>1, <3>3
    <3>. QED BY <1>2, <3>2, <3>3
  <2>3. \A id \in Id : IsPort(id)' => owner'[id] \in 1..created'
    BY <1>1, <1>2, <1>6 DEF Records
  <2>4. \A p \in Task : p > NBoot => threads'[p] = 0
    <3>1. parent[t] \in 1..NBoot /\ \A p \in Task : p > NBoot => threads[p] = 0
      BY <1>1, <1>2 DEF Records
    <3>. QED BY <1>1, <1>4, <3>1, PortAssumption DEF Task
  <2>. QED BY <1>1, <1>6, <2>1, <2>2, <2>3, <2>4 DEF Records
<1>8. RidsSound'
  <2>1. Attached' = Attached \cup {u} /\ u \notin Attached
    BY <1>1, <1>2, <1>4 DEF Attached, Task
  <2>2. \A v \in Attached : v \in Task /\ v # u /\ rid'[v] = rid[v] /\ (rid[v] # 0 => rid[v] \in Id)
    BY <1>1, <1>2, <1>4, <2>1, Constants DEF Attached
  <2>3. \A v \in Attached : rid[v] # 0 => rid[v] # NewId /\ rtype'[rid[v]] = "TASK"
    BY <1>1, <1>3, <1>4, <2>2 DEF RidsSound
  <2>4. rid'[u] = NewId /\ (NewId # 0 => rtype'[NewId] = "TASK")
    BY <1>1, <1>3, <1>4
  <2>. QED BY <1>1, <2>1, <2>2, <2>3, <2>4 DEF RidsSound
<1>. QED BY <1>3, <1>5, <1>7, <1>8 DEF Table, RsrcInv

LEMMA TableTerminate ==
  ASSUME Table, NEW t \in Task, ScTerminateProcess(t)
  PROVE  Table'
<1>1. /\ Shape /\ PortShape /\ state[t] = "READY" /\ state' = [state EXCEPT ![t] = "DEAD"]
      /\ UNCHANGED <<waiting, owner, restrict, slaved, refcount, queue,
                     rtype, rfree, created, parent, rid, threads, pool, npages>>
  BY DEF Table, Shape, ScTerminateProcess, Running, rsrcVars, taskVars, pageVars, portVars, linkVars
<1>. QED BY <1>1, TableFrame DEF Shape, PortShape, rsrcVars, States

LEMMA TableCleanUp ==
  ASSUME Table, NEW t \in Task, PsCleanUpTask(t)
  PROVE  Table'
<1>1. /\ Shape /\ PortShape /\ Records /\ RidsSound /\ RsrcInv
      /\ state[t] = "DEAD" /\ rsrc_del(rid[t])
      /\ threads' = [threads EXCEPT ![parent[t]] = @ - 1]
      /\ state' = [state EXCEPT ![t] = IF threads[parent[t]] = 1 THEN "FREED" ELSE "REAPED"]
      /\ UNCHANGED <<created, parent, rid, waiting, owner, restrict, slaved, refcount, queue,
                     pool, npages>>
  BY DEF Table, Shape, RsrcInv, PsCleanUpTask, portVars, linkVars, pageVars
<1>2. /\ t \in 1..created /\ t \in Attached /\ \A v \in 1..created : v \in Task
      /\ rtype \in [Id -> Kind \cup {"NONE"}] /\ rid \in [Task -> 0..(RMax - 1)]
      /\ threads \in [Task -> Int] /\ state \in [Task -> States]
  <2>1. created \in NBoot..NTasks /\ (t > created => state[t] = "NONE")
    BY <1>1 DEF Shape, Records
  <2>2. t \in 1..created /\ \A v \in 1..created : v \in Task
    BY <1>1, <2>1, PortAssumption DEF Task
  <2>3. t \in Attached
    BY <1>1, <2>2 DEF Attached
  <2>. QED BY <1>1, <2>2, <2>3 DEF Shape, RsrcTypeOK
<1>3. /\ RsrcInv'
      /\ rid[t] # 0 => rid[t] \in Id /\ rtype[rid[t]] = "TASK"
                       /\ rtype' = [rtype EXCEPT ![rid[t]] = "NONE"]
      /\ rid[t] = 0 => rtype' = rtype
  <2>1. rid[t] # 0 => rid[t] \in Id /\ rtype[rid[t]] = "TASK"
    BY <1>1, <1>2, Constants DEF RidsSound
  <2>2. CASE rid[t] = 0
    BY <1>1, <2>2, Constants DEF rsrc_del, rsrcVars, RsrcInv, RsrcTypeOK, FreeListSound
  <2>3. CASE rid[t] # 0
    <3>1. rid[t] \in Int /\ rtype[rid[t]] # "NONE"
      BY <2>1, <2>3 DEF Id
    <3>. QED BY <1>1, <2>1, <2>3, <3>1, RsrcDelSound
  <2>. QED BY <2>1, <2>2, <2>3
<1>4. Shape'
  <2>1. threads' \in [Task -> Int]
    <3>1. parent[t] \in Task
      BY <1>1, <1>2, PortAssumption DEF Records, Task
    <3>2. threads \in [Task -> Int] /\ threads' = [threads EXCEPT ![parent[t]] = @ - 1]
      BY <1>1, <1>2
    <3>. QED BY <3>1, <3>2
  <2>2. state' \in [Task -> States]
    BY <1>1, <1>2 DEF States
  <2>3. PortShape' /\ RsrcTypeOK'
    BY <1>1, <1>3 DEF PortShape, RsrcInv
  <2>. QED BY <1>1, <2>1, <2>2, <2>3 DEF Shape
<1>5. \A id \in Id : IsPort(id)' <=> IsPort(id)
  BY <1>2, <1>3 DEF IsPort, IsLive
<1>6. Records'
  <2>1. \A p \in Task : p > NBoot => threads'[p] = 0
    <3>1. parent[t] \in 1..NBoot /\ \A p \in Task : p > NBoot => threads[p] = 0
      BY <1>1, <1>2 DEF Records
    <3>2. threads \in [Task -> Int] /\ threads' = [threads EXCEPT ![parent[t]] = @ - 1]
      BY <1>1, <1>2
    <3>. QED BY <3>1, <3>2, PortAssumption DEF Task
  <2>2. \A u \in Task : u # t => state'[u] = state[u]
    BY <1>1, <1>2
  <2>3. state'[t] # "NONE"
    <3>1. \E gone \in {"REAPED", "FREED"} : state' = [state EXCEPT ![t] = gone]
      BY <1>1
    <3>. QED BY <1>2, <3>1
  <2>4. \A u \in Task : u > created => u # t
    <3>1. created \in NBoot..NTasks /\ t \in 1..created
      BY <1>1, <1>2 DEF Shape
    <3>. QED BY <3>1, PortAssumption DEF Task
  <2>. QED BY <1>1, <1>2, <1>5, <2>1, <2>2, <2>3, <2>4 DEF Records
<1>7. RidsSound'
  <2>1. Attached' = Attached \ {t}
    BY <1>1, <1>2 DEF Attached
  <2>2. \A v \in Attached : rid[v] # 0 => rid[v] \in Id
    BY <1>2, Constants DEF Attached
  <2>3. \A v \in Attached \ {t} : rid[v] # 0 => rtype'[rid[v]] = "TASK"
    BY <1>1, <1>2, <1>3, <2>2 DEF RidsSound
  <2>. QED BY <1>1, <2>1, <2>3 DEF RidsSound
<1>. QED BY <1>3, <1>4, <1>6, <1>7 DEF Table, RsrcInv

-----------------------------------------------------------------------------
(* Threads inside port_recv. *)

\* A thread inside port_recv sleeps or is ready, and a sleeping thread is inside
\* port_recv.  A port has one owner, so only the sleeper itself could give its
\* port up or re-slave it, and it does not run.
Asleep ==
  /\ SleeperOwnsPort
  /\ WokenHasMessage
  /\ DirectMessageWakes
  /\ \A t \in Task : state[t] = "SLEEP_PORT" => waiting[t] # 0
  /\ \A t \in Task : waiting[t] # 0 => state[t] \in {"READY", "SLEEP_PORT"}

LEMMA AsleepInit == Init => Asleep
BY PortAssumption DEF Init, Asleep, SleeperOwnsPort, WokenHasMessage, DirectMessageWakes

\* A step that touches neither a thread inside port_recv nor its port.
LEMMA AsleepFrame ==
  ASSUME Shape, Asleep, waiting' = waiting,
         \A u \in Task : state'[u] = "SLEEP_PORT" => state[u] = "SLEEP_PORT",
         \A u \in Task : waiting[u] # 0 => state'[u] = state[u],
         \A id \in Id, u \in Task : waiting[u] = id /\ IsPort(id) /\ owner[id] = u =>
           IsPort(id)' /\ owner'[id] = u /\ queue'[id] = queue[id] /\ slaved'[id] = slaved[id]
  PROVE  Asleep'
<1>1. ASSUME NEW u \in Task, waiting[u] # 0
      PROVE  /\ waiting[u] \in Id /\ IsPort(waiting[u]) /\ owner[waiting[u]] = u
             /\ IsPort(waiting[u])' /\ owner'[waiting[u]] = u
             /\ queue'[waiting[u]] = queue[waiting[u]]
             /\ slaved'[waiting[u]] = slaved[waiting[u]]
  <2>1. IsPort(waiting[u]) /\ owner[waiting[u]] = u
    BY <1>1 DEF Asleep, SleeperOwnsPort
  <2>2. waiting[u] \in Id
    BY <2>1 DEF IsPort, IsLive
  <2>. QED BY <2>1, <2>2
<1>2. SleeperOwnsPort'
  BY <1>1 DEF SleeperOwnsPort
<1>3. WokenHasMessage'
  BY <1>1 DEF WokenHasMessage, Asleep
<1>4. DirectMessageWakes'
  <2>1. ASSUME NEW u \in Task, state'[u] = "SLEEP_PORT"
        PROVE  \A i \in 1..Len(queue'[waiting'[u]]) : queue'[waiting'[u]][i].to # waiting'[u]
    <3>1. state[u] = "SLEEP_PORT" /\ waiting[u] # 0
      BY <2>1 DEF Asleep
    <3>2. \A i \in 1..Len(queue[waiting[u]]) : queue[waiting[u]][i].to # waiting[u]
      BY <3>1 DEF Asleep, DirectMessageWakes
    <3>3. waiting'[u] = waiting[u] /\ queue'[waiting[u]] = queue[waiting[u]]
      BY <1>1, <3>1
    <3>. QED BY <3>2, <3>3
  <2>. QED BY <2>1 DEF DirectMessageWakes
<1>. QED BY <1>2, <1>3, <1>4 DEF Asleep

LEMMA AsleepCreate ==
  ASSUME Table, Asleep, NEW t \in Task, NEW r \in Restricts, port_create(t, r)
  PROVE  Asleep'
<1>1. /\ Shape /\ PortShape /\ RsrcInv /\ rfree # <<>> /\ rsrc_new("PORT")
      /\ Structure(NewId, t, r) /\ UNCHANGED <<state, waiting>>
  BY DEF Table, Shape, RsrcInv, port_create
<1>2. /\ NewId \in Id /\ rtype[NewId] = "NONE" /\ rtype' = [rtype EXCEPT ![NewId] = "PORT"]
      /\ rtype \in [Id -> Kind \cup {"NONE"}]
  BY <1>1, RsrcNewSound DEF Kind, RsrcInv, RsrcTypeOK
<1>3. ASSUME NEW id \in Id, IsPort(id)
      PROVE  IsPort(id)' /\ owner'[id] = owner[id] /\ queue'[id] = queue[id] /\ slaved'[id] = slaved[id]
  BY <1>1, <1>2, <1>3 DEF IsPort, IsLive, Structure, PortShape
<1>. QED BY <1>1, <1>3, AsleepFrame

LEMMA AsleepDestroy ==
  ASSUME Table, Asleep, NEW t \in Task, NEW id \in Id, port_destroy(t, id)
  PROVE  Asleep'
<1>1. /\ Shape /\ PortShape /\ RsrcInv /\ waiting[t] = 0
      /\ IsPort(id) /\ owner[id] = t /\ rsrc_del(id)
      /\ Structure(id, 0, 0) /\ UNCHANGED <<state, waiting>>
  BY DestroyOK DEF Table, Shape, RsrcInv, port_destroy, Running
<1>2. rtype' = [rtype EXCEPT ![id] = "NONE"] /\ rtype \in [Id -> Kind \cup {"NONE"}]
  BY <1>1, RsrcDelSound, Constants DEF IsPort, IsLive, RsrcInv, RsrcTypeOK
<1>3. ASSUME NEW i \in Id, IsPort(i), i # id
      PROVE  IsPort(i)' /\ owner'[i] = owner[i] /\ queue'[i] = queue[i] /\ slaved'[i] = slaved[i]
  BY <1>1, <1>2, <1>3 DEF IsPort, IsLive, Structure, PortShape
<1>4. \A u \in Task : waiting[u] = id => owner[id] # u
  BY <1>1, Constants
<1>. QED BY <1>1, <1>3, <1>4, AsleepFrame

LEMMA AsleepOption ==
  ASSUME Table, Asleep, NEW t \in Task, NEW id \in Id, NEW opt \in Opts, NEW arg \in Args,
         port_option(t, id, opt, arg)
  PROVE  Asleep'
<1>1. /\ Shape /\ PortShape /\ waiting[t] = 0 /\ owner[id] = t
      /\ UNCHANGED <<owner, queue, state, waiting, rtype>>
  BY OptionOK DEF Table, Shape, port_option, rsrcVars, Running
<1>2. \A i \in Id \ {id} : slaved'[i] = slaved[i]
  BY <1>1 DEF port_option, Reslave, PortShape
<1>3. \A i \in Id : IsPort(i)' <=> IsPort(i)
  BY <1>1 DEF IsPort, IsLive
<1>4. \A u \in Task : waiting[u] = id => owner[id] # u
  BY <1>1, Constants
<1>. QED BY <1>1, <1>2, <1>3, <1>4, AsleepFrame

LEMMA AsleepNewTask ==
  ASSUME Table, Asleep, NEW t \in Task, PsCreateNewTask(t)
  PROVE  Asleep'
<1>. DEFINE u == created + 1
<1>1. /\ Shape /\ RsrcInv /\ u \in Task /\ rsrc_new("TASK")
      /\ state' = [state EXCEPT ![u] = "READY"] /\ state \in [Task -> States]
      /\ UNCHANGED <<waiting, owner, slaved, queue>>
  BY DEF Table, Shape, RsrcInv, PsCreateNewTask, portVars, linkVars
<1>2. state[u] = "NONE"
  <2>1. created \in Nat
    BY <1>1, PortAssumption DEF Shape
  <2>. QED BY <1>1, <2>1 DEF Table, Records
<1>3. waiting[u] = 0
  BY <1>1, <1>2 DEF Asleep
<1>4. ASSUME NEW i \in Id, IsPort(i) PROVE IsPort(i)'
  <2>1. CASE rfree = <<>>
    BY <1>1, <1>4, <2>1 DEF rsrc_new, rsrcVars, IsPort, IsLive
  <2>2. CASE rfree # <<>>
    BY <1>1, <1>4, <2>2, RsrcNewSound DEF Kind, IsPort, IsLive, RsrcInv, RsrcTypeOK
  <2>. QED BY <2>1, <2>2
<1>. QED BY <1>1, <1>3, <1>4, AsleepFrame

LEMMA AsleepEnd ==
  ASSUME Table, Asleep, NEW t \in Task,
         \/ \E src \in Id : SourceFault(t, src)
         \/ ScTerminateProcess(t)
  PROVE  Asleep'
<1>1. /\ Shape /\ waiting[t] = 0 /\ state' = [state EXCEPT ![t] = "DEAD"]
      /\ UNCHANGED <<waiting, owner, slaved, queue, rtype>> /\ state \in [Task -> States]
  BY DEF Table, Shape, SourceFault, ScTerminateProcess, Running, rsrcVars, portVars, linkVars
<1>2. \A i \in Id : IsPort(i)' <=> IsPort(i)
  BY <1>1 DEF IsPort, IsLive
<1>. QED BY <1>1, <1>2, AsleepFrame

LEMMA AsleepCleanUp ==
  ASSUME Table, Asleep, NEW t \in Task, PsCleanUpTask(t)
  PROVE  Asleep'
<1>1. /\ Shape /\ RsrcInv /\ state[t] = "DEAD" /\ rsrc_del(rid[t]) /\ RidsSound
      /\ state' = [state EXCEPT ![t] = IF threads[parent[t]] = 1 THEN "FREED" ELSE "REAPED"]
      /\ UNCHANGED <<waiting, owner, slaved, queue>> /\ state \in [Task -> States]
      /\ rid[t] \in Int /\ created \in NBoot..NTasks /\ (t > created => state[t] = "NONE")
  BY RMaxAssumption DEF Table, Shape, RsrcInv, Records, PsCleanUpTask, portVars, linkVars
<1>2. waiting[t] = 0
  BY <1>1 DEF Asleep
<1>3. rid[t] # 0 => rtype[rid[t]] = "TASK"
  <2>1. t \in Attached
    BY <1>1, PortAssumption DEF Attached, Task
  <2>. QED BY <1>1, <2>1 DEF RidsSound
<1>4. ASSUME NEW i \in Id, IsPort(i) PROVE IsPort(i)'
  <2>1. i # rid[t]
    BY <1>3, <1>4, Constants DEF IsPort, IsLive
  <2>2. rtype' = [rtype EXCEPT ![rid[t]] = "NONE"] \/ rtype' = rtype
    BY <1>1, RsrcDelSound DEF rsrcVars
  <2>3. rtype \in [Id -> Kind \cup {"NONE"}]
    BY <1>1 DEF RsrcInv, RsrcTypeOK
  <2>. QED BY <1>4, <2>1, <2>2, <2>3 DEF IsPort, IsLive
<1>5. \A u \in Task : state'[u] = "SLEEP_PORT" => state[u] = "SLEEP_PORT"
  BY <1>1
<1>. QED BY <1>1, <1>2, <1>4, <1>5, AsleepFrame

\* The message goes to the queue of dst or of its master, and the owner is made
\* ready when it sleeps on dst.
LEMMA AsleepSend ==
  ASSUME Table, Asleep, NEW t \in Task, NEW src \in Id, NEW dst \in Id, NEW size \in Sizes,
         port_send(t, src, dst, size)
  PROVE  Asleep'
<1>. DEFINE q == Target(dst)
            m == [to |-> dst, size |-> size, page |-> CarrierPage(size)]
            o == owner[q]
<1>1. /\ Shape /\ waiting[t] = 0 /\ state \in [Task -> States]
      /\ queue \in [Id -> Seq(SoundMessage)]
      /\ UNCHANGED <<waiting, owner, slaved, rtype>>
      /\ SendResult(t, src, dst, size) = "OK"
      /\ CarrierPage(size) =< MaxPages /\ TakeCarrier(size)
      /\ queue' = [queue EXCEPT ![q] = Append(@, m)]
      /\ WakeOwner(t, q, dst)
  BY DEF Table, Shape, PortShape, port_send, Running, rsrcVars, linkVars
<1>2. IsPort(q) /\ q \in Id /\ 1 =< size /\ size =< 4096
  <2>1. IsPort(q) /\ ~(size < 1 \/ size > 4096)
    BY <1>1, SendOK
  <2>2. size \in Int
    BY PortAssumption
  <2>. QED BY <2>1, <2>2 DEF IsPort, IsLive
<1>3. m \in SoundMessage /\ m.to = dst
  BY <1>1, <1>2, CarrierTyped
<1>4. \/ /\ state[o] = "SLEEP_PORT" /\ waiting[o] = dst
         /\ state' = [state EXCEPT ![o] = "READY"]
      \/ /\ ~(state[o] = "SLEEP_PORT" /\ waiting[o] = dst)
         /\ state' = state
      \/ /\ state[o] = "FREED"
         /\ state' = [state EXCEPT ![t] = "DEAD"]
  BY <1>1 DEF WakeOwner, Freed
<1>. HIDE DEF q, m, o
<1>5. ASSUME NEW u \in Task, waiting[u] # 0
      PROVE  /\ waiting[u] \in Id /\ IsPort(waiting[u])' /\ owner'[waiting[u]] = u
             /\ owner[waiting[u]] = u
  BY <1>1, <1>5 DEF Asleep, SleeperOwnsPort, IsPort, IsLive
<1>6. /\ \A u \in Task : state'[u] = "SLEEP_PORT" => state[u] = "SLEEP_PORT"
      /\ \A u \in Task : waiting[u] # 0 => state'[u] = state[u] \/ (u = o /\ waiting[u] = dst /\ state'[u] = "READY")
  BY <1>1, <1>4
<1>7. SleeperOwnsPort'
  BY <1>1, <1>5 DEF SleeperOwnsPort
<1>8. WokenHasMessage'
  <2>1. ASSUME NEW u \in Task, waiting[u] # 0, state'[u] = "READY"
        PROVE  queue'[waiting[u]] # <<>> \/ slaved[waiting[u]] # 0
    <3>1. Append(queue[q], m) # <<>>
      BY <1>1, <1>2, <1>3
    <3>2. CASE state[u] = "READY"
      <4>1. queue[waiting[u]] # <<>> \/ slaved[waiting[u]] # 0
        BY <2>1, <3>2 DEF Asleep, WokenHasMessage
      <4>. QED BY <1>1, <1>2, <1>5, <2>1, <3>1, <4>1
    <3>3. CASE waiting[u] = dst /\ slaved[dst] = 0
      <4>1. waiting[u] = q
        BY <3>3 DEF q, Target
      <4>. QED BY <1>1, <1>2, <3>1, <4>1
    <3>. QED BY <1>6, <2>1, <3>2, <3>3
  <2>. QED BY <1>1, <2>1 DEF WokenHasMessage
<1>9. DirectMessageWakes'
  <2>1. ASSUME NEW u \in Task, state'[u] = "SLEEP_PORT",
               NEW i \in 1..Len(queue'[waiting[u]])
        PROVE  queue'[waiting[u]][i].to # waiting[u]
    <3>1. state[u] = "SLEEP_PORT" /\ waiting[u] # 0
      BY <1>6, <2>1 DEF Asleep
    <3>2. waiting[u] \in Id /\ \A j \in 1..Len(queue[waiting[u]]) : queue[waiting[u]][j].to # waiting[u]
      BY <1>5, <2>1, <3>1 DEF Asleep, DirectMessageWakes
    <3>3. CASE waiting[u] # q
      <4>1. queue'[waiting[u]] = queue[waiting[u]]
        BY <1>1, <1>2, <3>2, <3>3
      <4>. QED BY <2>1, <3>2, <4>1
    <3>4. CASE waiting[u] = q
      <4>1. o = u
        BY <1>5, <3>1, <3>4 DEF o
      <4>2. waiting[u] # dst
        BY <1>1, <1>4, <2>1, <3>1, <4>1
      <4>3. /\ queue[q] \in Seq(SoundMessage)
            /\ queue'[q] = Append(queue[q], m)
        BY <1>1, <1>2
      <4>4. i \in 1..(Len(queue[q]) + 1) /\ Len(queue[q]) \in Nat
        BY <1>3, <2>1, <3>4, <4>3
      <4>5. CASE i = Len(queue[q]) + 1
        <5>1. queue'[q][i] = m
          BY <1>3, <4>3, <4>5
        <5>. QED BY <1>3, <3>4, <4>2, <5>1
      <4>6. CASE i \in 1..Len(queue[q])
        <5>1. queue'[q][i] = queue[q][i]
          BY <1>3, <4>3, <4>6
        <5>. QED BY <3>2, <3>4, <4>6, <5>1
      <4>. QED BY <4>4, <4>5, <4>6
    <3>. QED BY <3>3, <3>4
  <2>. QED BY <1>1, <2>1 DEF DirectMessageWakes
<1>10. /\ \A u \in Task : state'[u] = "SLEEP_PORT" => waiting[u] # 0
       /\ \A u \in Task : waiting[u] # 0 => state'[u] \in {"READY", "SLEEP_PORT"}
  BY <1>6 DEF Asleep
<1>. QED BY <1>1, <1>7, <1>8, <1>9, <1>10 DEF Asleep

LEMMA AsleepRecvLoop ==
  ASSUME Table, Asleep, NEW t \in Task, NEW id \in Id, IsPort(id), owner[id] = t,
         state[t] = "READY", waiting[t] \in {0, id},
         RecvLoop(t, id), UNCHANGED <<linkVars, rsrcVars, taskVars, npages>>
  PROVE  Asleep'
<1>1. /\ Shape /\ state \in [Task -> States] /\ waiting \in [Task -> 0..(RMax - 1)]
      /\ queue \in [Id -> Seq(SoundMessage)]
      /\ UNCHANGED <<owner, slaved, rtype>>
  BY DEF Table, Shape, PortShape, rsrcVars, linkVars
<1>2. \A i \in Id : IsPort(i)' <=> IsPort(i)
  BY <1>1 DEF IsPort, IsLive
<1>3. ASSUME NEW u \in Task, u # t, waiting[u] # 0
      PROVE  waiting[u] \in Id /\ IsPort(waiting[u]) /\ owner[waiting[u]] = u /\ waiting[u] # id
  BY <1>3 DEF Asleep, SleeperOwnsPort, IsPort, IsLive
<1>4. CASE /\ queue[id] = <<>>
           /\ state' = [state EXCEPT ![t] = "SLEEP_PORT"]
           /\ waiting' = [waiting EXCEPT ![t] = id]
           /\ UNCHANGED <<queue, pool>>
  <2>1. SleeperOwnsPort'
    BY <1>1, <1>2, <1>3, <1>4 DEF SleeperOwnsPort
  <2>2. WokenHasMessage'
    BY <1>1, <1>4 DEF WokenHasMessage, Asleep
  <2>3. DirectMessageWakes'
    <3>1. ASSUME NEW u \in Task, state'[u] = "SLEEP_PORT", NEW i \in 1..Len(queue[waiting'[u]])
          PROVE  queue[waiting'[u]][i].to # waiting'[u]
      <4>1. CASE u = t
        BY <1>1, <1>4, <3>1, <4>1
      <4>2. CASE u # t
        <5>1. waiting'[u] = waiting[u] /\ state[u] = "SLEEP_PORT"
          BY <1>1, <1>4, <3>1, <4>2
        <5>. QED BY <3>1, <5>1 DEF Asleep, DirectMessageWakes
      <4>. QED BY <4>1, <4>2
    <3>. QED BY <1>4, <3>1 DEF DirectMessageWakes
  <2>4. id # 0
    BY Constants
  <2>. QED BY <1>1, <1>4, <2>1, <2>2, <2>3, <2>4 DEF Asleep
<1>5. CASE /\ queue[id] # <<>>
           /\ queue' = [queue EXCEPT ![id] = Tail(@)]
           /\ waiting' = [waiting EXCEPT ![t] = 0]
           /\ UNCHANGED state
  <2>1. SleeperOwnsPort'
    BY <1>1, <1>2, <1>3, <1>5 DEF SleeperOwnsPort
  <2>2. WokenHasMessage'
    BY <1>1, <1>3, <1>5 DEF WokenHasMessage, Asleep
  <2>3. DirectMessageWakes'
    <3>1. ASSUME NEW u \in Task, state'[u] = "SLEEP_PORT", NEW i \in 1..Len(queue'[waiting'[u]])
          PROVE  queue'[waiting'[u]][i].to # waiting'[u]
      <4>1. u # t /\ state[u] = "SLEEP_PORT" /\ waiting[u] # 0
        BY <1>5, <3>1 DEF Asleep
      <4>2. waiting'[u] = waiting[u] /\ queue'[waiting[u]] = queue[waiting[u]]
        BY <1>1, <1>3, <1>5, <4>1
      <4>. QED BY <3>1, <4>1, <4>2 DEF Asleep, DirectMessageWakes
    <3>. QED BY <3>1 DEF DirectMessageWakes
  <2>. QED BY <1>1, <1>5, <2>1, <2>2, <2>3 DEF Asleep
<1>. QED BY <1>4, <1>5 DEF RecvLoop

-----------------------------------------------------------------------------
(* How ports refer to each other. *)

Links == MasterSound /\ RefcountCoversSlaves

LEMMA SlavesFinite ==
  ASSUME NEW id \in Id
  PROVE  IsFiniteSet(Slaves(id)) /\ Cardinality(Slaves(id)) \in Nat
<1>1. IsFiniteSet(Id)
  BY RMaxAssumption, FS_Interval DEF Id
<1>2. Slaves(id) \subseteq Id
  BY DEF Slaves
<1>. QED BY <1>1, <1>2, FS_Subset, FS_CardinalityType

LEMMA LinksInit == Init => Links
<1> SUFFICES ASSUME Init PROVE Links
  OBVIOUS
<1>1. \A id \in Id : Slaves(id) = {}
  BY Constants DEF Init, Slaves
<1>2. \A id \in Id : IsPort(id) => refcount[id] = 1
  BY PortAssumption DEF Init, IsPort, IsLive
<1>3. ASSUME NEW id \in Id, IsPort(id) PROVE refcount[id] >= 1 + Cardinality(Slaves(id))
  <2>1. Cardinality(Slaves(id)) = 0
    BY <1>1, FS_EmptySet
  <2>. QED BY <1>2, <1>3, <2>1
<1>. QED BY <1>3 DEF Init, Links, MasterSound, RefcountCoversSlaves

\* A step that changes no port's links.
LEMMA LinksFrame ==
  ASSUME Links, UNCHANGED <<owner, slaved, refcount>>, \A id \in Id : IsPort(id)' <=> IsPort(id)
  PROVE  Links'
<1>1. \A id \in Id : Slaves(id)' = Slaves(id)
  BY DEF Slaves
<1>2. MasterSound'
  <2>1. ASSUME NEW id \in Id, IsPort(id), slaved[id] # 0
        PROVE  IsPort(slaved[id])' /\ owner[slaved[id]] = owner[id]
    BY <2>1 DEF Links, MasterSound, IsPort, IsLive
  <2>. QED BY <2>1 DEF MasterSound
<1>. QED BY <1>1, <1>2 DEF Links, RefcountCoversSlaves

\* A master is a port, so no port is slaved to the id about to be issued.
LEMMA LinksCreate ==
  ASSUME Table, Links, NEW t \in Task, NEW r \in Restricts, port_create(t, r)
  PROVE  Links'
<1>1. /\ PortShape /\ RsrcInv /\ rfree # <<>> /\ rsrc_new("PORT") /\ Structure(NewId, t, r)
      /\ t # 0
  BY DEF Table, Shape, RsrcInv, port_create, Task
<1>2. /\ NewId \in Id /\ rtype[NewId] = "NONE" /\ rtype' = [rtype EXCEPT ![NewId] = "PORT"]
      /\ rtype \in [Id -> Kind \cup {"NONE"}]
  BY <1>1, RsrcNewSound DEF Kind, RsrcInv, RsrcTypeOK
<1>3. \A i \in Id : IsPort(i)' <=> IsPort(i) \/ i = NewId
  BY <1>2 DEF IsPort, IsLive
<1>4. /\ slaved'[NewId] = 0 /\ refcount'[NewId] = 1
      /\ \A i \in Id \ {NewId} : /\ slaved'[i] = slaved[i] /\ refcount'[i] = refcount[i]
                                 /\ owner'[i] = owner[i]
  BY <1>1, <1>2 DEF Structure, PortShape
<1>5. ~IsPort(NewId)
  BY <1>2 DEF IsPort, IsLive
<1>6. ASSUME NEW i \in Id, IsPort(i), slaved[i] # 0
      PROVE  slaved[i] # NewId /\ IsPort(slaved[i]) /\ slaved[i] \in Id
             /\ owner[slaved[i]] = owner[i]
  BY <1>5, <1>6 DEF Links, MasterSound, IsPort, IsLive
<1>7. MasterSound'
  BY <1>3, <1>4, <1>5, <1>6 DEF MasterSound
<1>8. RefcountCoversSlaves'
  <2>1. ASSUME NEW i \in Id, i = NewId PROVE Slaves(i)' = {}
    <3>1. ASSUME NEW s \in Id, IsPort(s)' PROVE slaved'[s] # i
      BY <1>2, <1>3, <1>4, <1>6, <2>1, <3>1 DEF Id
    <3>. QED BY <3>1 DEF Slaves
  <2>2. ASSUME NEW i \in Id, i # NewId PROVE Slaves(i)' = Slaves(i)
    <3>1. i # 0
      BY DEF Id
    <3>. QED BY <1>3, <1>4, <1>5, <3>1 DEF Slaves
  <2>3. ASSUME NEW i \in Id, IsPort(i)' PROVE refcount'[i] >= 1 + Cardinality(Slaves(i)')
    <3>1. CASE i = NewId
      <4>1. Cardinality(Slaves(i)') = 0
        BY <2>1, <3>1, FS_EmptySet
      <4>. QED BY <1>4, <3>1, <4>1
    <3>2. CASE i # NewId
      BY <1>3, <1>4, <2>2, <2>3, <3>2 DEF Links, RefcountCoversSlaves
    <3>. QED BY <3>1, <3>2
  <2>. QED BY <2>3 DEF RefcountCoversSlaves
<1>. QED BY <1>7, <1>8 DEF Links

\* refcount = 1 leaves no room for a slave.
LEMMA LinksDestroy ==
  ASSUME Table, Links, NEW t \in Task, NEW id \in Id, port_destroy(t, id)
  PROVE  Links'
<1>1. /\ PortShape /\ RsrcInv /\ IsPort(id) /\ refcount[id] = 1
      /\ rsrc_del(id) /\ Structure(id, 0, 0)
  BY DestroyOK DEF Table, Shape, RsrcInv, port_destroy
<1>2. rtype' = [rtype EXCEPT ![id] = "NONE"] /\ rtype \in [Id -> Kind \cup {"NONE"}]
  BY <1>1, RsrcDelSound, Constants DEF IsPort, IsLive, RsrcInv, RsrcTypeOK
<1>3. \A i \in Id : IsPort(i)' <=> IsPort(i) /\ i # id
  BY <1>2 DEF IsPort, IsLive
<1>4. \A i \in Id \ {id} : /\ slaved'[i] = slaved[i] /\ refcount'[i] = refcount[i]
                           /\ owner'[i] = owner[i]
  BY <1>1 DEF Structure, PortShape
<1>5. Slaves(id) = {}
  <2>1. Cardinality(Slaves(id)) = 0
    BY <1>1, SlavesFinite DEF Links, RefcountCoversSlaves
  <2>. QED BY <2>1, SlavesFinite, FS_EmptySet
<1>6. \A i \in Id : IsPort(i) => slaved[i] # id
  BY <1>5 DEF Slaves
<1>7. MasterSound'
  <2>1. ASSUME NEW i \in Id, IsPort(i), i # id, slaved[i] # 0
        PROVE  IsPort(slaved[i]) /\ slaved[i] \in Id /\ owner[slaved[i]] = owner[i]
    BY <2>1 DEF Links, MasterSound, IsPort, IsLive
  <2>. QED BY <1>3, <1>4, <1>6, <2>1 DEF MasterSound
<1>8. RefcountCoversSlaves'
  <2>1. ASSUME NEW i \in Id, IsPort(i)'
        PROVE  refcount'[i] >= 1 + Cardinality(Slaves(i)')
    <3>1. i # id /\ IsPort(i) /\ refcount'[i] = refcount[i]
      BY <1>3, <1>4, <2>1
    <3>2. Slaves(i)' = Slaves(i) \ {id}
      BY <1>3, <1>4 DEF Slaves
    <3>3. Cardinality(Slaves(i) \ {id}) =< Cardinality(Slaves(i))
      BY SlavesFinite, FS_Subset
    <3>4. Cardinality(Slaves(i) \ {id}) \in Nat
      BY SlavesFinite, FS_Subset, FS_CardinalityType
    <3>5. refcount[i] >= 1 + Cardinality(Slaves(i)) /\ refcount[i] \in Int
      BY <1>1, <3>1 DEF Links, RefcountCoversSlaves, PortShape
    <3>. QED BY <3>1, <3>2, <3>3, <3>4, <3>5, SlavesFinite
  <2>. QED BY <2>1 DEF RefcountCoversSlaves
<1>. QED BY <1>7, <1>8 DEF Links

\* The slave leaves the old master's slaves and joins the new one's, and the
\* two counters follow: also when both masters are the same port.
LEMMA LinksOption ==
  ASSUME Table, Links, NEW t \in Task, NEW id \in Id, NEW opt \in Opts, NEW arg \in Args,
         port_option(t, id, opt, arg)
  PROVE  Links'
<1>1. /\ PortShape /\ UNCHANGED <<owner, rtype>> /\ IsPort(id) /\ owner[id] = t
      /\ opt = Opt.SLAVE /\ arg # 0 => IsPort(arg) /\ owner[arg] = t
  BY OptionOK DEF Table, Shape, port_option, rsrcVars
<1>2. \A i \in Id : IsPort(i)' <=> IsPort(i)
  BY <1>1 DEF IsPort, IsLive
<1>3. CASE UNCHANGED <<slaved, refcount>>
  BY <1>1, <1>2, <1>3, LinksFrame
<1>4. CASE opt = Opt.SLAVE /\ Reslave(id, arg)
  <2>1. /\ slaved'[id] = arg /\ \A i \in Id \ {id} : slaved'[i] = slaved[i]
        /\ \A i \in Id : refcount'[i] = refcount[i] + (IF i = arg THEN 1 ELSE 0)
                                                    - (IF i = slaved[id] THEN 1 ELSE 0)
    BY <1>1, <1>4 DEF Reslave, PortShape
  <2>2. MasterSound'
    <3>1. ASSUME NEW i \in Id, IsPort(i), i # id, slaved[i] # 0
          PROVE  IsPort(slaved[i]) /\ slaved[i] \in Id /\ owner[slaved[i]] = owner[i]
      BY <3>1 DEF Links, MasterSound, IsPort, IsLive
    <3>2. arg # 0 => IsPort(arg) /\ arg \in Id /\ owner[arg] = owner[id]
      BY <1>1, <1>4 DEF IsPort, IsLive
    <3>. QED BY <1>1, <1>2, <2>1, <3>1, <3>2 DEF MasterSound
  <2>3. ASSUME NEW i \in Id, IsPort(i)
        PROVE  refcount'[i] >= 1 + Cardinality(Slaves(i)')
    <3>1. refcount[i] >= 1 + Cardinality(Slaves(i)) /\ refcount[i] \in Int
      BY <1>1, <2>3 DEF Links, RefcountCoversSlaves, PortShape
    <3>2. IsFiniteSet(Slaves(i)) /\ Cardinality(Slaves(i)) \in Nat
      BY SlavesFinite
    <3>3. id \in Slaves(i) <=> slaved[id] = i
      BY <1>1 DEF Slaves
    <3>4. Slaves(i)' = IF i = arg THEN Slaves(i) \cup {id} ELSE Slaves(i) \ {id}
      BY <1>1, <1>2, <2>1 DEF Slaves
    <3>5. CASE i = arg
      <4>1. Cardinality(Slaves(i)') = IF id \in Slaves(i) THEN Cardinality(Slaves(i))
                                      ELSE Cardinality(Slaves(i)) + 1
        BY <3>2, <3>4, <3>5, FS_AddElement
      <4>. QED BY <2>1, <3>1, <3>2, <3>3, <3>5, <4>1
    <3>6. CASE i # arg
      <4>1. Cardinality(Slaves(i)') = IF id \in Slaves(i) THEN Cardinality(Slaves(i)) - 1
                                      ELSE Cardinality(Slaves(i))
        BY <3>2, <3>4, <3>6, FS_RemoveElement
      <4>. QED BY <2>1, <3>1, <3>2, <3>3, <3>6, <4>1
    <3>. QED BY <3>5, <3>6
  <2>. QED BY <1>2, <2>2, <2>3 DEF Links, RefcountCoversSlaves
<1>. QED BY <1>3, <1>4 DEF port_option

LEMMA LinksNewTask ==
  ASSUME Table, Links, NEW t \in Task, PsCreateNewTask(t)
  PROVE  Links'
<1>1. RsrcInv /\ rsrc_new("TASK") /\ UNCHANGED <<owner, slaved, refcount>>
  BY DEF Table, Shape, RsrcInv, PsCreateNewTask, portVars, linkVars
<1>2. \A i \in Id : IsPort(i)' <=> IsPort(i)
  <2>1. CASE rfree = <<>>
    BY <1>1, <2>1 DEF rsrc_new, rsrcVars, IsPort, IsLive
  <2>2. CASE rfree # <<>>
    BY <1>1, <2>2, RsrcNewSound DEF Kind, IsPort, IsLive, RsrcInv, RsrcTypeOK
  <2>. QED BY <2>1, <2>2
<1>. QED BY <1>1, <1>2, LinksFrame

LEMMA LinksCleanUp ==
  ASSUME Table, Links, NEW t \in Task, PsCleanUpTask(t)
  PROVE  Links'
<1>1. /\ RsrcInv /\ rsrc_del(rid[t]) /\ RidsSound /\ state[t] = "DEAD"
      /\ UNCHANGED <<owner, slaved, refcount>>
      /\ rid[t] \in Int /\ created \in NBoot..NTasks /\ (t > created => state[t] = "NONE")
  BY RMaxAssumption DEF Table, Shape, RsrcInv, Records, PsCleanUpTask, portVars, linkVars
<1>2. rid[t] # 0 => rtype[rid[t]] = "TASK"
  <2>1. t \in Attached
    BY <1>1, PortAssumption DEF Attached, Task
  <2>. QED BY <1>1, <2>1 DEF RidsSound
<1>3. \A i \in Id : IsPort(i)' <=> IsPort(i)
  <2>1. \A i \in Id : i = rid[t] => ~IsPort(i)
    BY <1>2 DEF IsPort, IsLive, Id
  <2>2. (rid[t] \in Id /\ rtype' = [rtype EXCEPT ![rid[t]] = "NONE"]) \/ rtype' = rtype
    BY <1>1, RsrcDelSound DEF rsrcVars
  <2>3. rtype \in [Id -> Kind \cup {"NONE"}]
    BY <1>1 DEF RsrcInv, RsrcTypeOK
  <2>. QED BY <2>1, <2>2, <2>3 DEF IsPort, IsLive
<1>. QED BY <1>1, <1>3, LinksFrame

-----------------------------------------------------------------------------
(* Address-space references. *)

Of(p) == {u \in Attached : parent[u] = p}

LEMMA OfFinite ==
  ASSUME Shape, NEW p
  PROVE  IsFiniteSet(Of(p)) /\ Cardinality(Of(p)) \in Nat
<1>1. created \in Int
  BY PortAssumption DEF Shape
<1>2. IsFiniteSet(1..created)
  BY <1>1, FS_Interval
<1>3. Of(p) \subseteq 1..created
  BY DEF Of, Attached
<1>. QED BY <1>2, <1>3, FS_Subset, FS_CardinalityType

Counted == ThreadsCounted /\ AspaceOutlivesThreads

LEMMA CountedInit == Init => Counted
<1> SUFFICES ASSUME Init PROVE Counted
  OBVIOUS
<1>1. ASSUME NEW p \in 1..NBoot
      PROVE  threads[p] >= Cardinality({u \in Attached : parent[u] = p})
  <2>1. {u \in Attached : parent[u] = p} = {p}
    BY PortAssumption DEF Init, Attached, Task
  <2>2. Cardinality({p}) = 1
    BY FS_Singleton
  <2>3. threads[p] = 1
    BY PortAssumption DEF Init, Task
  <2>. QED BY <2>1, <2>2, <2>3
<1>2. AspaceOutlivesThreads
  BY DEF Init, AspaceOutlivesThreads, Freed
<1>. QED BY <1>1, <1>2 DEF Counted, ThreadsCounted

\* A step that neither starts nor cleans up a thread, and drops no reference.
LEMMA CountedFrame ==
  ASSUME Shape, Counted, UNCHANGED <<created, parent>>,
         \/ threads' = threads
         \/ threads' \in [Task -> Int] /\ \A p \in Task : threads'[p] >= threads[p],
         \A u \in Task : state[u] \in {"REAPED", "FREED"} \/ state'[u] \in {"REAPED", "FREED"}
                         => state'[u] = state[u]
  PROVE  Counted'
<1>1. \A u \in 1..created : u \in Task
  BY PortAssumption DEF Shape, Task
<1>2. Attached' = Attached
  BY <1>1 DEF Attached
<1>3. ThreadsCounted'
  <2>1. CASE threads' = threads
    BY <1>2, <2>1 DEF Counted, ThreadsCounted
  <2>2. CASE threads' \in [Task -> Int] /\ \A p \in Task : threads'[p] >= threads[p]
    <3>1. ASSUME NEW p \in 1..NBoot PROVE threads'[p] >= Cardinality(Of(p))
      <4>1. p \in Task /\ threads[p] \in Int /\ threads'[p] \in Int
        BY <2>2, PortAssumption DEF Task, Shape
      <4>2. threads[p] >= Cardinality(Of(p)) /\ Cardinality(Of(p)) \in Nat
        BY OfFinite DEF Counted, ThreadsCounted, Of
      <4>. QED BY <2>2, <4>1, <4>2
    <3>. QED BY <1>2, <3>1 DEF ThreadsCounted, Of
  <2>. QED BY <2>1, <2>2
<1>4. AspaceOutlivesThreads'
  <2>1. \A u \in Task : Freed(u)' => Freed(u)
    BY DEF Freed
  <2>. QED BY <1>2, <2>1 DEF Counted, AspaceOutlivesThreads
<1>. QED BY <1>3, <1>4 DEF Counted

LEMMA CountedNewTask ==
  ASSUME Table, Counted, NEW t \in Task, PsCreateNewTask(t)
  PROVE  Counted'
<1>. DEFINE u == created + 1
<1>1. /\ Shape /\ Records /\ u \in Task /\ created' = u /\ state[t] = "READY"
      /\ state' = [state EXCEPT ![u] = "READY"] /\ state \in [Task -> States]
      /\ parent' = [parent EXCEPT ![u] = parent[t]] /\ parent \in [Task -> 0..NBoot]
      /\ threads' = [threads EXCEPT ![parent[t]] = @ + 1] /\ threads \in [Task -> Int]
      /\ created \in NBoot..NTasks
  BY DEF Table, Shape, PsCreateNewTask, Running
<1>2. Attached' = Attached \cup {u} /\ u \notin Attached /\ Attached \subseteq Task
  <2>1. created \in Nat /\ \A v \in 1..created : v \in Task /\ v # u
    BY <1>1, PortAssumption DEF Task
  <2>. QED BY <1>1, <2>1 DEF Attached
<1>3. ASSUME NEW p \in 1..NBoot
      PROVE  threads'[p] >= Cardinality({v \in Attached' : parent'[v] = p})
  <2>1. /\ threads[p] >= Cardinality(Of(p)) /\ Cardinality(Of(p)) \in Nat
        /\ IsFiniteSet(Of(p)) /\ u \notin Of(p)
    BY <1>1, <1>2, OfFinite DEF Counted, ThreadsCounted, Of
  <2>2. p \in Task /\ threads[p] \in Int
    BY <1>1, PortAssumption DEF Task
  <2>3. CASE p = parent[t]
    <3>1. {v \in Attached' : parent'[v] = p} = Of(p) \cup {u}
      BY <1>1, <1>2, <2>3 DEF Of
    <3>2. threads'[p] = threads[p] + 1
      BY <1>1, <2>2, <2>3
    <3>3. Cardinality(Of(p) \cup {u}) = Cardinality(Of(p)) + 1
      BY <2>1, FS_AddElement
    <3>. HIDE DEF u
    <3>. QED BY <2>1, <2>2, <3>1, <3>2, <3>3
  <2>4. CASE p # parent[t]
    <3>1. {v \in Attached' : parent'[v] = p} = Of(p)
      BY <1>1, <1>2, <2>4 DEF Of
    <3>2. threads'[p] = threads[p]
      BY <1>1, <2>2, <2>4
    <3>. QED BY <2>1, <3>1, <3>2
  <2>. QED BY <2>3, <2>4
<1>4. AspaceOutlivesThreads'
  <2>1. t \in Attached
    BY <1>1, PortAssumption DEF Attached, Records, Task
  <2>2. ASSUME NEW v \in Task, Freed(v)', NEW w \in Attached' PROVE parent'[w] # parent'[v]
    <3>1. v # u /\ Freed(v) /\ parent'[v] = parent[v]
      BY <1>1, <2>2 DEF Freed
    <3>2. \A x \in Attached : parent[x] # parent[v]
      BY <3>1 DEF Counted, AspaceOutlivesThreads
    <3>3. parent'[u] = parent[t] /\ \A x \in Attached : parent'[x] = parent[x]
      BY <1>1, <1>2
    <3>. HIDE DEF u
    <3>. QED BY <1>2, <2>1, <3>1, <3>2, <3>3
  <2>. QED BY <2>2 DEF AspaceOutlivesThreads
<1>. QED BY <1>3, <1>4 DEF Counted, ThreadsCounted

LEMMA CountedCleanUp ==
  ASSUME Table, Counted, NEW t \in Task, PsCleanUpTask(t)
  PROVE  Counted'
<1>1. /\ Shape /\ Records /\ UNCHANGED <<created, parent>> /\ state[t] = "DEAD"
      /\ state' = [state EXCEPT ![t] = IF threads[parent[t]] = 1 THEN "FREED" ELSE "REAPED"]
      /\ threads' = [threads EXCEPT ![parent[t]] = @ - 1] /\ threads \in [Task -> Int]
      /\ state \in [Task -> States] /\ created \in NBoot..NTasks
      /\ t > created => state[t] = "NONE"
  BY DEF Table, Shape, Records, PsCleanUpTask
<1>2. Attached' = Attached \ {t} /\ t \in Attached /\ parent[t] \in 1..NBoot
  <2>1. t \in 1..created /\ \A v \in 1..created : v \in Task
    BY <1>1, PortAssumption DEF Task
  <2>. QED BY <1>1, <2>1 DEF Attached, Records
<1>3. ASSUME NEW p \in 1..NBoot
      PROVE  /\ threads'[p] >= Cardinality({v \in Attached' : parent'[v] = p})
             /\ p = parent[t] /\ threads[p] = 1 => Of(p) = {t}
  <2>1. /\ threads[p] >= Cardinality(Of(p)) /\ Cardinality(Of(p)) \in Nat
        /\ IsFiniteSet(Of(p))
    BY <1>1, OfFinite DEF Counted, ThreadsCounted, Of
  <2>2. p \in Task /\ threads[p] \in Int
    BY <1>1, PortAssumption DEF Task
  <2>3. {v \in Attached' : parent'[v] = p} = Of(p) \ {t} /\ (t \in Of(p) <=> parent[t] = p)
    BY <1>1, <1>2 DEF Of
  <2>4. threads'[p] = IF parent[t] = p THEN threads[p] - 1 ELSE threads[p]
    BY <1>1, <2>2
  <2>5. /\ IsFiniteSet(Of(p) \ {t})
        /\ Cardinality(Of(p) \ {t}) = IF t \in Of(p) THEN Cardinality(Of(p)) - 1
                                      ELSE Cardinality(Of(p))
    BY <2>1, FS_RemoveElement
  <2>6. Cardinality(Of(p) \ {t}) = 0 => Of(p) \ {t} = {}
    BY <2>5, FS_EmptySet
  <2>7. Cardinality(Of(p) \ {t}) \in Nat
    BY <2>5, FS_CardinalityType
  <2>8. CASE p = parent[t]
    <3>1. /\ threads'[p] = threads[p] - 1
          /\ Cardinality(Of(p) \ {t}) = Cardinality(Of(p)) - 1
      BY <2>3, <2>4, <2>5, <2>8
    <3>2. threads[p] = 1 => Cardinality(Of(p) \ {t}) = 0
      BY <2>1, <2>2, <2>7, <3>1
    <3>3. threads[p] = 1 => Of(p) = {t}
      BY <2>3, <2>6, <2>8, <3>2
    <3>4. threads'[p] >= Cardinality(Of(p) \ {t})
      BY <2>1, <2>2, <3>1
    <3>. QED BY <2>3, <3>3, <3>4
  <2>9. CASE p # parent[t]
    <3>1. threads'[p] = threads[p] /\ Cardinality(Of(p) \ {t}) = Cardinality(Of(p))
      BY <2>3, <2>4, <2>5, <2>9
    <3>. QED BY <2>1, <2>3, <2>9, <3>1
  <2>. QED BY <2>8, <2>9
<1>4. AspaceOutlivesThreads'
  <2>1. ASSUME NEW v \in Task, Freed(v)', NEW w \in Attached' PROVE parent'[w] # parent'[v]
    <3>1. CASE v = t
      <4>1. threads[parent[t]] = 1
        BY <1>1, <2>1, <3>1 DEF Freed
      <4>2. w \in Attached /\ w # t
        BY <1>2, <2>1
      <4>. QED BY <1>1, <1>2, <1>3, <3>1, <4>1, <4>2 DEF Of
    <3>2. CASE v # t
      BY <1>1, <1>2, <2>1, <3>2 DEF Freed, Counted, AspaceOutlivesThreads
    <3>. QED BY <3>1, <3>2
  <2>. QED BY <2>1 DEF AspaceOutlivesThreads
<1>. QED BY <1>3, <1>4 DEF Counted, ThreadsCounted

-----------------------------------------------------------------------------
(* The invariant of the specification. *)

PortInv == Table /\ Asleep /\ Links /\ Counted

LEMMA InvInit == Init => PortInv
BY TableInit, AsleepInit, LinksInit, CountedInit DEF PortInv

\* One step per action of Next.
LEMMA InvNext == PortInv /\ [Next]_vars => PortInv'
<1> SUFFICES ASSUME PortInv, [Next]_vars PROVE PortInv'
  OBVIOUS
<1>0. Table /\ Asleep /\ Links /\ Counted /\ Shape /\ state \in [Task -> States]
  BY DEF PortInv, Table, Shape
<1>a. \A u \in 1..created : u \in Task
  BY <1>0, PortAssumption DEF Shape, Task
<1>1. ASSUME NEW t \in Task, NEW r \in Restricts, port_create(t, r) PROVE PortInv'
  <2>1. Counted'
    BY <1>0, <1>1, CountedFrame DEF port_create, taskVars
  <2>. QED BY <1>0, <1>1, <2>1, TableCreate, AsleepCreate, LinksCreate DEF PortInv
<1>2. ASSUME NEW t \in Task, NEW id \in Id, port_destroy(t, id) PROVE PortInv'
  <2>1. Counted'
    BY <1>0, <1>2, CountedFrame DEF port_destroy, taskVars
  <2>. QED BY <1>0, <1>2, <2>1, TableDestroy, AsleepDestroy, LinksDestroy DEF PortInv
<1>3. ASSUME NEW t \in Task, NEW id \in Id, NEW opt \in Opts, NEW arg \in Args,
             port_option(t, id, opt, arg)
      PROVE  PortInv'
  <2>1. Counted'
    BY <1>0, <1>3, CountedFrame DEF port_option, taskVars
  <2>. QED BY <1>0, <1>3, <2>1, TableOption, AsleepOption, LinksOption DEF PortInv
<1>4. ASSUME NEW t \in Task, NEW src \in Id, NEW dst \in Id, NEW size \in Sizes,
             port_send(t, src, dst, size)
      PROVE  PortInv'
  <2>1. /\ state[t] = "READY" /\ WakeOwner(t, Target(dst), dst)
        /\ UNCHANGED <<owner, slaved, refcount, rtype, created, parent, threads>>
    BY <1>4 DEF port_send, Running, linkVars, rsrcVars, taskVars
  <2>2. Counted'
    <3>1. \A u \in Task : state[u] \in {"REAPED", "FREED"} \/ state'[u] \in {"REAPED", "FREED"}
                          => state'[u] = state[u]
      BY <1>0, <2>1 DEF WakeOwner
    <3>. QED BY <1>0, <1>a, <2>1, <3>1, CountedFrame
  <2>3. Links'
    BY <1>0, <2>1, LinksFrame DEF IsPort, IsLive
  <2>. QED BY <1>0, <1>4, <2>2, <2>3, TableSend, AsleepSend DEF PortInv
<1>5. ASSUME NEW t \in Task,
             (\E src \in Id : SourceFault(t, src)) \/ ScTerminateProcess(t)
      PROVE  PortInv'
  <2>1. /\ state[t] = "READY" /\ state' = [state EXCEPT ![t] = "DEAD"]
        /\ UNCHANGED <<owner, slaved, refcount, rtype, created, parent, threads>>
    BY <1>5 DEF SourceFault, ScTerminateProcess, Running, portVars, linkVars, rsrcVars, taskVars
  <2>2. Counted'
    BY <1>0, <1>a, <2>1, CountedFrame
  <2>3. Links'
    BY <1>0, <2>1, LinksFrame DEF IsPort, IsLive
  <2>4. Table'
    BY <1>0, <1>5, TableSourceFault, TableTerminate
  <2>. QED BY <1>0, <1>5, <2>2, <2>3, <2>4, AsleepEnd DEF PortInv
<1>6. ASSUME NEW t \in Task, NEW id \in Id, IsPort(id), owner[id] = t, state[t] = "READY",
             waiting[t] \in {0, id}, RecvLoop(t, id),
             UNCHANGED <<linkVars, rsrcVars, taskVars, npages>>
      PROVE  PortInv'
  <2>1. UNCHANGED <<owner, slaved, refcount, rtype, created, parent, threads>>
    BY <1>6 DEF linkVars, rsrcVars, taskVars
  <2>2. Counted'
    <3>1. \A u \in Task : state[u] \in {"REAPED", "FREED"} \/ state'[u] \in {"REAPED", "FREED"}
                          => state'[u] = state[u]
      BY <1>0, <1>6 DEF RecvLoop
    <3>. QED BY <1>0, <1>a, <2>1, <3>1, CountedFrame
  <2>3. Links'
    BY <1>0, <2>1, LinksFrame DEF IsPort, IsLive
  <2>. QED BY <1>0, <1>6, <2>2, <2>3, TableRecvLoop, AsleepRecvLoop DEF PortInv
<1>7. ASSUME NEW t \in Task, NEW id \in Id, port_recv(t, id) PROVE PortInv'
  BY <1>6, <1>7, RecvOK DEF port_recv, Running
<1>8. ASSUME NEW t \in Task, RecvResume(t) PROVE PortInv'
  <2>1. IsPort(waiting[t]) /\ owner[waiting[t]] = t
    BY <1>0, <1>8 DEF Asleep, SleeperOwnsPort, RecvResume
  <2>2. waiting[t] \in Id
    BY <2>1 DEF IsPort, IsLive
  <2>. QED BY <1>6, <1>8, <2>1, <2>2 DEF RecvResume
<1>9. ASSUME NEW t \in Task, PsCreateNewTask(t) PROVE PortInv'
  BY <1>0, <1>9, TableNewTask, AsleepNewTask, LinksNewTask, CountedNewTask DEF PortInv
<1>10. ASSUME NEW t \in Task, PsCleanUpTask(t) PROVE PortInv'
  BY <1>0, <1>10, TableCleanUp, AsleepCleanUp, LinksCleanUp, CountedCleanUp DEF PortInv
<1>13. ASSUME NEW t \in Task, PsCreateNewTaskFails(t) PROVE PortInv'
  <2>1. /\ UNCHANGED <<rtype, rfree, created, parent, rid, state, waiting,
                       owner, restrict, slaved, refcount, queue, pool, npages>>
        /\ threads' = [threads EXCEPT ![parent[t]] = @ + 1] /\ state[t] = "READY"
    BY <1>13 DEF PsCreateNewTaskFails, Running, rsrcVars, taskVars, portVars, linkVars, pageVars
  <2>2. threads \in [Task -> Int] /\ Records /\ created \in NBoot..NTasks
    BY <1>0 DEF Shape, PortInv, Table
  <2>3. parent[t] \in 1..NBoot
    BY <2>1, <2>2, PortAssumption DEF Records, Task
  <2>4. /\ threads' \in [Task -> Int]
        /\ \A p \in Task : threads'[p] >= threads[p] /\ (p > NBoot => threads'[p] = threads[p])
    <3>1. NBoot \in Nat /\ parent[t] =< NBoot
      BY <2>3, PortAssumption
    <3>2. ASSUME NEW p \in Task
          PROVE  threads'[p] = IF p = parent[t] THEN threads[p] + 1 ELSE threads[p]
      BY <2>1, <2>2
    <3>3. threads' \in [Task -> Int]
      <4>1. parent[t] \in Task
        BY <2>3, PortAssumption DEF Task
      <4>2. threads[parent[t]] + 1 \in Int
        BY <2>2, <4>1
      <4>. QED BY <2>1, <2>2, <4>2
    <3>4. \A p \in Task : p \in Int /\ threads[p] \in Int
      BY <2>2 DEF Task
    <3>5. ASSUME NEW p \in Task PROVE threads'[p] >= threads[p] /\ (p > NBoot => p # parent[t])
      <4>1. threads'[p] = threads[p] + 1 \/ threads'[p] = threads[p]
        BY <3>2
      <4>2. p > NBoot => p # parent[t]
        BY <2>3, <3>1, <3>4
      <4>. QED BY <3>4, <4>1, <4>2
    <3>6. ASSUME NEW p \in Task, p > NBoot PROVE threads'[p] = threads[p]
      BY <3>2, <3>5, <3>6
    <3>. QED BY <3>3, <3>5, <3>6
  <2>5. Table'
    BY <1>0, <2>1, <2>4, TableFrame DEF Shape, PortShape, rsrcVars
  <2>6. Asleep'
    BY <1>0, <2>1, AsleepFrame DEF IsPort, IsLive
  <2>7. Links'
    BY <1>0, <2>1, LinksFrame DEF IsPort, IsLive
  <2>8. Counted'
    BY <1>0, <2>1, <2>4, CountedFrame
  <2>. QED BY <2>5, <2>6, <2>7, <2>8 DEF PortInv
<1>11. CASE UNCHANGED vars
  <2>1. /\ UNCHANGED <<rtype, rfree, created, parent, rid, threads, state, waiting,
                       owner, restrict, slaved, refcount, queue, pool, npages>>
    BY <1>11 DEF vars, rsrcVars, taskVars, portVars, linkVars, pageVars
  <2>2. Table'
    BY <1>0, <2>1, TableFrame DEF Shape, PortShape, rsrcVars
  <2>3. Asleep'
    BY <1>0, <2>1, AsleepFrame DEF IsPort, IsLive
  <2>4. Links'
    BY <1>0, <2>1, LinksFrame DEF IsPort, IsLive
  <2>5. Counted'
    BY <1>0, <2>1, CountedFrame
  <2>. QED BY <2>2, <2>3, <2>4, <2>5 DEF PortInv
<1>12. CASE Next
  <2>1. PICK t \in Task :
          \/ \E r \in Restricts : port_create(t, r)
          \/ \E id \in Id : port_destroy(t, id)
          \/ \E id \in Id, opt \in Opts, arg \in Args : port_option(t, id, opt, arg)
          \/ \E src, dst \in Id, size \in Sizes : port_send(t, src, dst, size)
          \/ \E src \in Id : SourceFault(t, src)
          \/ \E id \in Id : port_recv(t, id)
          \/ RecvResume(t)
          \/ PsCreateNewTask(t)
          \/ PsCreateNewTaskFails(t)
          \/ ScTerminateProcess(t)
          \/ PsCleanUpTask(t)
    BY <1>12, Zenon DEF Next
  <2>2. CASE (\E src \in Id : SourceFault(t, src)) \/ ScTerminateProcess(t)
    BY <1>5, <2>2, Zenon
  <2>3. CASE (\E r \in Restricts : port_create(t, r)) \/ (\E id \in Id : port_destroy(t, id))
    BY <1>1, <1>2, <2>3, Zenon
  <2>4. CASE \E id \in Id, opt \in Opts, arg \in Args : port_option(t, id, opt, arg)
    BY <1>3, <2>4, Zenon
  <2>5. CASE \E src, dst \in Id, size \in Sizes : port_send(t, src, dst, size)
    BY <1>4, <2>5, Zenon
  <2>6. CASE (\E id \in Id : port_recv(t, id)) \/ RecvResume(t)
    BY <1>7, <1>8, <2>6, Zenon
  <2>7. CASE PsCreateNewTask(t) \/ PsCreateNewTaskFails(t) \/ PsCleanUpTask(t)
    BY <1>9, <1>10, <1>13, <2>7, Zenon
  <2>. QED BY <2>1, <2>2, <2>3, <2>4, <2>5, <2>6, <2>7, Zenon
<1>. QED BY <1>11, <1>12

-----------------------------------------------------------------------------
(* Theorems. *)

LEMMA InvAlways == Spec => []PortInv
BY InvInit, InvNext, PTL DEF Spec

\* The counters are never negative: refcount counts at least the port itself, and
\* threads is the size of a set.
LEMMA InvTypes == PortInv => TypeOK
<1> SUFFICES ASSUME PortInv PROVE TypeOK
  OBVIOUS
<1>0. /\ Shape /\ PortShape /\ Records /\ RefcountCoversSlaves /\ ThreadsCounted
  BY DEF PortInv, Table, Links, Counted, Shape
<1>1. threads \in [Task -> Nat]
  <2>1. ASSUME NEW p \in Task PROVE threads[p] \in Nat
    <3>1. CASE p > NBoot
      BY <1>0, <3>1 DEF Records
    <3>2. CASE p \in 1..NBoot
      <4>1. threads[p] >= Cardinality(Of(p)) /\ Cardinality(Of(p)) \in Nat
        BY <1>0, <3>2, OfFinite DEF ThreadsCounted, Of
      <4>. QED BY <1>0, <4>1 DEF Shape
    <3>. QED BY <3>1, <3>2, PortAssumption DEF Task
  <2>. QED BY <1>0, <2>1 DEF Shape
<1>2. refcount \in [Id -> Nat]
  <2>1. ASSUME NEW id \in Id PROVE refcount[id] \in Nat
    <3>1. CASE IsPort(id)
      <4>1. refcount[id] \in Int /\ refcount[id] >= 1 + Cardinality(Slaves(id))
        BY <1>0, <3>1 DEF RefcountCoversSlaves, PortShape
      <4>. QED BY <4>1, SlavesFinite
    <3>2. CASE ~IsPort(id)
      BY <1>0, <3>2 DEF Records
    <3>. QED BY <3>1, <3>2
  <2>. QED BY <1>0, <2>1 DEF PortShape
<1>3. queue \in [Id -> Seq(Message)]
  <2>1. SoundMessage \subseteq Message
    BY DEF SoundMessage
  <2>2. queue \in [Id -> Seq(SoundMessage)]
    BY <1>0 DEF PortShape
  <2>. QED BY <2>1, <2>2
<1>. QED BY <1>0, <1>1, <1>2, <1>3 DEF TypeOK, Shape, PortShape, States

\* Every variable has its type; in particular the two counters never go below 0.
THEOREM TypeCorrect == Spec => []TypeOK
BY InvAlways, InvTypes, PTL

\* Masters are registered ports of the slave's owner: port_option never panics.
THEOREM MasterAlwaysSound == Spec => []MasterSound
<1>1. PortInv => MasterSound
  BY DEF PortInv, Links
<1>. QED BY <1>1, InvAlways, PTL

\* port_destroy never frees a structure a slave routes to.
THEOREM RefcountAlwaysCovers == Spec => []RefcountCoversSlaves
<1>1. PortInv => RefcountCoversSlaves
  BY DEF PortInv, Links
<1>. QED BY <1>1, InvAlways, PTL

\* The port a thread sleeps on stays a port of that thread.
THEOREM SleeperAlwaysOwns == Spec => []SleeperOwnsPort
<1>1. PortInv => SleeperOwnsPort
  BY DEF PortInv, Asleep
<1>. QED BY <1>1, InvAlways, PTL

\* A wake-up without a message happens on a slave only.
THEOREM WokenAlwaysHasMessage == Spec => []WokenHasMessage
<1>1. PortInv => WokenHasMessage
  BY DEF PortInv, Asleep
<1>. QED BY <1>1, InvAlways, PTL

\* A message sent to a port itself never waits there beside its sleeping owner.
THEOREM DirectMessageAlwaysWakes == Spec => []DirectMessageWakes
<1>1. PortInv => DirectMessageWakes
  BY DEF PortInv, Asleep
<1>. QED BY <1>1, InvAlways, PTL

\* The address space's reference count covers the threads that use it.
THEOREM ThreadsAlwaysCounted == Spec => []ThreadsCounted
<1>1. PortInv => ThreadsCounted
  BY DEF PortInv, Counted
<1>. QED BY <1>1, InvAlways, PTL

\* An address space is freed only when no thread is left to run in it.
THEOREM AspaceAlwaysOutlives == Spec => []AspaceOutlivesThreads
<1>1. PortInv => AspaceOutlivesThreads
  BY DEF PortInv, Counted
<1>. QED BY <1>1, InvAlways, PTL

\* A thread's id is released once, at its clean-up, and is never a port's.
THEOREM RidsAlwaysSound == Spec => []RidsSound
<1>1. PortInv => RidsSound
  BY DEF PortInv, Table
<1>. QED BY <1>1, InvAlways, PTL

-----------------------------------------------------------------------------
(* Pages *)

\* Only pages that were allocated circulate, and a message has one exactly if
\* its size calls for one: port_recv looks at the size.
Carriers ==
  /\ \A k \in 1..Len(pool) : pool[k] =< npages
  /\ \A id \in Id : \A i \in 1..Len(queue[id]) :
       /\ queue[id][i].page =< npages
       /\ queue[id][i].page # 0 <=> Paged(queue[id][i].size)

\* PagesDistinct, one fact at a time.
PoolApart == \A k, l \in 1..Len(pool) : pool[k] = pool[l] => k = l
QueuesOutsidePool ==
  \A id \in Id : \A i \in 1..Len(queue[id]), k \in 1..Len(pool) :
    queue[id][i].page # 0 => pool[k] # queue[id][i].page
QueuesApart ==
  \A id, other \in Id : \A i \in 1..Len(queue[id]), j \in 1..Len(queue[other]) :
    queue[id][i].page # 0 /\ queue[other][j].page = queue[id][i].page => id = other /\ i = j

PageInv == PoolApart /\ QueuesOutsidePool /\ QueuesApart /\ Carriers

LEMMA PageOfMessage == ASSUME NEW m \in SoundMessage PROVE m.page \in Nat /\ m.page \in 0..MaxPages
<1>1. m \in Message
  BY DEF SoundMessage
<1>2. m.page \in 0..MaxPages
  BY <1>1 DEF Message
<1>. QED BY <1>2

LEMMA PageInvMeans == PageInv => PagesDistinct
<1> SUFFICES ASSUME PageInv PROVE PagesDistinct
  OBVIOUS
<1>1. \A id \in Id : \A i \in QueuedPages(id) : i \in 1..Len(queue[id]) /\ queue[id][i].page # 0
  BY DEF QueuedPages
<1>2. \A k, l \in 1..Len(pool) : pool[k] = pool[l] => k = l
  BY DEF PageInv, PoolApart
<1>3. \A id \in Id : \A i \in QueuedPages(id) : \A k \in 1..Len(pool) : pool[k] # queue[id][i].page
  BY <1>1 DEF PageInv, QueuesOutsidePool
<1>4. ASSUME NEW id \in Id, NEW i \in QueuedPages(id), NEW other \in Id, NEW j \in QueuedPages(other),
             queue[other][j].page = queue[id][i].page
      PROVE  <<id, i>> = <<other, j>>
  <2>1. id = other /\ i = j
    BY <1>1, <1>4 DEF PageInv, QueuesApart
  <2>. QED BY <2>1
<1>. QED BY <1>2, <1>3, <1>4 DEF PagesDistinct

LEMMA PagesInit == Init => PageInv
<1> SUFFICES ASSUME Init PROVE PageInv
  OBVIOUS
<1>1. Len(pool) = 0 /\ \A id \in Id : Len(queue[id]) = 0
  BY DEF Init
<1>. QED BY <1>1 DEF PageInv, PoolApart, QueuesOutsidePool, QueuesApart, Carriers

\* A step that leaves the pool alone and at most empties queues.
LEMMA PagesFrame ==
  ASSUME PageInv, UNCHANGED <<pool, npages>>,
         \A id \in Id : queue'[id] = queue[id] \/ queue'[id] = <<>>
  PROVE  PageInv'
<1>1. ASSUME NEW id \in Id, NEW i \in 1..Len(queue'[id])
      PROVE  i \in 1..Len(queue[id]) /\ queue'[id][i] = queue[id][i]
  <2>1. Len(<<>>) = 0
    OBVIOUS
  <2>2. queue'[id] # <<>>
    BY <1>1, <2>1
  <2>. QED BY <1>1, <2>2
<1>2. PoolApart'
  BY DEF PageInv, PoolApart
<1>3. QueuesOutsidePool'
  <2>1. ASSUME NEW id \in Id, NEW i \in 1..Len(queue'[id]), NEW k \in 1..Len(pool),
               queue'[id][i].page # 0
        PROVE  pool[k] # queue'[id][i].page
    BY <1>1, <2>1 DEF PageInv, QueuesOutsidePool
  <2>. QED BY <2>1 DEF QueuesOutsidePool
<1>4. QueuesApart'
  <2>1. ASSUME NEW id \in Id, NEW i \in 1..Len(queue'[id]), queue'[id][i].page # 0,
               NEW other \in Id, NEW j \in 1..Len(queue'[other]),
               queue'[other][j].page = queue'[id][i].page
        PROVE  id = other /\ i = j
    BY <1>1, <2>1 DEF PageInv, QueuesApart
  <2>. QED BY <2>1 DEF QueuesApart
<1>5. Carriers'
  BY <1>1 DEF PageInv, Carriers
<1>. QED BY <1>2, <1>3, <1>4, <1>5 DEF PageInv

\* port_send: the page it takes is in no message, and leaves the pool.
LEMMA PagesSend ==
  ASSUME Shape, PageInv, NEW q \in Id, NEW m \in SoundMessage,
         m.page = CarrierPage(m.size), TakeCarrier(m.size),
         queue' = [queue EXCEPT ![q] = Append(@, m)]
  PROVE  PageInv'
<1>. DEFINE n == Len(queue[q])
<1>1. /\ queue \in [Id -> Seq(SoundMessage)] /\ queue[q] \in Seq(SoundMessage) /\ n \in Nat
      /\ pool \in Seq(Page) /\ npages \in Nat /\ Len(pool) \in Nat
      /\ \A k \in 1..Len(pool) : pool[k] \in Nat /\ pool[k] # 0
  <2>1. queue \in [Id -> Seq(SoundMessage)] /\ pool \in Seq(Page) /\ npages \in 0..MaxPages
    BY DEF Shape, PortShape
  <2>2. queue[q] \in Seq(SoundMessage)
    BY <2>1
  <2>3. n \in Nat
    BY <2>2
  <2>4. \A k \in 1..Len(pool) : pool[k] \in Page
    BY <2>1
  <2>5. \A p \in Page : p \in Nat /\ p # 0
    BY PortAssumption DEF Page
  <2>. QED BY <2>1, <2>2, <2>3, <2>4, <2>5
<1>2. \A id \in Id : \A i \in 1..Len(queue'[id]) :
        \/ i \in 1..Len(queue[id]) /\ queue'[id][i] = queue[id][i]
        \/ id = q /\ i = n + 1 /\ queue'[id][i] = m
  <2> SUFFICES ASSUME NEW id \in Id, NEW i \in 1..Len(queue'[id])
               PROVE  \/ i \in 1..Len(queue[id]) /\ queue'[id][i] = queue[id][i]
                      \/ id = q /\ i = n + 1 /\ queue'[id][i] = m
    OBVIOUS
  <2>1. CASE id # q
    BY <1>1, <2>1
  <2>2. CASE id = q
    <3>1. queue'[q] = Append(queue[q], m) /\ Len(queue'[q]) = n + 1
      BY <1>1
    <3>2. i \in 1..n \/ i = n + 1
      BY <1>1, <2>2, <3>1
    <3>. QED BY <1>1, <2>2, <3>1, <3>2
  <2>. QED BY <2>1, <2>2
<1>3. /\ m.page # 0 <=> Paged(m.size)
      /\ m.page =< npages' /\ npages =< npages' /\ npages' \in Nat
      /\ m.page # 0 => /\ \A k \in 1..Len(pool') : pool'[k] # m.page
                       /\ \A id \in Id : \A i \in 1..Len(queue[id]) : queue[id][i].page # m.page
      /\ \A k \in 1..Len(pool') : \E l \in 1..Len(pool) : pool'[k] = pool[l]
      /\ \A k, l \in 1..Len(pool') : pool'[k] = pool'[l] => k = l
  <2>1. CASE ~Paged(m.size)
    BY <1>1, <2>1 DEF CarrierPage, TakeCarrier, PageInv, PoolApart
  <2>2. CASE Paged(m.size) /\ pool = <<>>
    <3>1. m.page = npages + 1 /\ pool' = pool /\ npages' = npages + 1 /\ Len(pool) = 0
      BY <2>2 DEF CarrierPage, TakeCarrier
    <3>2. ASSUME NEW id \in Id, NEW i \in 1..Len(queue[id]) PROVE queue[id][i].page # npages + 1
      <4>1. queue[id][i].page =< npages /\ queue[id][i] \in SoundMessage
        BY <1>1 DEF PageInv, Carriers
      <4>2. queue[id][i].page \in Int
        BY <4>1, PageOfMessage
      <4>. QED BY <1>1, <4>1, <4>2
    <3>3. \A k, l \in 1..Len(pool) : pool[k] = pool[l] => k = l
      BY DEF PageInv, PoolApart
    <3>. QED BY <1>1, <2>2, <3>1, <3>2, <3>3
  <2>3. CASE Paged(m.size) /\ pool # <<>>
    <3>1. /\ m.page = pool[1] /\ pool' = Tail(pool) /\ npages' = npages /\ 1 \in 1..Len(pool)
      BY <1>1, <2>3 DEF CarrierPage, TakeCarrier
    <3>2. /\ Len(pool') = Len(pool) - 1
          /\ \A k \in 1..Len(pool') : k + 1 \in 1..Len(pool) /\ pool'[k] = pool[k + 1]
      BY <1>1, <2>3, <3>1
    <3>3. \A k, l \in 1..Len(pool) : pool[k] = pool[l] => k = l
      BY DEF PageInv, PoolApart
    <3>4. ASSUME NEW k \in 1..Len(pool') PROVE pool'[k] # pool[1]
      <4>1. k + 1 # 1
        BY <1>1, <3>2
      <4>. QED BY <3>1, <3>2, <3>3, <4>1
    <3>5. ASSUME NEW k \in 1..Len(pool'), NEW l \in 1..Len(pool'), pool'[k] = pool'[l] PROVE k = l
      <4>1. k + 1 = l + 1
        BY <3>2, <3>3, <3>5
      <4>. QED BY <1>1, <3>2, <4>1
    <3>6. ASSUME NEW id \in Id, NEW i \in 1..Len(queue[id]) PROVE queue[id][i].page # pool[1]
      BY <1>1, <3>1 DEF PageInv, QueuesOutsidePool
    <3>7. pool[1] =< npages /\ pool[1] # 0
      BY <1>1, <3>1 DEF PageInv, Carriers
    <3>. QED BY <1>1, <2>3, <3>1, <3>2, <3>4, <3>5, <3>6, <3>7
  <2>. QED BY <2>1, <2>2, <2>3
<1>4. PoolApart'
  BY <1>3 DEF PoolApart
<1>5. QueuesOutsidePool'
  <2>1. ASSUME NEW id \in Id, NEW i \in 1..Len(queue'[id]), queue'[id][i].page # 0,
               NEW k \in 1..Len(pool')
        PROVE  pool'[k] # queue'[id][i].page
    <3>1. CASE i \in 1..Len(queue[id]) /\ queue'[id][i] = queue[id][i]
      <4>1. PICK l \in 1..Len(pool) : pool'[k] = pool[l]
        BY <1>3
      <4>. QED BY <2>1, <3>1, <4>1 DEF PageInv, QueuesOutsidePool
    <3>2. CASE queue'[id][i] = m
      BY <1>3, <2>1, <3>2
    <3>. QED BY <1>2, <3>1, <3>2
  <2>. QED BY <2>1 DEF QueuesOutsidePool
<1>6. QueuesApart'
  <2>1. ASSUME NEW id \in Id, NEW i \in 1..Len(queue'[id]), queue'[id][i].page # 0,
               NEW other \in Id, NEW j \in 1..Len(queue'[other]),
               queue'[other][j].page = queue'[id][i].page
        PROVE  id = other /\ i = j
    <3>1. CASE queue'[id][i] = m /\ id = q /\ i = n + 1
      <4>1. ~(j \in 1..Len(queue[other]) /\ queue'[other][j] = queue[other][j])
        BY <1>3, <2>1, <3>1
      <4>. QED BY <1>2, <3>1, <4>1
    <3>2. CASE i \in 1..Len(queue[id]) /\ queue'[id][i] = queue[id][i]
      <4>1. queue'[other][j] # m
        BY <1>3, <2>1, <3>2
      <4>2. j \in 1..Len(queue[other]) /\ queue'[other][j] = queue[other][j]
        BY <1>2, <4>1
      <4>. QED BY <2>1, <3>2, <4>2 DEF PageInv, QueuesApart
    <3>. QED BY <1>2, <3>1, <3>2
  <2>. QED BY <2>1 DEF QueuesApart
<1>7. Carriers'
  <2>1. ASSUME NEW k \in 1..Len(pool') PROVE pool'[k] =< npages'
    <3>1. PICK l \in 1..Len(pool) : pool'[k] = pool[l]
      BY <1>3
    <3>2. pool[l] =< npages /\ pool[l] \in Nat
      BY <1>1 DEF PageInv, Carriers
    <3>. QED BY <1>1, <1>3, <3>1, <3>2
  <2>2. ASSUME NEW id \in Id, NEW i \in 1..Len(queue'[id])
        PROVE  /\ queue'[id][i].page =< npages'
               /\ queue'[id][i].page # 0 <=> Paged(queue'[id][i].size)
    <3>1. CASE queue'[id][i] = m
      BY <1>3, <3>1
    <3>2. CASE i \in 1..Len(queue[id]) /\ queue'[id][i] = queue[id][i]
      <4>1. /\ queue[id][i] \in SoundMessage /\ queue[id][i].page =< npages
            /\ queue[id][i].page # 0 <=> Paged(queue[id][i].size)
        BY <1>1, <3>2 DEF PageInv, Carriers
      <4>2. queue[id][i].page \in Int
        BY <4>1, PageOfMessage
      <4>. QED BY <1>1, <1>3, <3>2, <4>1, <4>2
    <3>. QED BY <1>2, <3>1, <3>2
  <2>. QED BY <2>1, <2>2 DEF Carriers
<1>. QED BY <1>4, <1>5, <1>6, <1>7 DEF PageInv

\* port_recv: the page goes back to the pool with the message it carried.
LEMMA PagesRecvLoop ==
  ASSUME Shape, PageInv, NEW t \in Task, NEW q \in Id, RecvLoop(t, q), UNCHANGED npages
  PROVE  PageInv'
<1>1. CASE UNCHANGED <<queue, pool>>
  BY <1>1, PagesFrame
<1>2. CASE /\ queue[q] # <<>>
           /\ queue' = [queue EXCEPT ![q] = Tail(@)]
           /\ pool' = IF Paged(Head(queue[q]).size) THEN <<Head(queue[q]).page>> \o pool ELSE pool
  <2>. DEFINE m == queue[q][1]
              shift(id) == IF id = q THEN 1 ELSE 0
  <2>1. /\ queue \in [Id -> Seq(SoundMessage)] /\ queue[q] \in Seq(SoundMessage)
        /\ Len(queue[q]) \in Nat \ {0} /\ 1 \in 1..Len(queue[q])
        /\ pool \in Seq(Page) /\ npages \in Nat /\ Len(pool) \in Nat
        /\ Head(queue[q]) = m /\ m \in SoundMessage
    <3>1. queue \in [Id -> Seq(SoundMessage)] /\ pool \in Seq(Page) /\ npages \in 0..MaxPages
      BY DEF Shape, PortShape
    <3>2. queue[q] \in Seq(SoundMessage) /\ queue[q] # <<>>
      BY <1>2, <3>1
    <3>3. /\ Len(queue[q]) \in Nat \ {0} /\ 1 \in 1..Len(queue[q])
          /\ Head(queue[q]) = m /\ m \in SoundMessage
      BY <3>2
    <3>4. npages \in Nat /\ Len(pool) \in Nat
      BY <3>1, PortAssumption
    <3>. QED BY <3>1, <3>2, <3>3, <3>4
  <2>2. ASSUME NEW id \in Id, NEW i \in 1..Len(queue'[id])
        PROVE  /\ i + shift(id) \in 1..Len(queue[id])
               /\ queue'[id][i] = queue[id][i + shift(id)]
               /\ id = q => i + shift(id) # 1
    <3>1. CASE id # q
      <4>1. queue'[id] = queue[id] /\ i + 0 = i
        BY <1>2, <2>1, <3>1
      <4>. QED BY <3>1, <4>1
    <3>2. CASE id = q
      <4>1. /\ queue'[q] = Tail(queue[q]) /\ Len(queue'[q]) = Len(queue[q]) - 1
            /\ \A k \in 1..Len(queue'[q]) : queue'[q][k] = queue[q][k + 1]
        BY <1>2, <2>1
      <4>2. i + 1 \in 1..Len(queue[q]) /\ i + 1 # 1
        BY <2>1, <3>2, <4>1
      <4>. QED BY <3>2, <4>1, <4>2
    <3>. QED BY <3>1, <3>2
  <2>3. m.page =< npages /\ (m.page # 0 <=> Paged(m.size))
    BY <2>1 DEF PageInv, Carriers
  <2>4. /\ \A k \in 1..Len(pool') :
             (\E l \in 1..Len(pool) : pool'[k] = pool[l]) \/ (m.page # 0 /\ pool'[k] = m.page)
        /\ PoolApart'
    <3>1. CASE ~Paged(m.size)
      <4>1. pool' = pool
        BY <1>2, <2>1, <3>1
      <4>. QED BY <4>1 DEF PageInv, PoolApart
    <3>2. CASE Paged(m.size)
      <4>1. /\ pool' = <<m.page>> \o pool /\ <<m.page>> \in Seq(Page) /\ Len(<<m.page>>) = 1
            /\ m.page # 0
        <5>1. m.page # 0 /\ m.page \in Page
          BY <2>1, <2>3, <3>2, PageOfMessage DEF Page
        <5>. QED BY <1>2, <2>1, <3>2, <5>1
      <4>2. /\ Len(pool') = Len(pool) + 1 /\ pool'[1] = m.page
            /\ \A k \in 1..Len(pool) : pool'[k + 1] = pool[k]
        BY <2>1, <4>1
      <4>3. ASSUME NEW k \in 1..Len(pool'), k # 1
            PROVE  k - 1 \in 1..Len(pool) /\ pool'[k] = pool[k - 1]
        <5>1. k - 1 \in 1..Len(pool) /\ (k - 1) + 1 = k
          BY <2>1, <4>2, <4>3
        <5>. QED BY <4>2, <5>1
      <4>4. \A k \in 1..Len(pool) : pool[k] # m.page
        BY <2>1, <4>1 DEF PageInv, QueuesOutsidePool
      <4>5. ASSUME NEW k \in 1..Len(pool'), NEW l \in 1..Len(pool'), pool'[k] = pool'[l] PROVE k = l
        <5>1. CASE k = 1 \/ l = 1
          BY <4>2, <4>3, <4>4, <4>5, <5>1
        <5>2. CASE k # 1 /\ l # 1
          <6>1. k - 1 = l - 1
            BY <4>3, <4>5, <5>2 DEF PageInv, PoolApart
          <6>. QED BY <2>1, <4>2, <6>1
        <5>. QED BY <5>1, <5>2
      <4>6. ASSUME NEW k \in 1..Len(pool')
            PROVE  (\E l \in 1..Len(pool) : pool'[k] = pool[l]) \/ (m.page # 0 /\ pool'[k] = m.page)
        BY <4>1, <4>2, <4>3
      <4>. QED BY <4>5, <4>6 DEF PoolApart
    <3>. QED BY <3>1, <3>2
  <2>5. QueuesOutsidePool'
    <3>1. ASSUME NEW id \in Id, NEW i \in 1..Len(queue'[id]), queue'[id][i].page # 0,
                 NEW k \in 1..Len(pool')
          PROVE  pool'[k] # queue'[id][i].page
      <4>1. CASE \E l \in 1..Len(pool) : pool'[k] = pool[l]
        <5>1. PICK l \in 1..Len(pool) : pool'[k] = pool[l]
          BY <4>1
        <5>2. pool[l] # queue[id][i + shift(id)].page
          BY <2>2, <3>1 DEF PageInv, QueuesOutsidePool
        <5>. QED BY <2>2, <3>1, <5>1, <5>2
      <4>2. CASE m.page # 0 /\ pool'[k] = m.page
        <5>1. queue[id][i + shift(id)].page = m.page => id = q /\ i + shift(id) = 1
          <6>. HIDE DEF shift
          <6>. QED BY <2>1, <2>2, <4>2 DEF PageInv, QueuesApart
        <5>. QED BY <2>2, <4>2, <5>1
      <4>. QED BY <2>4, <4>1, <4>2
    <3>. QED BY <3>1 DEF QueuesOutsidePool
  <2>6. QueuesApart'
    <3>1. ASSUME NEW id \in Id, NEW i \in 1..Len(queue'[id]), queue'[id][i].page # 0,
                 NEW other \in Id, NEW j \in 1..Len(queue'[other]),
                 queue'[other][j].page = queue'[id][i].page
          PROVE  id = other /\ i = j
      <4>1. id = other /\ i + shift(id) = j + shift(other)
        <5>. HIDE DEF shift
        <5>1. /\ i + shift(id) \in 1..Len(queue[id]) /\ j + shift(other) \in 1..Len(queue[other])
              /\ queue[id][i + shift(id)].page # 0
              /\ queue[other][j + shift(other)].page = queue[id][i + shift(id)].page
          BY <2>2, <3>1
        <5>. QED BY <5>1 DEF PageInv, QueuesApart
      <4>2. i \in Int /\ j \in Int /\ shift(id) \in Int /\ shift(id) = shift(other)
        BY <4>1
      <4>. HIDE DEF shift
      <4>. QED BY <4>1, <4>2
    <3>. QED BY <3>1 DEF QueuesApart
  <2>7. Carriers'
    <3>1. \A k \in 1..Len(pool') : pool'[k] =< npages
      BY <2>3, <2>4 DEF PageInv, Carriers
    <3>. HIDE DEF shift
    <3>2. \A id \in Id : \A i \in 1..Len(queue'[id]) :
            /\ queue'[id][i].page =< npages
            /\ queue'[id][i].page # 0 <=> Paged(queue'[id][i].size)
      BY <2>2 DEF PageInv, Carriers
    <3>. QED BY <3>1, <3>2 DEF Carriers
  <2>. QED BY <2>4, <2>5, <2>6, <2>7 DEF PageInv
<1>. QED BY <1>1, <1>2 DEF RecvLoop

LEMMA PagesNext == PortInv /\ PageInv /\ [Next]_vars => PageInv'
<1> SUFFICES ASSUME PortInv, PageInv, [Next]_vars PROVE PageInv'
  OBVIOUS
<1>1. Shape /\ queue \in [Id -> Seq(SoundMessage)]
  BY DEF PortInv, Table, Shape, PortShape
<1>2. ASSUME NEW t \in Task, NEW id \in Id, NEW r \in Int,
             \/ port_create(t, r) /\ id = NewId
             \/ port_destroy(t, id)
      PROVE  PageInv'
  <2>1. queue' = [queue EXCEPT ![id] = <<>>] /\ UNCHANGED <<pool, npages>>
    BY <1>2 DEF port_create, port_destroy, Structure, pageVars
  <2>2. \A i \in Id : queue'[i] = queue[i] \/ queue'[i] = <<>>
    BY <1>1, <2>1
  <2>. QED BY <2>1, <2>2, PagesFrame
<1>3. ASSUME NEW t \in Task, NEW src \in Id, NEW dst \in Id, NEW size \in Sizes,
             port_send(t, src, dst, size)
      PROVE  PageInv'
  <2>. DEFINE q == Target(dst)
              m == [to |-> dst, size |-> size, page |-> CarrierPage(size)]
  <2>1. /\ SendResult(t, src, dst, size) = "OK"
        /\ CarrierPage(size) =< MaxPages /\ TakeCarrier(size)
        /\ queue' = [queue EXCEPT ![q] = Append(@, m)]
    BY <1>3 DEF port_send
  <2>2. IsPort(q) /\ q \in Id /\ 1 =< size /\ size =< 4096
    <3>1. IsPort(q) /\ ~(size < 1 \/ size > 4096)
      BY <2>1, SendOK
    <3>2. size \in Int
      BY PortAssumption
    <3>. QED BY <3>1, <3>2 DEF IsPort, IsLive
  <2>3. m \in SoundMessage
    BY <1>1, <2>1, <2>2, CarrierTyped
  <2>4. PICK b \in Id, c \in SoundMessage : b = q /\ c = m
    BY <2>2, <2>3
  <2>5. c.size = size /\ c.page = CarrierPage(size)
    BY <2>4
  <2>6. queue' = [queue EXCEPT ![b] = Append(@, c)]
    BY <2>1, <2>4
  <2>7. c.page = CarrierPage(c.size) /\ TakeCarrier(c.size)
    BY <2>1, <2>5
  <2>. QED BY <1>1, <2>6, <2>7, PagesSend
<1>4. ASSUME NEW t \in Task, NEW id \in Id, port_recv(t, id) PROVE PageInv'
  BY <1>1, <1>4, PagesRecvLoop DEF port_recv
<1>5. ASSUME NEW t \in Task, RecvResume(t) PROVE PageInv'
  <2>1. waiting[t] \in Id
    BY <1>5 DEF PortInv, Asleep, SleeperOwnsPort, RecvResume, IsPort, IsLive
  <2>. QED BY <1>1, <1>5, <2>1, PagesRecvLoop DEF RecvResume
<1>6. ASSUME UNCHANGED <<queue, pool, npages>> PROVE PageInv'
  BY <1>6, PagesFrame
<1>7. ASSUME NEW t \in Task,
             \/ \E id \in Id, opt \in Opts, arg \in Args : port_option(t, id, opt, arg)
             \/ \E src \in Id : SourceFault(t, src)
             \/ PsCreateNewTask(t)
             \/ PsCreateNewTaskFails(t)
             \/ ScTerminateProcess(t)
             \/ PsCleanUpTask(t)
      PROVE  UNCHANGED <<queue, pool, npages>>
  BY <1>7 DEF port_option, SourceFault, PsCreateNewTask, PsCreateNewTaskFails,
              ScTerminateProcess, PsCleanUpTask, portVars, pageVars
<1>8. CASE UNCHANGED vars
  BY <1>6, <1>8 DEF vars, portVars, pageVars
<1>9. CASE Next
  <2>1. PICK t \in Task :
          \/ \E r \in Restricts : port_create(t, r)
          \/ \E id \in Id : port_destroy(t, id)
          \/ \E id \in Id, opt \in Opts, arg \in Args : port_option(t, id, opt, arg)
          \/ \E src, dst \in Id, size \in Sizes : port_send(t, src, dst, size)
          \/ \E src \in Id : SourceFault(t, src)
          \/ \E id \in Id : port_recv(t, id)
          \/ RecvResume(t)
          \/ PsCreateNewTask(t)
          \/ PsCreateNewTaskFails(t)
          \/ ScTerminateProcess(t)
          \/ PsCleanUpTask(t)
    BY <1>9, Zenon DEF Next
  <2>2. CASE \E r \in Restricts : port_create(t, r)
    <3>1. PICK r \in Restricts : port_create(t, r)
      BY <2>2
    <3>2. NewId \in Id
      BY <3>1, RsrcNewSound DEF PortInv, Table, Shape, RsrcInv, port_create, Kind
    <3>. QED BY <1>2, <3>1, <3>2, PortAssumption
  <2>3. CASE \E id \in Id : port_destroy(t, id)
    <3>1. PICK id \in Id : port_destroy(t, id)
      BY <2>3
    <3>2. 0 \in Int
      OBVIOUS
    <3>. QED BY <1>2, <3>1, <3>2
  <2>4. CASE \E src, dst \in Id, size \in Sizes : port_send(t, src, dst, size)
    BY <1>3, <2>4, Zenon
  <2>5. CASE (\E id \in Id : port_recv(t, id)) \/ RecvResume(t)
    BY <1>4, <1>5, <2>5, Zenon
  <2>6. CASE \/ \E id \in Id, opt \in Opts, arg \in Args : port_option(t, id, opt, arg)
             \/ \E src \in Id : SourceFault(t, src)
             \/ PsCreateNewTask(t)
             \/ PsCreateNewTaskFails(t)
             \/ ScTerminateProcess(t)
             \/ PsCleanUpTask(t)
    BY <1>6, <1>7, <2>6, Zenon
  <2>. QED BY <2>1, <2>2, <2>3, <2>4, <2>5, <2>6, Zenon
<1>. QED BY <1>8, <1>9

\* A message page is never handed out twice: no send overwrites the bytes of a
\* message that waits in another queue, and no page is recycled twice.
THEOREM PagesAlwaysDistinct == Spec => []PagesDistinct
BY InvInit, InvNext, PagesInit, PagesNext, PageInvMeans, PTL DEF Spec

\* No id is both free and in use, or twice on the free list, whatever ports and
\* threads come and go.
THEOREM FreeListStaysSound == Spec => []FreeListSound
<1>1. PortInv => FreeListSound
  BY DEF PortInv, Table
<1>. QED BY <1>1, InvAlways, PTL

-----------------------------------------------------------------------------
(* Mailboxes *)

mailVars == <<owner, queue, waiting>>

LEMMA MailInit == Init => Mail!Init
<1> SUFFICES ASSUME Init PROVE Mail!Init
  OBVIOUS
<1>1. owner \in [Id -> Task \cup {0}]
  BY PortAssumption DEF Init, Task
<1>. QED BY <1>1 DEF Init, Mail!Init

\* A fresh id had no owner and an empty queue, so only the owner changes.
LEMMA MailCreate ==
  ASSUME PortInv, NEW t \in Task, NEW r \in Restricts, port_create(t, r)
  PROVE  \E b \in Id : Mail!Open(t, b)
<1>1. /\ PortShape /\ RsrcInv /\ Records /\ rfree # <<>> /\ rsrc_new("PORT")
      /\ waiting[t] = 0 /\ Structure(NewId, t, r) /\ UNCHANGED waiting
  BY DEF PortInv, Table, Shape, RsrcInv, port_create, Running
<1>2. NewId \in Id /\ rtype[NewId] = "NONE"
  BY <1>1, RsrcNewSound DEF Kind
<1>3. owner[NewId] = 0 /\ queue[NewId] = <<>>
  BY <1>1, <1>2 DEF Records, IsPort, IsLive
<1>4. owner' = [owner EXCEPT ![NewId] = t] /\ queue' = queue
  BY <1>1, <1>2, <1>3 DEF Structure, PortShape
<1>. QED BY <1>1, <1>2, <1>3, <1>4 DEF Mail!Open

LEMMA MailDestroy ==
  ASSUME NEW t \in Task, NEW id \in Id, port_destroy(t, id)
  PROVE  Mail!Close(t, id)
BY DestroyOK DEF port_destroy, Running, Structure, Mail!Close

\* The message joins the queue of the target, which has an owner.
LEMMA MailSend ==
  ASSUME PortInv, NEW t \in Task, NEW src \in Id, NEW dst \in Id, NEW size \in Sizes,
         port_send(t, src, dst, size)
  PROVE  \E b \in Id, m \in Message : Mail!Put(b, m)
<1>. DEFINE q == Target(dst)
            m == [to |-> dst, size |-> size, page |-> CarrierPage(size)]
<1>1. /\ Shape /\ Records
      /\ UNCHANGED <<waiting, owner>>
      /\ SendResult(t, src, dst, size) = "OK"
      /\ CarrierPage(size) =< MaxPages /\ TakeCarrier(size)
      /\ queue' = [queue EXCEPT ![q] = Append(@, m)]
  BY DEF PortInv, Table, port_send, linkVars
<1>2. IsPort(q) /\ q \in Id /\ 1 =< size /\ size =< 4096
  <2>1. IsPort(q) /\ ~(size < 1 \/ size > 4096)
    BY <1>1, SendOK
  <2>2. size \in Int
    BY PortAssumption
  <2>. QED BY <2>1, <2>2 DEF IsPort, IsLive
<1>3. m \in Message
  BY <1>1, <1>2, CarrierTyped DEF SoundMessage
<1>4. owner[q] # 0
  <2>1. owner[q] \in 1..created
    BY <1>1, <1>2 DEF Records
  <2>. QED BY <2>1
<1>5. Mail!Put(q, m)
  BY <1>1, <1>4 DEF Mail!Put
<1>. QED BY <1>2, <1>3, <1>5

\* A first pass blocks or takes; a pass after a wake-up takes or stays blocked.
LEMMA MailRecvLoop ==
  ASSUME PortInv, NEW t \in Task, NEW id \in Id, owner[id] = t, waiting[t] \in {0, id},
         RecvLoop(t, id), UNCHANGED linkVars
  PROVE  Mail!Block(t, id) \/ Mail!Take(t, id) \/ UNCHANGED mailVars
<1>1. UNCHANGED owner /\ waiting \in [Task -> 0..(RMax - 1)]
  BY DEF PortInv, Table, Shape, linkVars
<1>2. CASE queue[id] = <<>> /\ waiting' = [waiting EXCEPT ![t] = id] /\ UNCHANGED queue
  <2>1. CASE waiting[t] = 0
    BY <1>1, <1>2, <2>1 DEF Mail!Block
  <2>2. CASE waiting[t] = id
    <3>1. waiting' = waiting
      BY <1>1, <1>2, <2>2
    <3>. QED BY <1>1, <1>2, <3>1 DEF mailVars
  <2>. QED BY <2>1, <2>2
<1>3. CASE /\ queue[id] # <<>> /\ waiting' = [waiting EXCEPT ![t] = 0]
           /\ queue' = [queue EXCEPT ![id] = Tail(@)]
  BY <1>1, <1>3 DEF Mail!Take
<1>. QED BY <1>2, <1>3 DEF RecvLoop

LEMMA MailNext == PortInv /\ [Next]_vars => [Mail!Next]_mailVars
<1> SUFFICES ASSUME PortInv, [Next]_vars PROVE [Mail!Next]_mailVars
  OBVIOUS
<1>1. ASSUME NEW t \in Task, NEW r \in Restricts, port_create(t, r) PROVE Mail!Next
  BY <1>1, MailCreate DEF Mail!Next
<1>2. ASSUME NEW t \in Task, NEW id \in Id, port_destroy(t, id) PROVE Mail!Next
  BY <1>2, MailDestroy DEF Mail!Next
<1>3. ASSUME NEW t \in Task, NEW src \in Id, NEW dst \in Id, NEW size \in Sizes,
             port_send(t, src, dst, size)
      PROVE  Mail!Next
  BY <1>3, MailSend DEF Mail!Next
<1>4. ASSUME NEW t \in Task, NEW id \in Id, owner[id] = t, waiting[t] \in {0, id},
             RecvLoop(t, id), UNCHANGED linkVars
      PROVE  [Mail!Next]_mailVars
  BY <1>4, MailRecvLoop DEF Mail!Next
<1>5. ASSUME NEW t \in Task, NEW id \in Id, port_recv(t, id) PROVE [Mail!Next]_mailVars
  <2>1. owner[id] = t /\ waiting[t] \in {0, id} /\ RecvLoop(t, id) /\ UNCHANGED linkVars
    BY <1>5, RecvOK DEF port_recv, Running
  <2>. QED BY <1>4, <2>1
<1>6. ASSUME NEW t \in Task, RecvResume(t) PROVE [Mail!Next]_mailVars
  <2>1. IsPort(waiting[t]) /\ owner[waiting[t]] = t
    BY <1>6 DEF PortInv, Asleep, SleeperOwnsPort, RecvResume
  <2>2. waiting[t] \in Id
    BY <2>1 DEF IsPort, IsLive
  <2>. QED BY <1>4, <1>6, <2>1, <2>2 DEF RecvResume
<1>7. ASSUME NEW t \in Task,
             \/ \E id \in Id, opt \in Opts, arg \in Args : port_option(t, id, opt, arg)
             \/ \E src \in Id : SourceFault(t, src)
             \/ PsCreateNewTask(t)
             \/ PsCreateNewTaskFails(t)
             \/ ScTerminateProcess(t)
             \/ PsCleanUpTask(t)
      PROVE  UNCHANGED mailVars
  BY <1>7 DEF mailVars, port_option, SourceFault, PsCreateNewTask, PsCreateNewTaskFails,
              ScTerminateProcess, PsCleanUpTask, portVars, linkVars
<1>8. CASE UNCHANGED vars
  BY <1>8 DEF vars, mailVars, portVars, linkVars
<1>9. CASE Next
  <2>1. PICK t \in Task :
          \/ \E r \in Restricts : port_create(t, r)
          \/ \E id \in Id : port_destroy(t, id)
          \/ \E id \in Id, opt \in Opts, arg \in Args : port_option(t, id, opt, arg)
          \/ \E src, dst \in Id, size \in Sizes : port_send(t, src, dst, size)
          \/ \E src \in Id : SourceFault(t, src)
          \/ \E id \in Id : port_recv(t, id)
          \/ RecvResume(t)
          \/ PsCreateNewTask(t)
          \/ PsCreateNewTaskFails(t)
          \/ ScTerminateProcess(t)
          \/ PsCleanUpTask(t)
    BY <1>9, Zenon DEF Next
  <2>2. CASE (\E r \in Restricts : port_create(t, r)) \/ (\E id \in Id : port_destroy(t, id))
    BY <1>1, <1>2, <2>2, Zenon
  <2>3. CASE \E src, dst \in Id, size \in Sizes : port_send(t, src, dst, size)
    BY <1>3, <2>3, Zenon
  <2>4. CASE (\E id \in Id : port_recv(t, id)) \/ RecvResume(t)
    BY <1>5, <1>6, <2>4, Zenon
  <2>5. CASE \/ \E id \in Id, opt \in Opts, arg \in Args : port_option(t, id, opt, arg)
             \/ \E src \in Id : SourceFault(t, src)
             \/ PsCreateNewTask(t)
             \/ PsCreateNewTaskFails(t)
             \/ ScTerminateProcess(t)
             \/ PsCleanUpTask(t)
    BY <1>7, <2>5, Zenon
  <2>. QED BY <2>1, <2>2, <2>3, <2>4, <2>5, Zenon
<1>. QED BY <1>8, <1>9

\* Every behaviour of the ports is one of the mailboxes: no interleaving of
\* options, slaves, wake-ups and terminations loses, duplicates or reorders the
\* messages of a queue, or ends a blocked port_recv without one.
THEOREM PortImplementsMailbox == Spec => ImplementsMailbox
<1>1. PortInv /\ [Next]_vars => [Mail!Next]_Mail!vars
  BY MailNext DEF mailVars, Mail!vars
<1>. QED BY <1>1, MailInit, InvAlways, PTL DEF Spec, ImplementsMailbox, Mail!Spec
=============================================================================
