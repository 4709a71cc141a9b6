-------------------------------- MODULE Queue --------------------------------
(***************************************************************************)
(* The kernel's linked queues (src/kernel/queue.c), as far as it uses      *)
(* them: queue_new, queue_addTail and queue_removeHead.  A node is a heap  *)
(* block, given out in any order; a freed one is cleared here, so that a   *)
(* use of it would show.                                                   *)
(***************************************************************************)
EXTENDS Integers, Sequences

CONSTANTS
  QueueId,    \* names of the queues
  Node,       \* addresses of the blocks nodes are made of
  Item        \* values queued: pointers, never NULL

NULL == 0

ASSUME QueueAssumption == NULL \notin Node /\ NULL \notin Item

VARIABLES
  node,       \* node[n]: the fields of a qnode_t
  queue,      \* queue[q]: the fields of a queue_t, limit being unused
  order       \* history: the nodes of a queue from head to tail

queueVars == <<node, queue, order>>

Free == [next |-> NULL, prev |-> NULL, data |-> NULL]
Empty == [head |-> NULL, tail |-> NULL, count |-> 0]

QueueInit ==
  /\ node = [n \in Node |-> Free]
  /\ queue = [q \in QueueId |-> Empty]
  /\ order = [q \in QueueId |-> <<>>]

queue_new(q) == queue' = [queue EXCEPT ![q] = Empty] /\ UNCHANGED <<node, order>>

\* Faulty variant of queue_addTail: the node goes in front of the head.
queue_addTail_Head(q, d) ==
  \E n \in Node :
    /\ node[n] = Free
    /\ LET h == queue[q].head IN
       /\ node' = [m \in Node |->
            IF m = n THEN [next |-> h, prev |-> NULL, data |-> d]
            ELSE IF m = h THEN [node[m] EXCEPT !.prev = n]
            ELSE node[m]]
       /\ queue' = [queue EXCEPT ![q] = [head |-> n,
                                         tail |-> IF h = NULL THEN n ELSE queue[q].tail,
                                         count |-> queue[q].count + 1]]
    /\ order' = [order EXCEPT ![q] = <<n>> \o @]

\* The new node's prev is the head, not the old tail: nothing the kernel calls
\* reads prev.
queue_addTail(q, d) ==
  \E n \in Node :
    /\ node[n] = Free
    /\ LET h == queue[q].head IN
       \/ /\ h # NULL
          /\ node' = [[node EXCEPT ![queue[q].tail].next = n]
                        EXCEPT ![n] = [next |-> NULL, prev |-> h, data |-> d]]
          /\ queue' = [queue EXCEPT ![q].tail = n, ![q].count = @ + 1]
       \/ /\ h = NULL
          /\ node' = [node EXCEPT ![n] = [next |-> NULL, prev |-> NULL, data |-> d]]
          /\ queue' = [queue EXCEPT ![q] = [head |-> n, tail |-> n, count |-> @.count + 1]]
    /\ order' = [order EXCEPT ![q] = Append(@, n)]

\* What queue_removeHead returns: NULL for an empty queue.
HeadData(q) == IF queue[q].head = NULL THEN NULL ELSE node[queue[q].head].data

queue_removeHead(q) ==
  LET h == queue[q].head
      next == node[h].next
  IN /\ h # NULL
     /\ \/ /\ queue[q].tail = h
           /\ queue' = [queue EXCEPT ![q] = [head |-> NULL, tail |-> NULL, count |-> @.count - 1]]
           /\ node' = [node EXCEPT ![h] = Free]
        \/ /\ queue[q].tail # h
           /\ queue' = [queue EXCEPT ![q].head = next, ![q].count = @ - 1]
           /\ node' = [[node EXCEPT ![next].prev = NULL] EXCEPT ![h] = Free]
     /\ order' = [order EXCEPT ![q] = Tail(@)]

\* What is queued, first to last.
Line(q) == [i \in 1..Len(order[q]) |-> node[order[q][i]].data]

-----------------------------------------------------------------------------
QueueTypeOK ==
  /\ node \in [Node -> [next : Node \cup {NULL}, prev : Node \cup {NULL},
                        data : Item \cup {NULL}]]
  /\ queue \in [QueueId -> [head : Node \cup {NULL}, tail : Node \cup {NULL}, count : Nat]]
  /\ order \in [QueueId -> Seq(Node)]

\* Each queue is one chain of its own nodes: following next from head visits
\* the nodes in the order they were added and ends at tail, count is their
\* number, and blocks outside every chain are free (queue.c:42-83).
Chained ==
  /\ \A q \in QueueId :
       LET o == order[q] IN
       /\ queue[q].count = Len(o)
       /\ queue[q].head = IF o = <<>> THEN NULL ELSE o[1]
       /\ queue[q].tail = IF o = <<>> THEN NULL ELSE o[Len(o)]
       /\ \A i \in 1..Len(o) :
            /\ node[o[i]].data # NULL
            /\ node[o[i]].next = IF i = Len(o) THEN NULL ELSE o[i + 1]
  /\ \A p, q \in QueueId : \A i \in 1..Len(order[p]), j \in 1..Len(order[q]) :
       order[p][i] = order[q][j] => p = q /\ i = j
  /\ \A n \in Node :
       node[n] = Free \/ \E q \in QueueId : \E i \in 1..Len(order[q]) : order[q][i] = n
=============================================================================
