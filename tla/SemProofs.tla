------------------------------ MODULE SemProofs ------------------------------
(***************************************************************************)
(* The semaphores of Sem.tla are sound and implement those of              *)
(* Semaphore.tla, for any number of threads, ids and queue nodes.          *)
(***************************************************************************)
EXTENDS Sem, ResourceProofs, SequenceTheorems

-----------------------------------------------------------------------------
(* The kernel's linked queues (Queue.tla) are sequences: on any number of  *)
(* nodes and queues, queue_addTail appends to one and queue_removeHead     *)
(* takes its first element, and neither disturbs another queue.            *)

QueueInv == QueueTypeOK /\ Chained

NodeRec == [next : Node \cup {NULL}, prev : Node \cup {NULL}, data : Item \cup {NULL}]
QueueRec == [head : Node \cup {NULL}, tail : Node \cup {NULL}, count : Nat]

\* A node with one link changed, a queue with two fields changed.
LEMMA NodeUpdate ==
  ASSUME NEW r \in NodeRec, NEW x \in Node \cup {NULL}
  PROVE  [r EXCEPT !.next = x] \in NodeRec /\ [r EXCEPT !.prev = x] \in NodeRec
BY DEF NodeRec

LEMMA QueueUpdate ==
  ASSUME NEW r \in QueueRec, NEW x, NEW c
  PROVE  /\ [r EXCEPT !.tail = x, !.count = c] = [head |-> r.head, tail |-> x, count |-> c]
         /\ [r EXCEPT !.head = x, !.count = c] = [head |-> x, tail |-> r.tail, count |-> c]
<1>. DEFINE tailed == [r EXCEPT !.tail = x]
            headed == [r EXCEPT !.head = x]
<1>1. /\ tailed = [head |-> r.head, tail |-> x, count |-> r.count]
      /\ headed = [head |-> x, tail |-> r.tail, count |-> r.count]
  BY DEF QueueRec
<1>2. /\ [tailed EXCEPT !.count = c] = [head |-> r.head, tail |-> x, count |-> c]
      /\ [headed EXCEPT !.count = c] = [head |-> x, tail |-> r.tail, count |-> c]
  <2>. HIDE DEF tailed, headed
  <2>. QED BY <1>1
<1>. QED BY <1>2

LEMMA QueueInitSound == QueueInit => QueueInv
<1> SUFFICES ASSUME QueueInit PROVE QueueInv
  OBVIOUS
<1>1. QueueTypeOK
  BY DEF QueueInit, QueueTypeOK, Free, Empty
<1>2. \A q \in QueueId : order[q] = <<>> /\ Len(order[q]) = 0 /\ queue[q] = Empty
  BY DEF QueueInit
<1>3. Chained
  BY <1>2 DEF QueueInit, Chained, Empty
<1>. QED BY <1>1, <1>3 DEF QueueInv

\* A queue's line holds as many as its count says, and its head's data is the
\* first of them.
LEMMA LineSound ==
  ASSUME QueueInv, NEW q \in QueueId
  PROVE  /\ order[q] \in Seq(Node)
         /\ Line(q) \in Seq(Item) /\ Len(Line(q)) = Len(order[q])
         /\ queue[q].count = Len(Line(q))
         /\ HeadData(q) = IF Line(q) = <<>> THEN NULL ELSE Line(q)[1]
         /\ queue[q].head = NULL <=> order[q] = <<>>
<1>. DEFINE o == order[q]
<1>1. o \in Seq(Node) /\ Len(o) \in Nat /\ \A i \in 1..Len(o) : o[i] \in Node
  BY DEF QueueInv, QueueTypeOK
<1>2. \A i \in 1..Len(o) : node[o[i]].data \in Item
  <2> SUFFICES ASSUME NEW i \in 1..Len(o) PROVE node[o[i]].data \in Item
    OBVIOUS
  <2>1. node[o[i]].data \in Item \cup {NULL}
    BY <1>1 DEF QueueInv, QueueTypeOK
  <2>2. node[o[i]].data # NULL
    BY DEF QueueInv, Chained
  <2>. QED BY <2>1, <2>2
<1>3. Line(q) \in Seq(Item) /\ Len(Line(q)) = Len(o) /\ \A i \in 1..Len(o) : Line(q)[i] = node[o[i]].data
  BY <1>1, <1>2 DEF Line
<1>4. /\ queue[q].count = Len(o)
      /\ queue[q].head = IF o = <<>> THEN NULL ELSE o[1]
  BY DEF QueueInv, Chained
<1>5. o # <<>> => 1 \in 1..Len(o)
  BY <1>1
<1>6. queue[q].head = NULL <=> o = <<>>
  BY <1>1, <1>4, <1>5, QueueAssumption
<1>7. Line(q) = <<>> <=> o = <<>>
  BY <1>1, <1>3
<1>8. HeadData(q) = IF Line(q) = <<>> THEN NULL ELSE Line(q)[1]
  BY <1>3, <1>4, <1>5, <1>6, <1>7 DEF HeadData
<1>. QED BY <1>1, <1>3, <1>4, <1>6, <1>8

-----------------------------------------------------------------------------
\* The nodes of the chains are told apart from any that is free.
LEMMA ChainNode ==
  ASSUME QueueInv, NEW q \in QueueId, NEW i \in 1..Len(order[q])
  PROVE  order[q][i] \in Node /\ node[order[q][i]] # Free /\ order[q][i] # NULL
<1>1. order[q][i] \in Node
  BY DEF QueueInv, QueueTypeOK
<1>2. node[order[q][i]].data # NULL
  BY DEF QueueInv, Chained
<1>. QED BY <1>1, <1>2, QueueAssumption DEF Free

\* queue_addTail: the new node n is the last of the chain, whatever its prev.
LEMMA AddTailEffect ==
  ASSUME QueueInv, NEW q \in QueueId, NEW d \in Item, NEW n \in Node, node[n] = Free,
         LET h == queue[q].head IN
         \/ /\ h # NULL
            /\ node' = [[node EXCEPT ![queue[q].tail].next = n]
                          EXCEPT ![n] = [next |-> NULL, prev |-> h, data |-> d]]
            /\ queue' = [queue EXCEPT ![q].tail = n, ![q].count = @ + 1]
         \/ /\ h = NULL
            /\ node' = [node EXCEPT ![n] = [next |-> NULL, prev |-> NULL, data |-> d]]
            /\ queue' = [queue EXCEPT ![q] = [head |-> n, tail |-> n, count |-> @.count + 1]]
  PROVE  /\ node' \in [Node -> [next : Node \cup {NULL}, prev : Node \cup {NULL},
                                data : Item \cup {NULL}]]
         /\ node'[n].next = NULL /\ node'[n].data = d
         /\ \A m \in Node : m # n => node'[m].data = node[m].data
         /\ \A m \in Node : m # n /\ (order[q] = <<>> \/ m # order[q][Len(order[q])])
                              => node'[m] = node[m]
         /\ order[q] # <<>> => node'[order[q][Len(order[q])]].next = n
         /\ queue' = [queue EXCEPT ![q] = [head |-> IF order[q] = <<>> THEN n ELSE order[q][1],
                                           tail |-> n, count |-> Len(order[q]) + 1]]
<1>. DEFINE o == order[q]
<1>1. /\ node \in [Node -> [next : Node \cup {NULL}, prev : Node \cup {NULL}, data : Item \cup {NULL}]]
      /\ queue \in [QueueId -> [head : Node \cup {NULL}, tail : Node \cup {NULL}, count : Nat]]
      /\ o \in Seq(Node)
  BY DEF QueueInv, QueueTypeOK
<1>2. /\ queue[q].count = Len(o)
      /\ queue[q].head = IF o = <<>> THEN NULL ELSE o[1]
      /\ queue[q].tail = IF o = <<>> THEN NULL ELSE o[Len(o)]
      /\ queue[q].head = NULL <=> o = <<>>
  BY LineSound DEF QueueInv, Chained
<1>3. CASE o # <<>>
  <2>. DEFINE l == o[Len(o)]
  <2>1. Len(o) \in 1..Len(o)
    BY <1>1, <1>3
  <2>2. l \in Node /\ l # n
    BY <2>1, ChainNode
  <2>3. /\ node' = [[node EXCEPT ![l].next = n]
                      EXCEPT ![n] = [next |-> NULL, prev |-> o[1], data |-> d]]
        /\ queue' = [queue EXCEPT ![q].tail = n, ![q].count = @ + 1]
    BY <1>2, <1>3
  <2>4. o[1] \in Node
    BY <1>1, <1>3
  <2>5. /\ node'[n] = [next |-> NULL, prev |-> o[1], data |-> d]
        /\ node'[l] = [node[l] EXCEPT !.next = n]
        /\ \A m \in Node : m # n /\ m # l => node'[m] = node[m]
    BY <1>1, <2>2, <2>3
  <2>6. node'[l].data = node[l].data /\ node'[l].next = n
    BY <1>1, <2>2, <2>5
  <2>7. node' \in [Node -> [next : Node \cup {NULL}, prev : Node \cup {NULL}, data : Item \cup {NULL}]]
    <3>. DEFINE linked == [node EXCEPT ![l].next = n]
    <3>1. node \in [Node -> NodeRec] /\ [node[l] EXCEPT !.next = n] \in NodeRec
      BY <1>1, <2>2, NodeUpdate DEF NodeRec
    <3>2. linked \in [Node -> NodeRec]
      BY <2>2, <3>1
    <3>3. [next |-> NULL, prev |-> o[1], data |-> d] \in NodeRec
      BY <2>4 DEF NodeRec
    <3>4. node' = [linked EXCEPT ![n] = [next |-> NULL, prev |-> o[1], data |-> d]]
      BY <2>3
    <3>. HIDE DEF linked
    <3>5. node' \in [Node -> NodeRec]
      BY <3>2, <3>3, <3>4
    <3>. QED BY <3>5 DEF NodeRec
  <2>8. queue' = [queue EXCEPT ![q] = [head |-> o[1], tail |-> n, count |-> Len(o) + 1]]
    <3>1. [queue[q] EXCEPT !.tail = n, !.count = queue[q].count + 1]
            = [head |-> o[1], tail |-> n, count |-> Len(o) + 1]
      <4>1. queue[q] \in QueueRec /\ queue[q].head = o[1] /\ queue[q].count = Len(o)
        BY <1>1, <1>2, <1>3 DEF QueueRec
      <4>2. [queue[q] EXCEPT !.tail = n, !.count = queue[q].count + 1]
              = [head |-> queue[q].head, tail |-> n, count |-> queue[q].count + 1]
        BY <4>1, QueueUpdate, Zenon
      <4>. QED BY <4>1, <4>2
    <3>2. queue' = [queue EXCEPT ![q] = [queue[q] EXCEPT !.tail = n, !.count = queue[q].count + 1]]
      <4>1. DOMAIN queue' = QueueId /\ \A p \in QueueId \ {q} : queue'[p] = queue[p]
        BY <1>1, <2>3
      <4>2. queue'[q] = [queue[q] EXCEPT !.tail = n, !.count = queue[q].count + 1]
        BY <1>1, <2>3
      <4>3. queue' = [p \in QueueId |-> IF p = q THEN queue'[q] ELSE queue[p]]
        BY <2>3, <4>1
      <4>. QED BY <1>1, <4>2, <4>3
    <3>. QED BY <3>1, <3>2
  <2>. QED BY <1>3, <2>2, <2>5, <2>6, <2>7, <2>8
<1>4. CASE o = <<>>
  <2>1. /\ node' = [node EXCEPT ![n] = [next |-> NULL, prev |-> NULL, data |-> d]]
        /\ queue' = [queue EXCEPT ![q] = [head |-> n, tail |-> n, count |-> Len(o) + 1]]
    BY <1>2, <1>4
  <2>. QED BY <1>1, <1>4, <2>1
<1>. QED BY <1>3, <1>4

LEMMA AddTailSound ==
  ASSUME QueueInv, NEW q \in QueueId, NEW d \in Item, queue_addTail(q, d)
  PROVE  /\ QueueInv'
         /\ Line(q)' = Append(Line(q), d)
         /\ queue'[q].count = queue[q].count + 1
         /\ \A p \in QueueId : p # q => Line(p)' = Line(p) /\ queue'[p] = queue[p]
<1>. DEFINE o == order[q]
<1>1. PICK n \in Node :
        /\ node[n] = Free
        /\ LET h == queue[q].head IN
           \/ /\ h # NULL
              /\ node' = [[node EXCEPT ![queue[q].tail].next = n]
                            EXCEPT ![n] = [next |-> NULL, prev |-> h, data |-> d]]
              /\ queue' = [queue EXCEPT ![q].tail = n, ![q].count = @ + 1]
           \/ /\ h = NULL
              /\ node' = [node EXCEPT ![n] = [next |-> NULL, prev |-> NULL, data |-> d]]
              /\ queue' = [queue EXCEPT ![q] = [head |-> n, tail |-> n, count |-> @.count + 1]]
        /\ order' = [order EXCEPT ![q] = Append(@, n)]
  BY DEF queue_addTail
<1>2. /\ node' \in [Node -> [next : Node \cup {NULL}, prev : Node \cup {NULL},
                             data : Item \cup {NULL}]]
      /\ node'[n].next = NULL /\ node'[n].data = d
      /\ \A m \in Node : m # n => node'[m].data = node[m].data
      /\ \A m \in Node : m # n /\ (o = <<>> \/ m # o[Len(o)]) => node'[m] = node[m]
      /\ o # <<>> => node'[o[Len(o)]].next = n
      /\ queue' = [queue EXCEPT ![q] = [head |-> IF o = <<>> THEN n ELSE o[1],
                                        tail |-> n, count |-> Len(o) + 1]]
  BY <1>1, AddTailEffect
<1>3. /\ queue \in [QueueId -> [head : Node \cup {NULL}, tail : Node \cup {NULL}, count : Nat]]
      /\ order \in [QueueId -> Seq(Node)]
      /\ o \in Seq(Node) /\ Len(o) \in Nat
  BY DEF QueueInv, QueueTypeOK
<1>4. /\ order'[q] = Append(o, n)
      /\ Len(order'[q]) = Len(o) + 1
      /\ order'[q][Len(o) + 1] = n
      /\ \A i \in 1..Len(o) : order'[q][i] = o[i]
      /\ \A p \in QueueId : p # q => order'[p] = order[p]
  BY <1>1, <1>3
<1>5. \A p \in QueueId : \A i \in 1..Len(order[p]) : order[p][i] \in Node /\ order[p][i] # n
  BY <1>1, ChainNode
<1>6. \A p, r \in QueueId : \A i \in 1..Len(order[p]), j \in 1..Len(order[r]) :
        order[p][i] = order[r][j] => p = r /\ i = j
  BY DEF QueueInv, Chained
<1>7. \A p \in QueueId : Len(order[p]) \in Nat
  BY <1>3
<1>8. QueueTypeOK'
  <2>1. order' \in [QueueId -> Seq(Node)]
    BY <1>1, <1>3
  <2>2. (IF o = <<>> THEN n ELSE o[1]) \in Node
    BY <1>3
  <2>3. queue' \in [QueueId -> [head : Node \cup {NULL}, tail : Node \cup {NULL}, count : Nat]]
    BY <1>2, <1>3, <2>2
  <2>. QED BY <1>2, <2>1, <2>3 DEF QueueTypeOK
<1>9. Line(q)' = Append(Line(q), d)
  <2>1. Line(q)' = [i \in 1..(Len(o) + 1) |-> node'[order'[q][i]].data]
    BY <1>4 DEF Line
  <2>2. Line(q) = [i \in 1..Len(o) |-> node[o[i]].data] /\ Line(q) \in Seq(Item) /\ Len(Line(q)) = Len(o)
    BY LineSound DEF Line
  <2>3. \A i \in 1..Len(o) : node'[order'[q][i]].data = Line(q)[i]
    BY <1>2, <1>4, <1>5, <2>2
  <2>4. node'[order'[q][Len(o) + 1]].data = d
    BY <1>2, <1>4
  <2>5. Append(Line(q), d) = [i \in 1..(Len(o) + 1) |-> IF i = Len(o) + 1 THEN d ELSE Line(q)[i]]
    BY <2>2, <1>3
  <2>6. \A i \in 1..(Len(o) + 1) : i = Len(o) + 1 \/ i \in 1..Len(o)
    BY <1>3
  <2>. QED BY <2>1, <2>3, <2>4, <2>5, <2>6
<1>10. ASSUME NEW p \in QueueId, p # q PROVE Line(p)' = Line(p)
  BY <1>2, <1>4, <1>5, <1>10 DEF Line
<1>11. ASSUME NEW p \in QueueId
       PROVE  LET o2 == order'[p] IN
              /\ queue'[p].count = Len(o2)
              /\ queue'[p].head = IF o2 = <<>> THEN NULL ELSE o2[1]
              /\ queue'[p].tail = IF o2 = <<>> THEN NULL ELSE o2[Len(o2)]
              /\ \A i \in 1..Len(o2) :
                   /\ node'[o2[i]].data # NULL
                   /\ node'[o2[i]].next = IF i = Len(o2) THEN NULL ELSE o2[i + 1]
  <2>1. LET c == order[p] IN
          /\ queue[p].count = Len(c)
          /\ queue[p].head = IF c = <<>> THEN NULL ELSE c[1]
          /\ queue[p].tail = IF c = <<>> THEN NULL ELSE c[Len(c)]
          /\ \A i \in 1..Len(c) : /\ node[c[i]].data # NULL
                                  /\ node[c[i]].next = IF i = Len(c) THEN NULL ELSE c[i + 1]
    BY DEF QueueInv, Chained
  <2>2. CASE p # q
    <3>1. \A i \in 1..Len(order[p]) : node'[order[p][i]] = node[order[p][i]]
      <4> SUFFICES ASSUME NEW i \in 1..Len(order[p]) PROVE node'[order[p][i]] = node[order[p][i]]
        OBVIOUS
      <4>1. o # <<>> => Len(o) \in 1..Len(o)
        BY <1>3
      <4>2. \A j \in 1..Len(o) : order[p][i] # o[j]
        <5>1. ASSUME NEW j \in 1..Len(order[q]), order[p][i] = order[q][j] PROVE p = q
          BY <1>6, <5>1
        <5>. QED BY <2>2, <5>1
      <4>3. o = <<>> \/ order[p][i] # o[Len(o)]
        BY <4>1, <4>2
      <4>. QED BY <1>2, <1>5, <4>3
    <3>2. queue'[p] = queue[p]
      BY <1>2, <1>3, <2>2
    <3>3. PICK c : c = order[p] /\ c = order'[p]
      BY <1>4, <2>2
    <3>4. \A i \in 1..Len(c) : node'[c[i]] = node[c[i]]
      BY <3>1, <3>3
    <3>. QED BY <2>1, <3>2, <3>3, <3>4
  <2>3. CASE p = q
    <3>1. /\ order'[q] # <<>>
          /\ queue'[q].head = IF o = <<>> THEN n ELSE o[1]
          /\ queue'[q].tail = n /\ queue'[q].count = Len(o) + 1
      <4>1. order'[q] # <<>>
        <5>1. Len(order'[q]) # 0
          BY <1>3, <1>4
        <5>2. Len(<<>>) = 0
          OBVIOUS
        <5>. QED BY <5>1, <5>2
      <4>2. queue'[q] = [head |-> IF o = <<>> THEN n ELSE o[1], tail |-> n, count |-> Len(o) + 1]
        BY <1>2, <1>3
      <4>. QED BY <4>1, <4>2
    <3>2. order'[q][1] = IF o = <<>> THEN n ELSE o[1]
      <4>1. CASE o = <<>>
        BY <1>4, <4>1
      <4>2. CASE o # <<>>
        <5>1. 1 \in 1..Len(o)
          BY <1>3, <4>2
        <5>. QED BY <1>4, <4>2, <5>1
      <4>. QED BY <4>1, <4>2
    <3>3. ASSUME NEW i \in 1..(Len(o) + 1)
          PROVE  /\ node'[order'[q][i]].data # NULL
                 /\ node'[order'[q][i]].next = IF i = Len(o) + 1 THEN NULL ELSE order'[q][i + 1]
      <4>1. CASE i = Len(o) + 1
        BY <1>2, <1>4, <4>1, QueueAssumption
      <4>2. CASE i \in 1..Len(o) /\ i # Len(o)
        <5>1. /\ o # <<>> /\ Len(o) \in 1..Len(o) /\ i + 1 \in 1..Len(o) /\ i # Len(o) + 1
          BY <1>3, <4>2
        <5>2. o[i] # o[Len(o)]
          BY <1>6, <4>2, <5>1
        <5>3. node'[o[i]] = node[o[i]]
          BY <1>2, <1>5, <4>2, <5>2
        <5>. QED BY <1>4, <2>1, <2>3, <4>2, <5>1, <5>3
      <4>3. CASE i \in 1..Len(o) /\ i = Len(o)
        <5>1. o # <<>> /\ i # Len(o) + 1
          BY <1>3, <4>3
        <5>2. node'[o[i]].next = n /\ node'[o[i]].data = node[o[i]].data
          BY <1>2, <1>5, <4>3, <5>1
        <5>. QED BY <1>4, <2>1, <2>3, <4>3, <5>1, <5>2
      <4>. QED BY <1>3, <4>1, <4>2, <4>3
    <3>4. \A i \in 1..Len(order'[q]) :
             /\ node'[order'[q][i]].data # NULL
             /\ node'[order'[q][i]].next = IF i = Len(order'[q]) THEN NULL ELSE order'[q][i + 1]
      BY <1>4, <3>3
    <3>5. /\ queue'[q].count = Len(order'[q]) /\ queue'[q].head = order'[q][1]
          /\ queue'[q].tail = order'[q][Len(order'[q])]
      BY <1>4, <3>1, <3>2
    <3>. QED BY <2>3, <3>1, <3>4, <3>5
  <2>. QED BY <2>2, <2>3
<1>12. ASSUME NEW p \in QueueId, NEW r \in QueueId,
              NEW i \in 1..Len(order'[p]), NEW j \in 1..Len(order'[r]), order'[p][i] = order'[r][j]
       PROVE  p = r /\ i = j
  <2>1. ASSUME NEW s \in QueueId, NEW k \in 1..Len(order'[s])
        PROVE  \/ k \in 1..Len(order[s]) /\ order'[s][k] = order[s][k] /\ order'[s][k] # n
               \/ s = q /\ k = Len(o) + 1 /\ order'[s][k] = n
    <3>1. CASE s # q
      BY <1>4, <1>5, <2>1, <3>1
    <3>2. CASE s = q
      <4>1. k \in 1..Len(o) \/ k = Len(o) + 1
        BY <1>3, <1>4, <2>1, <3>2
      <4>. QED BY <1>4, <1>5, <3>2, <4>1
    <3>. QED BY <3>1, <3>2
  <2>. QED BY <1>6, <1>12, <2>1
<1>13. ASSUME NEW m \in Node
       PROVE  node'[m] = Free \/ \E p \in QueueId : \E i \in 1..Len(order'[p]) : order'[p][i] = m
  <2>1. CASE m = n
    <3>1. Len(o) + 1 \in 1..Len(order'[q])
      BY <1>3, <1>4
    <3>. QED BY <1>4, <2>1, <3>1
  <2>2. CASE m # n
    <3>1. node[m] = Free \/ \E p \in QueueId : \E i \in 1..Len(order[p]) : order[p][i] = m
      BY DEF QueueInv, Chained
    <3>2. CASE \E p \in QueueId : \E i \in 1..Len(order[p]) : order[p][i] = m
      <4>1. PICK p \in QueueId : \E i \in 1..Len(order[p]) : order[p][i] = m
        BY <3>2
      <4>2. PICK i \in 1..Len(order[p]) : order[p][i] = m
        BY <4>1
      <4>3. i \in 1..Len(order'[p]) /\ order'[p][i] = m
        BY <1>4, <1>7, <4>2
      <4>. QED BY <4>3
    <3>3. CASE node[m] = Free
      <4>1. o # <<>> => Len(o) \in 1..Len(o)
        BY <1>3
      <4>2. o = <<>> \/ m # o[Len(o)]
        BY <3>3, <4>1, ChainNode
      <4>. QED BY <1>2, <2>2, <3>3, <4>2
    <3>. QED BY <3>1, <3>2, <3>3
  <2>. QED BY <2>1, <2>2
<1>14. Chained'
  BY <1>11, <1>12, <1>13 DEF Chained
<1>15. queue'[q].count = queue[q].count + 1 /\ \A p \in QueueId : p # q => queue'[p] = queue[p]
  <2>1. queue[q].count = Len(o)
    BY DEF QueueInv, Chained
  <2>. QED BY <1>2, <1>3, <2>1
<1>. QED BY <1>8, <1>9, <1>10, <1>14, <1>15 DEF QueueInv

LEMMA AtLeastTwo ==
  ASSUME NEW k \in Nat \ {0}, k # 1
  PROVE  2 \in 1..k /\ k \in 1..k /\ k - 1 \in Nat \ {0} /\ 1 # k
OBVIOUS

LEMMA TailIs ==
  ASSUME NEW S, NEW s \in Seq(S), s # <<>>
  PROVE  Tail(s) = [i \in 1..(Len(s) - 1) |-> s[i + 1]]
<1>1. Len(s) \in Nat \ {0}
  OBVIOUS
<1>2. Tail(s) \in Seq(S) /\ Len(Tail(s)) = Len(s) - 1
  BY <1>1
<1>3. \A i \in 1..(Len(s) - 1) : Tail(s)[i] = s[i + 1]
  BY <1>1
<1>4. Tail(s) = [i \in 1..Len(Tail(s)) |-> Tail(s)[i]]
  <2>1. Tail(s) \in [1..Len(Tail(s)) -> S]
    BY <1>2, LenProperties
  <2>. QED BY <2>1
<1>. QED BY <1>2, <1>3, <1>4

\* queue_removeHead: the head h is freed, and the node behind it is the head.
LEMMA RemoveHeadEffect ==
  ASSUME QueueInv, NEW q \in QueueId, queue_removeHead(q)
  PROVE  /\ order[q] # <<>>
         /\ order' = [order EXCEPT ![q] = Tail(order[q])]
         /\ node' \in [Node -> [next : Node \cup {NULL}, prev : Node \cup {NULL},
                                data : Item \cup {NULL}]]
         /\ node'[order[q][1]] = Free
         /\ \A m \in Node : m # order[q][1] =>
              node'[m].data = node[m].data /\ node'[m].next = node[m].next
         /\ \A m \in Node : m # order[q][1] /\ node[m] = Free => node'[m] = Free
         /\ queue' = [queue EXCEPT ![q] =
              [head |-> IF Len(order[q]) = 1 THEN NULL ELSE order[q][2],
               tail |-> IF Len(order[q]) = 1 THEN NULL ELSE order[q][Len(order[q])],
               count |-> Len(order[q]) - 1]]
<1>. DEFINE o == order[q]
            h == queue[q].head
<1>1. /\ node \in [Node -> [next : Node \cup {NULL}, prev : Node \cup {NULL}, data : Item \cup {NULL}]]
      /\ queue \in [QueueId -> [head : Node \cup {NULL}, tail : Node \cup {NULL}, count : Nat]]
      /\ o \in Seq(Node)
  BY DEF QueueInv, QueueTypeOK
<1>2. /\ queue[q].count = Len(o)
      /\ h = IF o = <<>> THEN NULL ELSE o[1]
      /\ queue[q].tail = IF o = <<>> THEN NULL ELSE o[Len(o)]
      /\ \A i \in 1..Len(o) : node[o[i]].next = IF i = Len(o) THEN NULL ELSE o[i + 1]
      /\ \A i, j \in 1..Len(o) : o[i] = o[j] => i = j
  BY DEF QueueInv, Chained
<1>3. h # NULL /\ order' = [order EXCEPT ![q] = Tail(o)]
  BY DEF queue_removeHead
<1>4. o # <<>> /\ h = o[1] /\ Len(o) \in Nat \ {0} /\ 1 \in 1..Len(o) /\ Len(o) \in 1..Len(o)
  BY <1>1, <1>2, <1>3
<1>5. o[1] \in Node
  BY <1>1, <1>4
<1>6. queue[q].tail = h <=> Len(o) = 1
  BY <1>2, <1>4
<1>7. CASE Len(o) = 1
  <2>1. /\ node' = [node EXCEPT ![o[1]] = Free]
        /\ queue' = [queue EXCEPT ![q] = [head |-> NULL, tail |-> NULL, count |-> Len(o) - 1]]
    BY <1>2, <1>4, <1>6, <1>7 DEF queue_removeHead
  <2>. QED BY <1>1, <1>3, <1>4, <1>5, <1>7, <2>1 DEF Free
<1>8. CASE Len(o) # 1
  <2>1. 2 \in 1..Len(o) /\ node[o[1]].next = o[2]
    <3>1. 2 \in 1..Len(o) /\ 1 # Len(o)
      BY <1>4, <1>8, AtLeastTwo
    <3>2. node[o[1]].next = IF 1 = Len(o) THEN NULL ELSE o[1 + 1]
      BY <1>2, <1>4
    <3>3. 1 + 1 = 2
      OBVIOUS
    <3>. QED BY <3>1, <3>2, <3>3
  <2>2. /\ queue' = [queue EXCEPT ![q].head = o[2], ![q].count = @ - 1]
        /\ node' = [[node EXCEPT ![o[2]].prev = NULL] EXCEPT ![o[1]] = Free]
    <3>1. queue[q].tail # h
      BY <1>6, <1>8
    <3>2. node[h].next = o[2]
      BY <1>4, <2>1
    <3>3. /\ queue' = [queue EXCEPT ![q].head = node[h].next, ![q].count = @ - 1]
          /\ node' = [[node EXCEPT ![node[h].next].prev = NULL] EXCEPT ![h] = Free]
      BY <3>1, Zenon DEF queue_removeHead
    <3>. QED BY <1>4, <3>2, <3>3
  <2>3. o[2] \in Node /\ o[2] # o[1] /\ node[o[2]] # Free
    BY <1>1, <1>2, <1>4, <2>1, ChainNode
  <2>4. /\ node'[o[1]] = Free
        /\ node'[o[2]] = [node[o[2]] EXCEPT !.prev = NULL]
        /\ \A m \in Node : m # o[1] /\ m # o[2] => node'[m] = node[m]
    BY <1>1, <1>5, <2>2, <2>3
  <2>5. node'[o[2]].data = node[o[2]].data /\ node'[o[2]].next = node[o[2]].next
    BY <1>1, <2>3, <2>4
  <2>6. node' \in [Node -> [next : Node \cup {NULL}, prev : Node \cup {NULL}, data : Item \cup {NULL}]]
    <3>. DEFINE cut == [node EXCEPT ![o[2]].prev = NULL]
    <3>1. node \in [Node -> NodeRec] /\ [node[o[2]] EXCEPT !.prev = NULL] \in NodeRec
      BY <1>1, <2>3, NodeUpdate DEF NodeRec
    <3>2. cut \in [Node -> NodeRec]
      BY <2>3, <3>1
    <3>3. Free \in NodeRec
      BY DEF Free, NodeRec
    <3>4. node' = [cut EXCEPT ![o[1]] = Free]
      BY <2>2
    <3>. HIDE DEF cut
    <3>5. node' \in [Node -> NodeRec]
      BY <1>5, <3>2, <3>3, <3>4
    <3>. QED BY <3>5 DEF NodeRec
  <2>7. queue' = [queue EXCEPT ![q] = [head |-> o[2], tail |-> o[Len(o)], count |-> Len(o) - 1]]
    BY <1>1, <1>2, <1>4, <2>2
  <2>. QED BY <1>3, <1>4, <1>8, <2>3, <2>4, <2>5, <2>6, <2>7
<1>. QED BY <1>7, <1>8

LEMMA RemoveHeadSound ==
  ASSUME QueueInv, NEW q \in QueueId, queue_removeHead(q)
  PROVE  /\ QueueInv'
         /\ Line(q) # <<>> /\ Line(q)' = Tail(Line(q))
         /\ queue'[q].count = queue[q].count - 1
         /\ \A p \in QueueId : p # q => Line(p)' = Line(p) /\ queue'[p] = queue[p]
<1>. DEFINE o == order[q]
<1>1. /\ o # <<>>
      /\ order' = [order EXCEPT ![q] = Tail(o)]
      /\ node' \in [Node -> [next : Node \cup {NULL}, prev : Node \cup {NULL},
                             data : Item \cup {NULL}]]
      /\ node'[o[1]] = Free
      /\ \A m \in Node : m # o[1] => node'[m].data = node[m].data /\ node'[m].next = node[m].next
      /\ \A m \in Node : m # o[1] /\ node[m] = Free => node'[m] = Free
      /\ queue' = [queue EXCEPT ![q] =
           [head |-> IF Len(o) = 1 THEN NULL ELSE o[2],
            tail |-> IF Len(o) = 1 THEN NULL ELSE o[Len(o)],
            count |-> Len(o) - 1]]
  BY RemoveHeadEffect
<1>2. /\ queue \in [QueueId -> [head : Node \cup {NULL}, tail : Node \cup {NULL}, count : Nat]]
      /\ order \in [QueueId -> Seq(Node)]
      /\ o \in Seq(Node) /\ Len(o) \in Nat \ {0} /\ 1 \in 1..Len(o)
      /\ \A p \in QueueId : Len(order[p]) \in Nat
  BY <1>1 DEF QueueInv, QueueTypeOK
<1>3. /\ order'[q] = Tail(o)
      /\ Len(order'[q]) = Len(o) - 1
      /\ \A i \in 1..(Len(o) - 1) : order'[q][i] = o[i + 1]
      /\ \A p \in QueueId : p # q => order'[p] = order[p]
  BY <1>1, <1>2
<1>4. \A p, r \in QueueId : \A i \in 1..Len(order[p]), j \in 1..Len(order[r]) :
        order[p][i] = order[r][j] => p = r /\ i = j
  BY DEF QueueInv, Chained
<1>5. \A p \in QueueId : \A i \in 1..Len(order[p]) :
        order[p][i] \in Node /\ (order[p][i] = o[1] => p = q /\ i = 1)
  BY <1>2, <1>4, ChainNode
<1>6. QueueTypeOK'
  <2>1. order' \in [QueueId -> Seq(Node)]
    BY <1>1, <1>2
  <2>2. [head |-> IF Len(o) = 1 THEN NULL ELSE o[2],
         tail |-> IF Len(o) = 1 THEN NULL ELSE o[Len(o)], count |-> Len(o) - 1]
           \in [head : Node \cup {NULL}, tail : Node \cup {NULL}, count : Nat]
    <3>1. Len(o) # 1 => 2 \in 1..Len(o) /\ Len(o) \in 1..Len(o)
      BY <1>2, AtLeastTwo
    <3>2. Len(o) # 1 => o[2] \in Node /\ o[Len(o)] \in Node
      BY <1>2, <3>1, ElementOfSeq
    <3>3. Len(o) - 1 \in Nat
      BY <1>2
    <3>. QED BY <3>2, <3>3
  <2>3. queue' \in [QueueId -> [head : Node \cup {NULL}, tail : Node \cup {NULL}, count : Nat]]
    BY <1>1, <1>2, <2>2
  <2>. QED BY <1>1, <2>1, <2>3 DEF QueueTypeOK
<1>7. Line(q) # <<>> /\ Line(q)' = Tail(Line(q))
  <2>1. Line(q)' = [i \in 1..(Len(o) - 1) |-> node'[o[i + 1]].data]
    BY <1>3 DEF Line
  <2>2. Line(q) \in Seq(Item) /\ Len(Line(q)) = Len(o) /\ \A i \in 1..Len(o) : Line(q)[i] = node[o[i]].data
    BY LineSound DEF Line
  <2>3. Line(q) # <<>>
    BY <1>2, <2>2
  <2>4. Tail(Line(q)) = [i \in 1..(Len(o) - 1) |-> Line(q)[i + 1]]
    BY <2>2, <2>3, TailIs
  <2>5. ASSUME NEW i \in 1..(Len(o) - 1) PROVE node'[o[i + 1]].data = Line(q)[i + 1]
    <3>1. i + 1 \in 1..Len(o) /\ i + 1 # 1
      BY <1>2
    <3>2. o[i + 1] \in Node /\ o[i + 1] # o[1]
      BY <1>5, <3>1
    <3>. QED BY <1>1, <2>2, <3>1, <3>2
  <2>. QED BY <2>1, <2>3, <2>4, <2>5
<1>8. ASSUME NEW p \in QueueId, p # q PROVE Line(p)' = Line(p)
  BY <1>1, <1>3, <1>5, <1>8 DEF Line
<1>9. ASSUME NEW p \in QueueId
      PROVE  LET o2 == order'[p] IN
             /\ queue'[p].count = Len(o2)
             /\ queue'[p].head = IF o2 = <<>> THEN NULL ELSE o2[1]
             /\ queue'[p].tail = IF o2 = <<>> THEN NULL ELSE o2[Len(o2)]
             /\ \A i \in 1..Len(o2) :
                  /\ node'[o2[i]].data # NULL
                  /\ node'[o2[i]].next = IF i = Len(o2) THEN NULL ELSE o2[i + 1]
  <2>1. LET c == order[p] IN
          /\ queue[p].count = Len(c)
          /\ queue[p].head = IF c = <<>> THEN NULL ELSE c[1]
          /\ queue[p].tail = IF c = <<>> THEN NULL ELSE c[Len(c)]
          /\ \A i \in 1..Len(c) : /\ node[c[i]].data # NULL
                                  /\ node[c[i]].next = IF i = Len(c) THEN NULL ELSE c[i + 1]
    BY DEF QueueInv, Chained
  <2>2. CASE p # q
    <3>1. queue'[p] = queue[p] /\ order'[p] = order[p]
      BY <1>1, <1>2, <1>3, <2>2
    <3>2. \A i \in 1..Len(order[p]) : /\ node'[order[p][i]].data = node[order[p][i]].data
                                      /\ node'[order[p][i]].next = node[order[p][i]].next
      BY <1>1, <1>5, <2>2
    <3>. QED BY <2>1, <3>1, <3>2
  <2>3. CASE p = q
    <3>1. queue'[q] = [head |-> IF Len(o) = 1 THEN NULL ELSE o[2],
                       tail |-> IF Len(o) = 1 THEN NULL ELSE o[Len(o)], count |-> Len(o) - 1]
      BY <1>1, <1>2
    <3>2. order'[q] = <<>> <=> Len(o) = 1
      <4>1. Tail(o) \in Seq(Node) /\ Len(Tail(o)) = Len(o) - 1
        BY <1>1, <1>2
      <4>2. Len(order'[q]) = 0 <=> Len(o) = 1
        BY <1>2, <1>3
      <4>3. order'[q] = <<>> <=> Len(order'[q]) = 0
        BY <1>3, <4>1, EmptySeq
      <4>. QED BY <4>2, <4>3
    <3>3. Len(o) # 1 => /\ order'[q][1] = o[2]
                        /\ order'[q][Len(order'[q])] = o[Len(o)]
      BY <1>2, <1>3
    <3>4. ASSUME NEW i \in 1..(Len(o) - 1)
          PROVE  /\ node'[order'[q][i]].data # NULL
                 /\ node'[order'[q][i]].next = IF i = Len(o) - 1 THEN NULL ELSE order'[q][i + 1]
      <4>1. i + 1 \in 1..Len(o) /\ i + 1 # 1 /\ order'[q][i] = o[i + 1]
        BY <1>2, <1>3
      <4>2. /\ node'[o[i + 1]].data = node[o[i + 1]].data
            /\ node'[o[i + 1]].next = node[o[i + 1]].next
        BY <1>1, <1>5, <4>1
      <4>3. i # Len(o) - 1 => i + 1 \in 1..(Len(o) - 1) /\ order'[q][i + 1] = o[i + 1 + 1]
        BY <1>2, <1>3
      <4>. QED BY <1>2, <2>1, <2>3, <4>1, <4>2, <4>3
    <3>5. \A i \in 1..Len(order'[q]) :
             /\ node'[order'[q][i]].data # NULL
             /\ node'[order'[q][i]].next = IF i = Len(order'[q]) THEN NULL ELSE order'[q][i + 1]
      BY <1>3, <3>4
    <3>6. /\ queue'[q].count = Len(order'[q])
          /\ queue'[q].head = IF order'[q] = <<>> THEN NULL ELSE order'[q][1]
          /\ queue'[q].tail = IF order'[q] = <<>> THEN NULL ELSE order'[q][Len(order'[q])]
      BY <1>3, <3>1, <3>2, <3>3
    <3>. QED BY <2>3, <3>5, <3>6
  <2>. QED BY <2>2, <2>3
<1>10. ASSUME NEW p \in QueueId, NEW r \in QueueId,
              NEW i \in 1..Len(order'[p]), NEW j \in 1..Len(order'[r]), order'[p][i] = order'[r][j]
       PROVE  p = r /\ i = j
  <2>. DEFINE shift(s) == IF s = q THEN 1 ELSE 0
  <2>1. ASSUME NEW s \in QueueId, NEW k \in 1..Len(order'[s])
        PROVE  k + shift(s) \in 1..Len(order[s]) /\ order'[s][k] = order[s][k + shift(s)]
    <3>1. CASE s = q
      <4>1. k \in 1..(Len(o) - 1) /\ k + 1 \in 1..Len(o)
        BY <1>2, <1>3, <3>1
      <4>. QED BY <1>3, <3>1, <4>1
    <3>2. CASE s # q
      <4>1. k \in 1..Len(order[s]) /\ order'[s] = order[s] /\ k + 0 = k
        BY <1>2, <1>3, <3>2
      <4>. QED BY <3>2, <4>1
    <3>. QED BY <3>1, <3>2
  <2>2. /\ i + shift(p) \in 1..Len(order[p]) /\ j + shift(r) \in 1..Len(order[r])
        /\ order[p][i + shift(p)] = order[r][j + shift(r)]
    BY <1>10, <2>1
  <2>3. p = r /\ i + shift(p) = j + shift(r)
    BY <1>4, <2>2
  <2>. QED BY <2>3, <1>2, <1>3
<1>11. ASSUME NEW m \in Node
       PROVE  node'[m] = Free \/ \E p \in QueueId : \E i \in 1..Len(order'[p]) : order'[p][i] = m
  <2>1. node[m] = Free \/ \E p \in QueueId : \E i \in 1..Len(order[p]) : order[p][i] = m
    BY DEF QueueInv, Chained
  <2>2. CASE m = o[1]
    BY <1>1, <2>2
  <2>3. CASE m # o[1] /\ node[m] = Free
    BY <1>1, <2>3
  <2>4. CASE m # o[1] /\ \E p \in QueueId : \E i \in 1..Len(order[p]) : order[p][i] = m
    <3>1. PICK p \in QueueId : \E i \in 1..Len(order[p]) : order[p][i] = m
      BY <2>4
    <3>2. PICK i \in 1..Len(order[p]) : order[p][i] = m
      BY <3>1
    <3>3. CASE p = q
      <4>1. i # 1
        BY <2>4, <3>2, <3>3
      <4>2. i - 1 \in 1..(Len(o) - 1) /\ (i - 1) + 1 = i
        BY <1>2, <3>2, <3>3, <4>1
      <4>3. i - 1 \in 1..Len(order'[q]) /\ order'[q][i - 1] = m
        BY <1>3, <3>2, <3>3, <4>2
      <4>. QED BY <4>3
    <3>4. CASE p # q
      BY <1>3, <3>2, <3>4
    <3>. QED BY <3>3, <3>4
  <2>. QED BY <2>1, <2>2, <2>3, <2>4
<1>12. Chained'
  BY <1>9, <1>10, <1>11 DEF Chained
<1>13. queue'[q].count = queue[q].count - 1 /\ \A p \in QueueId : p # q => queue'[p] = queue[p]
  <2>1. queue[q].count = Len(o)
    BY DEF QueueInv, Chained
  <2>. QED BY <1>1, <1>2, <2>1
<1>. QED BY <1>6, <1>7, <1>8, <1>12, <1>13 DEF QueueInv

\* queue_new of a queue that holds nothing changes nothing.
LEMMA NewSound ==
  ASSUME QueueInv, NEW q \in QueueId, order[q] = <<>>, queue_new(q)
  PROVE  UNCHANGED queueVars
<1>1. queue \in [QueueId -> [head : Node \cup {NULL}, tail : Node \cup {NULL}, count : Nat]]
  BY DEF QueueInv, QueueTypeOK
<1>2. queue[q].count = 0 /\ queue[q].head = NULL /\ queue[q].tail = NULL
  <2>1. Len(order[q]) = 0
    OBVIOUS
  <2>. QED BY <2>1 DEF QueueInv, Chained
<1>3. queue[q] = Empty
  BY <1>1, <1>2 DEF Empty
<1>. QED BY <1>1, <1>3 DEF queue_new, queueVars

-----------------------------------------------------------------------------
(* Semaphores *)

\* An id that is no semaphore has never been one: nothing waits on it.
Fresh ==
  \A id \in Id : ~IsSem(id) => /\ rtype[id] = "NONE"
                               /\ order[id] = <<>> /\ queue[id].count = 0
                               /\ count[id] = 0
                               /\ id \notin lock

\* A lock is never released more often than it was acquired, and only locks
\* are held.
Locks == /\ \A id \in lock : count[id] =< 1
         /\ \A t \in Task : has[t] \subseteq lock

\* The inductive invariant.
SemInv == /\ QueueInv /\ RsrcInv /\ TypeOK
          /\ Fresh /\ Locks
          /\ SleepersQueued /\ MutualExclusion

LEMMA SemInitSound == Init => SemInv
<1> SUFFICES ASSUME Init PROVE SemInv
  OBVIOUS
<1>1. QueueInv /\ RsrcInv
  BY QueueInitSound, RsrcInitSound DEF Init
<1>2. TypeOK
  BY <1>1 DEF Init, TypeOK, QueueInv, RsrcInv
<1>3. \A id \in Id : /\ ~IsSem(id) /\ rtype[id] = "NONE"
                     /\ order[id] = <<>> /\ queue[id].count = 0
                     /\ count[id] = 0
  BY SemAssumption DEF Init, RsrcInit, QueueInit, Empty, IsSem, IsLive
<1>4. \A id \in Id : DOMAIN Line(id) = {}
  <2> SUFFICES ASSUME NEW id \in Id PROVE DOMAIN Line(id) = {}
    OBVIOUS
  <2>1. Len(order[id]) = 0
    BY <1>3
  <2>. QED BY <2>1 DEF Line
<1>5. Fresh /\ Locks
  BY <1>3 DEF Init, Fresh, Locks
<1>6. SleepersQueued
  BY <1>3, <1>4 DEF Init, SleepersQueued, Waiting
<1>7. MutualExclusion
  BY DEF Init, MutualExclusion
<1>. QED BY <1>1, <1>2, <1>5, <1>6, <1>7 DEF SemInv

\* The lines of the semaphores, without the nodes they are made of: who waits
\* waits once, and a count below 0 is the length of the line.
LEMMA LinesSound ==
  ASSUME SemInv, NEW id \in Id
  PROVE  /\ Line(id) \in Seq(Task) /\ DOMAIN Line(id) = 1..Len(Line(id))
         /\ queue[id].count = Len(Line(id))
         /\ IsSem(id) => Len(Line(id)) = IF count[id] < 0 THEN -count[id] ELSE 0
         /\ ~IsSem(id) => Line(id) = <<>>
         /\ HeadData(id) = IF Line(id) = <<>> THEN NULL ELSE Line(id)[1]
         /\ count[id] \in Int /\ Len(Line(id)) \in Nat
<1>1. id \in QueueId /\ Item = Task
  BY SemAssumption
<1>2. /\ order[id] \in Seq(Node)
      /\ Line(id) \in Seq(Task) /\ Len(Line(id)) = Len(order[id])
      /\ queue[id].count = Len(Line(id))
      /\ HeadData(id) = IF Line(id) = <<>> THEN NULL ELSE Line(id)[1]
  BY <1>1, LineSound DEF SemInv
<1>3. IsSem(id) => queue[id].count = IF count[id] < 0 THEN -count[id] ELSE 0
  BY DEF SemInv, SleepersQueued
<1>4. ~IsSem(id) => Len(Line(id)) = 0
  BY <1>2 DEF SemInv, Fresh
<1>5. ~IsSem(id) => Line(id) = <<>>
  BY <1>2, <1>4, EmptySeq
<1>6. count[id] \in Int
  BY DEF SemInv, TypeOK
<1>. QED BY <1>2, <1>3, <1>5, <1>6

-----------------------------------------------------------------------------
\* sem_create takes an id nobody waits on, so its new queue is the old one.
LEMMA CreateEffect ==
  ASSUME SemInv, NEW t \in Task, NEW n \in {0, 1}, sem_create(t, n)
  PROVE  /\ QueueInv' /\ RsrcInv'
         /\ NewId \in Id /\ ~IsSem(NewId) /\ rtype' = [rtype EXCEPT ![NewId] = "SEM"]
         /\ UNCHANGED queueVars
         /\ \A id \in Id : /\ Line(id)' = Line(id)
                           /\ IsSem(id)' <=> IsSem(id) \/ id = NewId
<1>1. rfree # <<>> /\ rsrc_new("SEM") /\ queue_new(NewId)
  BY DEF sem_create
<1>2. /\ RsrcInv' /\ NewId \in Id /\ rtype[NewId] = "NONE"
      /\ rtype' = [rtype EXCEPT ![NewId] = "SEM"]
  BY <1>1, RsrcNewSound DEF SemInv, Kind
<1>3. ~IsSem(NewId)
  BY <1>2 DEF IsSem, IsLive
<1>4. order[NewId] = <<>>
  BY <1>2, <1>3 DEF SemInv, Fresh
<1>5. UNCHANGED queueVars
  BY <1>1, <1>2, <1>4, NewSound, SemAssumption DEF SemInv
<1>6. QueueInv' /\ \A id \in Id : Line(id)' = Line(id)
  BY <1>5 DEF SemInv, QueueInv, QueueTypeOK, Chained, queueVars, Line
<1>7. rtype \in [Id -> Kind \cup {"NONE"}]
  BY DEF SemInv, RsrcInv, RsrcTypeOK
<1>8. \A id \in Id : IsSem(id)' <=> IsSem(id) \/ id = NewId
  BY <1>2, <1>7 DEF IsSem, IsLive
<1>. QED BY <1>2, <1>3, <1>5, <1>6, <1>8

LEMMA CreateSound ==
  ASSUME SemInv, NEW t \in Task, NEW n \in {0, 1}, sem_create(t, n)
  PROVE  SemInv'
<1>1. /\ QueueInv' /\ RsrcInv'
      /\ NewId \in Id /\ ~IsSem(NewId) /\ rtype' = [rtype EXCEPT ![NewId] = "SEM"]
      /\ UNCHANGED queueVars
      /\ \A id \in Id : /\ Line(id)' = Line(id)
                        /\ IsSem(id)' <=> IsSem(id) \/ id = NewId
  BY CreateEffect
<1>2. /\ count' = [count EXCEPT ![NewId] = n]
      /\ lock' = IF n = 1 THEN lock \cup {NewId} ELSE lock
      /\ UNCHANGED <<state, sleeping_on, has>>
  BY DEF sem_create, taskVars
<1>3. /\ TypeOK /\ count \in [Id -> Int]
      /\ NewId \notin lock /\ \A u \in Task : has[u] \subseteq lock
  BY <1>1 DEF SemInv, TypeOK, Fresh, Locks
<1>4. TypeOK'
  BY <1>1, <1>2, <1>3 DEF TypeOK, QueueInv, RsrcInv
<1>5. Fresh'
  <2> SUFFICES ASSUME NEW id \in Id, ~IsSem(id)'
               PROVE  /\ rtype'[id] = "NONE"
                      /\ order'[id] = <<>> /\ queue'[id].count = 0
                      /\ count'[id] = 0
                      /\ id \notin lock'
    BY DEF Fresh
  <2>1. ~IsSem(id) /\ id # NewId
    BY <1>1
  <2>2. rtype[id] = "NONE" /\ order[id] = <<>> /\ queue[id].count = 0 /\ count[id] = 0 /\ id \notin lock
    BY <2>1 DEF SemInv, Fresh
  <2>3. rtype \in [Id -> Kind \cup {"NONE"}]
    BY DEF SemInv, RsrcInv, RsrcTypeOK
  <2>. QED BY <1>1, <1>2, <1>3, <2>1, <2>2, <2>3 DEF queueVars
<1>6. Locks'
  BY <1>1, <1>2, <1>3 DEF SemInv, Locks
<1>7. SleepersQueued'
  <2>1. \A u \in Task, id \in Id : Waiting(u, id)' <=> Waiting(u, id)
    BY <1>1 DEF Waiting
  <2>2. \A u \in Task, id \in Id :
          Waiting(u, id)' <=> state'[u] = "SLEEP_SEM" /\ sleeping_on'[u] = id
    BY <1>2, <2>1 DEF SemInv, SleepersQueued
  <2>3. \A id \in Id : \A i, j \in DOMAIN Line(id)' : Line(id)'[i] = Line(id)'[j] => i = j
    BY <1>1 DEF SemInv, SleepersQueued
  <2>4. ASSUME NEW id \in Id, IsSem(id)'
        PROVE  queue'[id].count = IF count'[id] < 0 THEN -count'[id] ELSE 0
    <3>1. CASE id = NewId
      <4>1. queue'[id].count = 0 /\ count'[id] = n
        BY <1>1, <1>2, <1>3, <3>1 DEF SemInv, Fresh, queueVars
      <4>. QED BY <4>1
    <3>2. CASE id # NewId
      BY <1>1, <1>2, <1>3, <2>4, <3>2 DEF SemInv, SleepersQueued, queueVars
    <3>. QED BY <3>1, <3>2
  <2>. QED BY <2>2, <2>3, <2>4 DEF SleepersQueued
<1>8. MutualExclusion'
  <2> SUFFICES ASSUME NEW id \in lock'
               PROVE  /\ \A u, v \in Task : id \in has[u] /\ id \in has[v] => u = v
                      /\ count'[id] = 1 <=> \A u \in Task : id \notin has[u]
    BY <1>2 DEF MutualExclusion
  <2>1. CASE id \in lock
    <3>1. id # NewId /\ id \in Id
      BY <1>3, <2>1 DEF TypeOK
    <3>2. count'[id] = count[id]
      BY <1>2, <1>3, <3>1
    <3>. QED BY <2>1, <3>2 DEF SemInv, MutualExclusion
  <2>2. CASE id = NewId /\ n = 1
    BY <1>1, <1>2, <1>3, <2>2
  <2>. QED BY <1>2, <2>1, <2>2
<1>. QED BY <1>1, <1>4, <1>5, <1>6, <1>7, <1>8 DEF SemInv

-----------------------------------------------------------------------------
\* sem_acquire with a permit left: the caller takes it and the lines stay.
LEMMA TakeSound ==
  ASSUME SemInv, NEW t \in Task, NEW id \in Id,
         state[t] = "READY", IsSem(id), MayAcquire(t, id), count[id] > 0,
         count' = [count EXCEPT ![id] = @ - 1], has' = Gets(t, id),
         UNCHANGED <<taskVars, queueVars, lock, rtype, rfree>>
  PROVE  SemInv'
<1>1. /\ TypeOK /\ count \in [Id -> Int] /\ has \in [Task -> SUBSET Id]
      /\ count'[id] = count[id] - 1
      /\ \A s \in Id : s # id => count'[s] = count[s]
  BY DEF SemInv, TypeOK
<1>2. \A s \in Id : Line(s)' = Line(s) /\ (IsSem(s)' <=> IsSem(s))
  BY DEF Line, queueVars, IsSem, IsLive
<1>3. QueueInv' /\ RsrcInv'
  <2>1. QueueInv'
    BY DEF SemInv, QueueInv, QueueTypeOK, Chained, queueVars
  <2>2. RsrcInv'
    BY DEF SemInv, RsrcInv, RsrcTypeOK, FreeListSound
  <2>. QED BY <2>1, <2>2
<1>4. has' = IF id \in lock THEN [has EXCEPT ![t] = @ \cup {id}] ELSE has
  BY DEF Gets
<1>5. TypeOK'
  BY <1>1, <1>3, <1>4 DEF TypeOK, QueueInv, RsrcInv, taskVars
<1>6. Fresh'
  BY <1>1, <1>2 DEF SemInv, Fresh, queueVars
<1>7. Locks'
  <2>1. \A s \in lock : s \in Id
    BY <1>1 DEF TypeOK
  <2>. QED BY <1>1, <1>4, <2>1 DEF SemInv, Locks
<1>8. SleepersQueued'
  <2>1. \A u \in Task, s \in Id : Waiting(u, s)' <=> Waiting(u, s)
    BY <1>2 DEF Waiting
  <2>2. \A s \in Id : IsSem(s)' => queue'[s].count = IF count'[s] < 0 THEN -count'[s] ELSE 0
    BY <1>1, <1>2 DEF SemInv, SleepersQueued, queueVars
  <2>. QED BY <1>2, <2>1, <2>2 DEF SemInv, SleepersQueued, taskVars
<1>9. MutualExclusion'
  <2> SUFFICES ASSUME NEW s \in lock
               PROVE  /\ \A u, v \in Task : s \in has'[u] /\ s \in has'[v] => u = v
                      /\ count'[s] = 1 <=> \A u \in Task : s \notin has'[u]
    BY DEF MutualExclusion
  <2>1. s \in Id /\ count[s] =< 1
    BY <1>1 DEF TypeOK, SemInv, Locks
  <2>2. /\ \A u, v \in Task : s \in has[u] /\ s \in has[v] => u = v
        /\ count[s] = 1 <=> \A u \in Task : s \notin has[u]
    BY DEF SemInv, MutualExclusion
  <2>3. CASE s # id
    <3>1. \A u \in Task : s \in has'[u] <=> s \in has[u]
      BY <1>1, <1>4, <2>3
    <3>. QED BY <1>1, <2>1, <2>2, <2>3, <3>1
  <2>4. CASE s = id
    <3>1. count[s] = 1 /\ count'[s] = 0
      BY <1>1, <2>1, <2>4
    <3>2. \A u \in Task : s \in has'[u] <=> u = t
      BY <1>1, <1>4, <2>2, <2>4, <3>1
    <3>. QED BY <3>1, <3>2
  <2>. QED BY <2>3, <2>4
<1>. QED BY <1>3, <1>5, <1>6, <1>7, <1>8, <1>9 DEF SemInv

\* sem_acquire without a permit: the caller joins the line and sleeps.
LEMMA JoinSound ==
  ASSUME SemInv, NEW t \in Task, NEW id \in Id,
         state[t] = "READY", IsSem(id), count[id] =< 0,
         count' = [count EXCEPT ![id] = @ - 1], queue_addTail(id, t),
         sleeping_on' = [sleeping_on EXCEPT ![t] = id],
         state' = [state EXCEPT ![t] = "SLEEP_SEM"],
         UNCHANGED <<has, lock, rtype, rfree>>
  PROVE  /\ SemInv'
         /\ Line(id)' = Append(Line(id), t)
         /\ \A s \in Id : s # id => Line(s)' = Line(s)
<1>1. /\ TypeOK /\ count \in [Id -> Int]
      /\ state \in [Task -> {"READY", "SLEEP_SEM"}] /\ sleeping_on \in [Task -> Id \cup {0}]
      /\ count'[id] = count[id] - 1
      /\ \A s \in Id : s # id => count'[s] = count[s]
  BY DEF SemInv, TypeOK
<1>2. /\ QueueInv'
      /\ Line(id)' = Append(Line(id), t)
      /\ queue'[id].count = queue[id].count + 1
      /\ \A s \in Id : s # id => Line(s)' = Line(s) /\ queue'[s] = queue[s]
  BY AddTailSound, SemAssumption DEF SemInv
<1>3. RsrcInv' /\ \A s \in Id : IsSem(s)' <=> IsSem(s)
  BY DEF SemInv, RsrcInv, RsrcTypeOK, FreeListSound, IsSem, IsLive
<1>4. TypeOK'
  BY <1>1, <1>2, <1>3 DEF TypeOK, QueueInv, RsrcInv
<1>5. Fresh'
  <2> SUFFICES ASSUME NEW s \in Id, ~IsSem(s)
               PROVE  order'[s] = <<>> /\ queue'[s].count = 0 /\ count'[s] = 0
    BY <1>3 DEF SemInv, Fresh
  <2>1. s # id
    OBVIOUS
  <2>2. order'[s] = order[s]
    BY <2>1, SemAssumption DEF queue_addTail, SemInv, QueueInv, QueueTypeOK
  <2>. QED BY <1>1, <1>2, <2>1, <2>2 DEF SemInv, Fresh
<1>6. Locks'
  <2>1. \A s \in lock : s \in Id
    BY <1>1 DEF TypeOK
  <2>. QED BY <1>1, <2>1 DEF SemInv, Locks
<1>7. /\ Line(id) \in Seq(Task) /\ Len(Line(id)) \in Nat
      /\ queue[id].count = Len(Line(id))
      /\ Len(Line(id)) = IF count[id] < 0 THEN -count[id] ELSE 0
  BY LinesSound
<1>8. \A u \in Task, s \in Id : Waiting(u, s) <=> state[u] = "SLEEP_SEM" /\ sleeping_on[u] = s
  BY DEF SemInv, SleepersQueued
<1>9. /\ DOMAIN Line(id) = 1..Len(Line(id))
      /\ DOMAIN Line(id)' = 1..(Len(Line(id)) + 1)
      /\ \A i \in 1..Len(Line(id)) : Line(id)'[i] = Line(id)[i]
      /\ Line(id)'[Len(Line(id)) + 1] = t
  BY <1>2, <1>7
<1>10. \A i \in 1..Len(Line(id)) : Line(id)[i] # t
  BY <1>8, <1>9 DEF Waiting
<1>11. SleepersQueued'
  <2>1. ASSUME NEW u \in Task, NEW s \in Id
        PROVE  Waiting(u, s)' <=> state'[u] = "SLEEP_SEM" /\ sleeping_on'[u] = s
    <3>1. CASE s # id
      <4>1. Waiting(u, s)' <=> Waiting(u, s)
        BY <1>2, <3>1 DEF Waiting
      <4>. QED BY <1>1, <1>8, <3>1, <4>1
    <3>2. CASE s = id
      <4>1. Waiting(u, id)' <=> \E i \in 1..(Len(Line(id)) + 1) : Line(id)'[i] = u
        BY <1>9 DEF Waiting
      <4>2. Waiting(u, id) <=> \E i \in 1..Len(Line(id)) : Line(id)[i] = u
        BY <1>9 DEF Waiting
      <4>3. \A i \in 1..(Len(Line(id)) + 1) : i \in 1..Len(Line(id)) \/ i = Len(Line(id)) + 1
        BY <1>7
      <4>4. Len(Line(id)) + 1 \in 1..(Len(Line(id)) + 1)
            /\ \A i \in 1..Len(Line(id)) : i \in 1..(Len(Line(id)) + 1)
        BY <1>7
      <4>5. Waiting(u, id)' <=> Waiting(u, id) \/ u = t
        BY <1>9, <4>1, <4>2, <4>3, <4>4
      <4>. QED BY <1>1, <1>8, <3>2, <4>5
    <3>. QED BY <3>1, <3>2
  <2>2. ASSUME NEW s \in Id, NEW i \in DOMAIN Line(s)', NEW j \in DOMAIN Line(s)',
               Line(s)'[i] = Line(s)'[j]
        PROVE  i = j
    <3>1. \A k, l \in DOMAIN Line(s) : Line(s)[k] = Line(s)[l] => k = l
      BY DEF SemInv, SleepersQueued
    <3>2. CASE s # id
      BY <1>2, <2>2, <3>1, <3>2
    <3>3. CASE s = id
      <4>1. \A k \in {i, j} : k \in 1..Len(Line(id)) \/ k = Len(Line(id)) + 1
        BY <1>7, <1>9, <3>3
      <4>. QED BY <1>9, <1>10, <2>2, <3>1, <3>3, <4>1
    <3>. QED BY <3>2, <3>3
  <2>3. ASSUME NEW s \in Id, IsSem(s)
        PROVE  queue'[s].count = IF count'[s] < 0 THEN -count'[s] ELSE 0
    <3>1. CASE s # id
      BY <1>1, <1>2, <2>3, <3>1 DEF SemInv, SleepersQueued
    <3>2. CASE s = id
      BY <1>1, <1>2, <1>7, <3>2
    <3>. QED BY <3>1, <3>2
  <2>. QED BY <1>3, <2>1, <2>2, <2>3 DEF SleepersQueued
<1>12. MutualExclusion'
  <2>1. \A s \in lock : s \in Id /\ (count'[s] = 1 <=> count[s] = 1)
    BY <1>1 DEF TypeOK
  <2>. QED BY <2>1 DEF SemInv, MutualExclusion
<1>. QED BY <1>2, <1>3, <1>4, <1>5, <1>6, <1>11, <1>12 DEF SemInv

LEMMA AcquireSound ==
  ASSUME SemInv, NEW t \in Task, NEW id \in Id, sem_acquire(t, id)
  PROVE  SemInv'
<1>1. /\ state[t] = "READY" /\ IsSem(id) /\ MayAcquire(t, id)
      /\ count' = [count EXCEPT ![id] = @ - 1]
      /\ UNCHANGED <<lock, rtype, rfree>>
  BY DEF sem_acquire
<1>2. CASE count[id] > 0 /\ has' = Gets(t, id) /\ UNCHANGED <<taskVars, queueVars>>
  BY <1>1, <1>2, TakeSound
<1>3. CASE /\ count[id] =< 0
           /\ queue_addTail(id, t)
           /\ sleeping_on' = [sleeping_on EXCEPT ![t] = id]
           /\ state' = [state EXCEPT ![t] = "SLEEP_SEM"]
           /\ UNCHANGED has
  BY <1>1, <1>3, JoinSound
<1>. QED BY <1>2, <1>3 DEF sem_acquire

-----------------------------------------------------------------------------
\* A released lock was acquired, by t and nobody else.
LEMMA ReleasedLock ==
  ASSUME SemInv, NEW t \in Task, NEW id \in lock, MayRelease(t, id)
  PROVE  count[id] =< 0 /\ \A u \in Task : id \in has[u] <=> u = t
<1>1. id \in has[t] /\ id \in Id /\ count[id] \in Int /\ count[id] =< 1
  BY DEF MayRelease, SemInv, Locks, TypeOK
<1>2. count[id] # 1 /\ \A u \in Task : id \in has[u] => u = t
  BY <1>1 DEF SemInv, MutualExclusion
<1>. QED BY <1>1, <1>2

\* sem_release with nobody in line: the permit is kept.
LEMMA KeepSound ==
  ASSUME SemInv, NEW t \in Task, NEW id \in Id, IsSem(id), MayRelease(t, id),
         HeadData(id) = NULL,
         count' = [count EXCEPT ![id] = @ + 1],
         has' = Passed(t, NULL, id),
         UNCHANGED <<taskVars, queueVars, lock, rtype, rfree>>
  PROVE  SemInv' /\ Line(id) = <<>> /\ count[id] >= 0
<1>1. /\ TypeOK /\ count \in [Id -> Int] /\ has \in [Task -> SUBSET Id]
      /\ count'[id] = count[id] + 1
      /\ \A s \in Id : s # id => count'[s] = count[s]
  BY DEF SemInv, TypeOK
<1>2. \A s \in Id : Line(s)' = Line(s) /\ (IsSem(s)' <=> IsSem(s))
  BY DEF Line, queueVars, IsSem, IsLive
<1>3. QueueInv' /\ RsrcInv'
  <2>1. QueueInv'
    BY DEF SemInv, QueueInv, QueueTypeOK, Chained, queueVars
  <2>2. RsrcInv'
    BY DEF SemInv, RsrcInv, RsrcTypeOK, FreeListSound
  <2>. QED BY <2>1, <2>2
<1>4. /\ \A u \in Task : has'[u] = IF id \in lock /\ u = t THEN has[u] \ {id} ELSE has[u]
      /\ has' \in [Task -> SUBSET Id]
  BY <1>1, QueueAssumption, SemAssumption DEF Passed
<1>5. Line(id) = <<>> /\ Len(Line(id)) = 0 /\ count[id] >= 0
  <2>1. Line(id) = <<>>
    <3>1. Line(id) # <<>> => Line(id)[1] \in Task
      BY LinesSound, ElementOfSeq, EmptySeq
    <3>. QED BY <3>1, LinesSound, QueueAssumption, SemAssumption
  <2>2. Len(Line(id)) = 0
    BY <2>1, EmptySeq
  <2>. QED BY <1>1, <2>1, <2>2, LinesSound
<1>6. TypeOK'
  BY <1>1, <1>3, <1>4 DEF TypeOK, QueueInv, RsrcInv, taskVars
<1>7. Fresh'
  BY <1>1, <1>2 DEF SemInv, Fresh, queueVars
<1>8. Locks'
  <2>1. ASSUME NEW s \in lock PROVE count'[s] =< 1
    <3>1. s \in Id /\ count[s] =< 1 /\ count[s] \in Int
      BY <1>1 DEF TypeOK, SemInv, Locks
    <3>2. s = id => count[s] =< 0
      BY ReleasedLock
    <3>. QED BY <1>1, <3>1, <3>2
  <2>. QED BY <1>4, <2>1 DEF SemInv, Locks
<1>9. SleepersQueued'
  <2>1. \A u \in Task, s \in Id : Waiting(u, s)' <=> Waiting(u, s)
    BY <1>2 DEF Waiting
  <2>2. ASSUME NEW s \in Id, IsSem(s)
        PROVE  queue'[s].count = IF count'[s] < 0 THEN -count'[s] ELSE 0
    <3>1. CASE s # id
      BY <1>1, <2>2, <3>1 DEF SemInv, SleepersQueued, queueVars
    <3>2. CASE s = id
      <4>1. queue'[id].count = 0
        BY <1>5, LinesSound DEF queueVars
      <4>. QED BY <1>1, <1>5, <3>2, <4>1
    <3>. QED BY <3>1, <3>2
  <2>. QED BY <1>2, <2>1, <2>2 DEF SemInv, SleepersQueued, taskVars
<1>10. MutualExclusion'
  <2> SUFFICES ASSUME NEW s \in lock
               PROVE  /\ \A u, v \in Task : s \in has'[u] /\ s \in has'[v] => u = v
                      /\ count'[s] = 1 <=> \A u \in Task : s \notin has'[u]
    BY DEF MutualExclusion
  <2>1. CASE s # id
    <3>1. s \in Id /\ count'[s] = count[s] /\ \A u \in Task : s \in has'[u] <=> s \in has[u]
      BY <1>1, <1>4, <2>1 DEF TypeOK
    <3>. QED BY <3>1 DEF SemInv, MutualExclusion
  <2>2. CASE s = id
    <3>1. count[id] =< 0 /\ \A u \in Task : id \in has[u] <=> u = t
      BY <2>2, ReleasedLock
    <3>2. count'[id] = 1 /\ \A u \in Task : id \notin has'[u]
      BY <1>1, <1>4, <1>5, <2>2, <3>1
    <3>. QED BY <2>2, <3>2
  <2>. QED BY <2>1, <2>2
<1>. QED BY <1>3, <1>5, <1>6, <1>7, <1>8, <1>9, <1>10 DEF SemInv

\* sem_release with a line: its first thread leaves it with the permit.
LEMMA GiveSound ==
  ASSUME SemInv, NEW t \in Task, NEW id \in Id, state[t] = "READY",
         IsSem(id), MayRelease(t, id), Wake(id),
         count' = [count EXCEPT ![id] = @ + 1],
         has' = Passed(t, HeadData(id), id),
         UNCHANGED <<lock, sleeping_on, rtype, rfree>>
  PROVE  /\ SemInv'
         /\ Line(id) # <<>> /\ Line(id)' = Tail(Line(id))
         /\ \A s \in Id : s # id => Line(s)' = Line(s)
         /\ count[id] < 0
<1>. DEFINE u == HeadData(id)
<1>1. /\ TypeOK /\ count \in [Id -> Int] /\ has \in [Task -> SUBSET Id]
      /\ state \in [Task -> {"READY", "SLEEP_SEM"}]
      /\ count'[id] = count[id] + 1
      /\ \A s \in Id : s # id => count'[s] = count[s]
  BY DEF SemInv, TypeOK
<1>2. /\ QueueInv'
      /\ Line(id) # <<>> /\ Line(id)' = Tail(Line(id))
      /\ queue'[id].count = queue[id].count - 1
      /\ \A s \in Id : s # id => Line(s)' = Line(s) /\ queue'[s] = queue[s]
  BY RemoveHeadSound, SemAssumption DEF SemInv, Wake
<1>3. RsrcInv' /\ \A s \in Id : IsSem(s)' <=> IsSem(s)
  BY DEF SemInv, RsrcInv, RsrcTypeOK, FreeListSound, IsSem, IsLive
<1>4. /\ Line(id) \in Seq(Task) /\ Len(Line(id)) \in Nat \ {0}
      /\ queue[id].count = Len(Line(id))
      /\ Len(Line(id)) = IF count[id] < 0 THEN -count[id] ELSE 0
      /\ u = Line(id)[1]
  BY <1>2, LinesSound, EmptySeq
<1>5. /\ u \in Task /\ state' = [state EXCEPT ![u] = "READY"]
      /\ count[id] < 0 /\ Len(Line(id)) = -count[id]
  BY <1>1, <1>4 DEF Wake
<1>6. \A v \in Task, s \in Id : Waiting(v, s) <=> state[v] = "SLEEP_SEM" /\ sleeping_on[v] = s
  BY DEF SemInv, SleepersQueued
<1>7. /\ DOMAIN Line(id) = 1..Len(Line(id))
      /\ DOMAIN Line(id)' = 1..(Len(Line(id)) - 1)
      /\ \A i \in 1..(Len(Line(id)) - 1) : Line(id)'[i] = Line(id)[i + 1]
  BY <1>2, <1>4
<1>8. \A k, l \in 1..Len(Line(id)) : Line(id)[k] = Line(id)[l] => k = l
  BY <1>7 DEF SemInv, SleepersQueued
<1>9. Waiting(u, id) /\ u # t
  <2>1. Waiting(u, id)
    BY <1>4, <1>7 DEF Waiting
  <2>. QED BY <1>5, <1>6, <2>1
<1>10. /\ \A v \in Task : has'[v] = IF id \notin lock THEN has[v]
                                    ELSE IF v = u THEN has[v] \cup {id}
                                    ELSE IF v = t THEN has[v] \ {id}
                                    ELSE has[v]
       /\ has' \in [Task -> SUBSET Id]
  BY <1>1, <1>5 DEF Passed
<1>11. TypeOK'
  <2>1. state' \in [Task -> {"READY", "SLEEP_SEM"}]
    BY <1>1, <1>5
  <2>2. count' \in [Id -> Int]
    BY <1>1
  <2>3. lock' \subseteq Id /\ sleeping_on' \in [Task -> Id \cup {0}]
    BY <1>1 DEF TypeOK
  <2>. QED BY <1>2, <1>3, <1>10, <2>1, <2>2, <2>3 DEF TypeOK, QueueInv, RsrcInv
<1>12. Fresh'
  <2> SUFFICES ASSUME NEW s \in Id, ~IsSem(s)
               PROVE  order'[s] = <<>> /\ queue'[s].count = 0 /\ count'[s] = 0
    BY <1>3 DEF SemInv, Fresh
  <2>1. s # id
    OBVIOUS
  <2>2. order'[s] = order[s]
    BY <2>1, SemAssumption DEF Wake, queue_removeHead, SemInv, QueueInv, QueueTypeOK
  <2>. QED BY <1>1, <1>2, <2>1, <2>2 DEF SemInv, Fresh
<1>13. Locks'
  <2>1. \A s \in lock : s \in Id /\ count[s] =< 1 /\ count[s] \in Int
    BY <1>1 DEF TypeOK, SemInv, Locks
  <2>2. \A s \in lock : count'[s] =< 1
    BY <1>1, <1>5, <2>1
  <2>3. \A v \in Task : has[v] \subseteq lock
    BY DEF SemInv, Locks
  <2>4. \A v \in Task : has'[v] \subseteq lock
    BY <1>10, <2>3
  <2>. QED BY <2>2, <2>4 DEF Locks
<1>14. SleepersQueued'
  <2>1. ASSUME NEW v \in Task, NEW s \in Id
        PROVE  Waiting(v, s)' <=> state'[v] = "SLEEP_SEM" /\ sleeping_on'[v] = s
    <3>1. CASE s # id
      <4>1. Waiting(v, s)' <=> Waiting(v, s)
        BY <1>2, <3>1 DEF Waiting
      <4>2. v = u => ~Waiting(v, s)
        BY <1>5, <1>6, <1>9, <3>1
      <4>. QED BY <1>1, <1>5, <1>6, <4>1, <4>2
    <3>2. CASE s = id
      <4>1. Waiting(v, id)' <=> \E i \in 1..(Len(Line(id)) - 1) : Line(id)[i + 1] = v
        BY <1>7 DEF Waiting
      <4>2. Waiting(v, id) <=> \E i \in 1..Len(Line(id)) : Line(id)[i] = v
        BY <1>7 DEF Waiting
      <4>3. \A i \in 1..Len(Line(id)) : i = 1 \/ (i - 1 \in 1..(Len(Line(id)) - 1) /\ (i - 1) + 1 = i)
        BY <1>4
      <4>4. \A i \in 1..(Len(Line(id)) - 1) : i + 1 \in 1..Len(Line(id)) /\ i + 1 # 1
        BY <1>4
      <4>5. 1 \in 1..Len(Line(id))
        BY <1>4
      <4>6. \A i \in 1..(Len(Line(id)) - 1) : Line(id)[i + 1] # u
        BY <1>4, <1>8, <4>4, <4>5
      <4>7. Waiting(v, id)' <=> Waiting(v, id) /\ v # u
        BY <1>4, <4>1, <4>2, <4>3, <4>4, <4>6
      <4>. QED BY <1>1, <1>5, <1>6, <3>2, <4>7
    <3>. QED BY <3>1, <3>2
  <2>2. ASSUME NEW s \in Id, NEW i \in DOMAIN Line(s)', NEW j \in DOMAIN Line(s)',
               Line(s)'[i] = Line(s)'[j]
        PROVE  i = j
    <3>1. CASE s # id
      BY <1>2, <2>2, <3>1 DEF SemInv, SleepersQueued
    <3>2. CASE s = id
      <4>1. /\ i + 1 \in 1..Len(Line(id)) /\ j + 1 \in 1..Len(Line(id)) /\ i \in Int /\ j \in Int
            /\ Line(id)[i + 1] = Line(id)[j + 1]
        BY <1>4, <1>7, <2>2, <3>2
      <4>2. i + 1 = j + 1
        BY <1>8, <4>1
      <4>. QED BY <4>1, <4>2
    <3>. QED BY <3>1, <3>2
  <2>3. ASSUME NEW s \in Id, IsSem(s)
        PROVE  queue'[s].count = IF count'[s] < 0 THEN -count'[s] ELSE 0
    <3>1. CASE s # id
      BY <1>1, <1>2, <2>3, <3>1 DEF SemInv, SleepersQueued
    <3>2. CASE s = id
      BY <1>1, <1>2, <1>4, <1>5, <3>2
    <3>. QED BY <3>1, <3>2
  <2>. QED BY <1>3, <2>1, <2>2, <2>3 DEF SleepersQueued
<1>15. MutualExclusion'
  <2> SUFFICES ASSUME NEW s \in lock
               PROVE  /\ \A v, w \in Task : s \in has'[v] /\ s \in has'[w] => v = w
                      /\ count'[s] = 1 <=> \A v \in Task : s \notin has'[v]
    BY DEF MutualExclusion
  <2>1. CASE s # id
    <3>1. s \in Id /\ count'[s] = count[s] /\ \A v \in Task : s \in has'[v] <=> s \in has[v]
      BY <1>1, <1>10, <2>1 DEF TypeOK
    <3>. QED BY <3>1 DEF SemInv, MutualExclusion
  <2>2. CASE s = id
    <3>1. \A v \in Task : id \in has[v] <=> v = t
      BY <2>2, ReleasedLock
    <3>2. \A v \in Task : id \in has'[v] <=> v = u
      BY <1>9, <1>10, <2>2, <3>1
    <3>3. count'[id] # 1
      BY <1>1, <1>5
    <3>. QED BY <1>5, <2>2, <3>2, <3>3
  <2>. QED BY <2>1, <2>2
<1>. QED BY <1>2, <1>3, <1>5, <1>11, <1>12, <1>13, <1>14, <1>15 DEF SemInv

LEMMA ReleaseSound ==
  ASSUME SemInv, NEW t \in Task, NEW id \in Id, sem_release(t, id)
  PROVE  SemInv'
<1>1. /\ state[t] = "READY" /\ IsSem(id) /\ MayRelease(t, id)
      /\ count' = [count EXCEPT ![id] = @ + 1]
      /\ has' = Passed(t, HeadData(id), id)
      /\ UNCHANGED <<lock, sleeping_on, rtype, rfree>>
  BY DEF sem_release
<1>2. CASE Wake(id)
  BY <1>1, <1>2, GiveSound
<1>3. CASE HeadData(id) = NULL /\ UNCHANGED <<state, queueVars>>
  BY <1>1, <1>3, KeepSound DEF taskVars
<1>. QED BY <1>2, <1>3 DEF sem_release

LEMMA SemNextSound == SemInv /\ [Next]_vars => SemInv'
<1> SUFFICES ASSUME SemInv, [Next]_vars PROVE SemInv'
  OBVIOUS
<1>1. ASSUME NEW t \in Task, NEW n \in {0, 1}, sem_create(t, n) PROVE SemInv'
  BY <1>1, CreateSound
<1>2. ASSUME NEW t \in Task, NEW id \in Id, sem_acquire(t, id) PROVE SemInv'
  BY <1>2, AcquireSound
<1>3. ASSUME NEW t \in Task, NEW id \in Id, sem_release(t, id) PROVE SemInv'
  BY <1>3, ReleaseSound
<1>4. CASE UNCHANGED vars
  <2>1. QueueInv'
    BY <1>4 DEF vars, SemInv, QueueInv, QueueTypeOK, Chained, queueVars
  <2>2. RsrcInv'
    BY <1>4 DEF vars, SemInv, RsrcInv, RsrcTypeOK, FreeListSound
  <2>3. TypeOK'
    BY <1>4, <2>1, <2>2 DEF vars, SemInv, TypeOK, QueueInv, RsrcInv, semVars, taskVars
  <2>5. Fresh' /\ Locks'
    BY <1>4 DEF vars, SemInv, Fresh, Locks, IsSem, IsLive, queueVars, semVars, taskVars
  <2>4. \A t \in Task, id \in Id : Waiting(t, id)' <=> Waiting(t, id)
    BY <1>4 DEF vars, Waiting, Line, queueVars
  <2>8. \A id \in Id : Line(id)' = Line(id)
    BY <1>4 DEF vars, Line, queueVars
  <2>6. SleepersQueued'
    BY <1>4, <2>4, <2>8 DEF vars, SemInv, SleepersQueued, IsSem, IsLive, semVars, taskVars, queueVars
  <2>7. MutualExclusion'
    BY <1>4 DEF vars, SemInv, MutualExclusion, IsSem, IsLive, semVars, taskVars
  <2>. QED BY <2>6, <2>7, <2>1, <2>2, <2>3, <2>4, <2>5 DEF SemInv
<1>. QED BY <1>1, <1>2, <1>3, <1>4 DEF Next

\* What the proofs of Spec's properties share.
LEMMA SemInvAlways == Spec => []SemInv
BY SemInitSound, SemNextSound, PTL DEF Spec

\* The kernel's queues of waiters are chains in order of arrival, whatever
\* blocks their nodes are made of (queue.c:42-83 as called from sem.c).
THEOREM ChainedAlways == Spec => []Chained
<1>1. SemInv => Chained
  BY DEF SemInv, QueueInv
<1>. QED BY <1>1, SemInvAlways, PTL

\* A thread is in the queue of a semaphore, once, exactly while it sleeps on
\* it, and a negative count is the number of the sleepers (sem.c:28-63).
THEOREM SleepersAlwaysQueued == Spec => []SleepersQueued
<1>1. SemInv => SleepersQueued
  BY DEF SemInv
<1>. QED BY <1>1, SemInvAlways, PTL

\* A semaphore created with 1 and released only by the thread that has it is a
\* lock, however many threads wait for it and however it is passed on.
THEOREM AlwaysMutuallyExclusive == Spec => []MutualExclusion
<1>1. SemInv => MutualExclusion
  BY DEF SemInv
<1>. QED BY <1>1, SemInvAlways, PTL

-----------------------------------------------------------------------------
absVars == <<[id \in Id |-> IsSem(id)],
             [id \in Id |-> IF count[id] > 0 THEN count[id] ELSE 0],
             [id \in Id |-> Line(id)]>>

LEMMA AbstractInit == Init => Abstract!Init
<1> SUFFICES ASSUME Init PROVE Abstract!Init
  OBVIOUS
<1>1. \A id \in Id : ~IsSem(id) /\ count[id] = 0
  BY DEF Init, RsrcInit, IsSem, IsLive
<1>2. \A id \in Id : Line(id) = <<>>
  <2> SUFFICES ASSUME NEW id \in Id PROVE Line(id) = <<>>
    OBVIOUS
  <2>1. SemInv
    BY SemInitSound
  <2>. QED BY <1>1, <2>1, LinesSound
<1>3. [id \in Id |-> IsSem(id)] = [id \in Id |-> FALSE]
  BY <1>1 DEF IsSem, IsLive
<1>4. [id \in Id |-> IF count[id] > 0 THEN count[id] ELSE 0] = [id \in Id |-> 0]
  BY <1>1
<1>5. [id \in Id |-> Line(id)] = [id \in Id |-> <<>>]
  BY <1>2
<1>. QED BY <1>3, <1>4, <1>5 DEF Abstract!Init

LEMMA AbstractCreate ==
  ASSUME SemInv, NEW t \in Task, NEW n \in {0, 1}, sem_create(t, n)
  PROVE  \E s \in Id : Abstract!Create(s)
<1>1. PICK s \in Id : s = NewId
  BY CreateEffect
<1>2. /\ ~IsSem(s) /\ rtype' = [rtype EXCEPT ![s] = "SEM"] /\ rtype \in [Id -> Kind \cup {"NONE"}]
      /\ \A id \in Id : Line(id)' = Line(id)
  BY <1>1, CreateEffect DEF SemInv, RsrcInv, RsrcTypeOK
<1>3. count' = [count EXCEPT ![s] = n] /\ count \in [Id -> Int] /\ count[s] = 0
  BY <1>1, <1>2 DEF sem_create, SemInv, TypeOK, Fresh
<1>. DEFINE open == [id \in Id |-> IsSem(id)]
            permits == [id \in Id |-> IF count[id] > 0 THEN count[id] ELSE 0]
<1>4. ~open[s] /\ open' = [open EXCEPT ![s] = TRUE]
  BY <1>2 DEF IsSem, IsLive
<1>5. permits'[s] \in Nat /\ permits' = [permits EXCEPT ![s] = permits'[s]]
  <2>1. permits'[s] = n
    BY <1>3
  <2>2. \A id \in Id : id # s => permits'[id] = permits[id]
    BY <1>3
  <2>3. permits' = [permits EXCEPT ![s] = n]
    BY <2>1, <2>2
  <2>4. n \in Nat
    OBVIOUS
  <2>. QED BY <2>1, <2>3, <2>4, Zenon
<1>6. [id \in Id |-> Line(id)]' = [id \in Id |-> Line(id)]
  BY <1>2
<1>7. Abstract!Create(s)
  BY <1>4, <1>5, <1>6, Zenon DEF Abstract!Create
<1>. QED BY <1>7, Zenon

\* Nobody who runs waits.
LEMMA ReadyDoesNotWait ==
  ASSUME SemInv, NEW t \in Task, state[t] = "READY"
  PROVE  ~Abstract!Waits(t)
<1>1. \A s \in Id : ~Waiting(t, s)
  BY DEF SemInv, SleepersQueued
<1>2. \A s \in Id : DOMAIN Line(s) = 1..Len(Line(s))
  BY LinesSound
<1>. QED BY <1>1, <1>2 DEF Waiting, Abstract!Waits

LEMMA AbstractAcquire ==
  ASSUME SemInv, NEW t \in Task, NEW id \in Id, sem_acquire(t, id)
  PROVE  Abstract!Take(t, id) \/ Abstract!Join(t, id)
<1>. DEFINE open == [s \in Id |-> IsSem(s)]
            permits == [s \in Id |-> IF count[s] > 0 THEN count[s] ELSE 0]
            line == [s \in Id |-> Line(s)]
<1>1. /\ state[t] = "READY" /\ IsSem(id) /\ MayAcquire(t, id)
      /\ count' = [count EXCEPT ![id] = @ - 1] /\ count \in [Id -> Int]
      /\ UNCHANGED <<lock, rtype, rfree>>
  BY DEF sem_acquire, SemInv, TypeOK
<1>2. open[id] /\ open' = open
  BY <1>1 DEF IsSem, IsLive
<1>3. ~Abstract!Waits(t)
  BY <1>1, ReadyDoesNotWait
<1>4. CASE count[id] > 0 /\ has' = Gets(t, id) /\ UNCHANGED <<taskVars, queueVars>>
  <2>1. permits[id] > 0 /\ permits' = [permits EXCEPT ![id] = @ - 1]
    <3>1. permits[id] = count[id] /\ permits'[id] = count[id] - 1
      BY <1>1, <1>4
    <3>2. \A s \in Id : s # id => permits'[s] = permits[s]
      BY <1>1
    <3>. QED BY <1>4, <3>1, <3>2
  <2>2. line' = line
    BY <1>4 DEF Line, queueVars
  <2>3. Abstract!Take(t, id)
    BY <1>2, <1>3, <2>1, <2>2, Zenon DEF Abstract!Take
  <2>. QED BY <2>3
<1>5. CASE /\ count[id] =< 0
           /\ queue_addTail(id, t)
           /\ sleeping_on' = [sleeping_on EXCEPT ![t] = id]
           /\ state' = [state EXCEPT ![t] = "SLEEP_SEM"]
           /\ UNCHANGED has
  <2>1. /\ Line(id)' = Append(Line(id), t)
        /\ \A s \in Id : s # id => Line(s)' = Line(s)
    BY <1>1, <1>5, JoinSound
  <2>2. line' = [line EXCEPT ![id] = Append(@, t)]
    BY <2>1
  <2>3. permits[id] = 0 /\ permits' = permits
    BY <1>1, <1>5
  <2>4. Abstract!Join(t, id)
    BY <1>2, <1>3, <2>2, <2>3, Zenon DEF Abstract!Join
  <2>. QED BY <2>4
<1>. QED BY <1>4, <1>5 DEF sem_acquire

LEMMA AbstractRelease ==
  ASSUME SemInv, NEW t \in Task, NEW id \in Id, sem_release(t, id)
  PROVE  Abstract!Give(id) \/ Abstract!Keep(id)
<1>. DEFINE open == [s \in Id |-> IsSem(s)]
            permits == [s \in Id |-> IF count[s] > 0 THEN count[s] ELSE 0]
            line == [s \in Id |-> Line(s)]
<1>1. /\ state[t] = "READY" /\ IsSem(id) /\ MayRelease(t, id)
      /\ count' = [count EXCEPT ![id] = @ + 1] /\ count \in [Id -> Int]
      /\ has' = Passed(t, HeadData(id), id)
      /\ UNCHANGED <<lock, sleeping_on, rtype, rfree>>
  BY DEF sem_release, SemInv, TypeOK
<1>2. open[id] /\ open' = open
  BY <1>1 DEF IsSem, IsLive
<1>3. CASE Wake(id)
  <2>1. /\ Line(id) # <<>> /\ Line(id)' = Tail(Line(id)) /\ count[id] < 0
        /\ \A s \in Id : s # id => Line(s)' = Line(s)
    BY <1>1, <1>3, GiveSound
  <2>2. line[id] # <<>> /\ line' = [line EXCEPT ![id] = Tail(@)]
    BY <2>1
  <2>3. permits' = permits
    BY <1>1, <2>1
  <2>4. Abstract!Give(id)
    BY <1>2, <2>2, <2>3, Zenon DEF Abstract!Give
  <2>. QED BY <2>4
<1>4. CASE HeadData(id) = NULL /\ UNCHANGED <<state, queueVars>>
  <2>1. Line(id) = <<>> /\ count[id] >= 0
    BY <1>1, <1>4, KeepSound DEF taskVars
  <2>2. line[id] = <<>> /\ line' = line
    BY <1>4, <2>1 DEF Line, queueVars
  <2>3. permits' = [permits EXCEPT ![id] = @ + 1]
    <3>1. permits[id] = count[id] /\ permits'[id] = count[id] + 1
      BY <1>1, <2>1
    <3>2. \A s \in Id : s # id => permits'[s] = permits[s]
      BY <1>1
    <3>. QED BY <3>1, <3>2
  <2>4. Abstract!Keep(id)
    BY <1>2, <2>2, <2>3, Zenon DEF Abstract!Keep
  <2>. QED BY <2>4
<1>. QED BY <1>3, <1>4 DEF sem_release

LEMMA AbstractNext == SemInv /\ [Next]_vars => [Abstract!Next]_absVars
<1> SUFFICES ASSUME SemInv, [Next]_vars PROVE [Abstract!Next]_absVars
  OBVIOUS
<1>1. ASSUME NEW t \in Task, NEW n \in {0, 1}, sem_create(t, n) PROVE Abstract!Next
  BY <1>1, AbstractCreate, Zenon DEF Abstract!Next
<1>2. ASSUME NEW t \in Task, NEW id \in Id, sem_acquire(t, id) PROVE Abstract!Next
  BY <1>2, AbstractAcquire, Zenon DEF Abstract!Next
<1>3. ASSUME NEW t \in Task, NEW id \in Id, sem_release(t, id) PROVE Abstract!Next
  BY <1>3, AbstractRelease, Zenon DEF Abstract!Next
<1>4. CASE UNCHANGED vars
  BY <1>4 DEF vars, absVars, IsSem, IsLive, Line, queueVars, semVars
<1>. QED BY <1>1, <1>2, <1>3, <1>4, Zenon DEF Next

\* Every behaviour of sem_create, sem_acquire and sem_release is one of
\* first-come-first-served counting semaphores.
THEOREM SemImplementsSemaphore == Spec => ImplementsSemaphore
<1>1. SemInv /\ [Next]_vars => [Abstract!Next]_Abstract!vars
  BY AbstractNext DEF absVars, Abstract!vars
<1>. QED BY <1>1, AbstractInit, SemInvAlways, PTL DEF Spec, ImplementsSemaphore, Abstract!Spec
=============================================================================
