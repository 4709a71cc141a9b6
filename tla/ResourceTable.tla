---------------------------- MODULE ResourceTable ----------------------------
(***************************************************************************)
(* rmap as src/kernel/resource.c lays it out: an array of entries, each a  *)
(* type and one word that is the object's pointer while the entry is in    *)
(* use and the index of the next free entry while it is not.  rfree is the *)
(* index of the first free entry, 0 at the end of the chain.               *)
(***************************************************************************)
EXTENDS Integers, FiniteSets

CONSTANT RMax

ASSUME TableAssumption == RMax \in Nat \ {0, 1}

VARIABLES
  rmap,     \* 0..RMax-1 -> [type, r]; r is the union {data, next}
  rfree     \* index of the first free entry

vars == <<rmap, rfree>>

Index == 0..(RMax - 1)
Kind  == {"TASK", "PORT", "SEM"}
Data  == -1     \* any object pointer: no property tells them apart

\* rsrc_init: entry 0 is linked to entry 1 too, but rfree starts at 1.
Init ==
  /\ rmap = [i \in Index |->
               [type |-> "NONE", r |-> IF i = RMax - 1 THEN 0 ELSE i + 1]]
  /\ rfree = 1

\* rsrc_find returns data, NULL when the id is out of range or of another type.
rsrc_find(type, id) == id < RMax /\ rmap[id].type = type

rsrc_new(type) ==
  \/ /\ rfree # 0
     /\ rfree' = rmap[rfree].r
     /\ rmap' = [rmap EXCEPT ![rfree] = [type |-> type, r |-> Data]]
  \/ /\ rfree = 0
     /\ UNCHANGED vars

\* Faulty variant of rsrc_del: the rest of the chain is dropped.
rsrc_del_Cut(id) ==
  /\ id < RMax
  /\ rmap[id].type # "NONE"
  /\ rmap' = [rmap EXCEPT ![id] = [type |-> "NONE", r |-> 0]]
  /\ rfree' = id

rsrc_del(id) ==
  /\ id < RMax
  /\ rmap[id].type # "NONE"
  /\ rmap' = [rmap EXCEPT ![id] = [type |-> "NONE", r |-> rfree]]
  /\ rfree' = id

Next ==
  \/ \E type \in Kind : rsrc_new(type)
  \/ \E id \in 0..RMax : rsrc_del(id)

Spec == Init /\ [][Next]_vars

-----------------------------------------------------------------------------
\* The chain read off the links, 0 once it has ended.  It is cut at RMax links, so
\* that a cycle shows as a repeated id and not as a walk that never ends.
Link[k \in 0..RMax] ==
  IF k = 0 THEN rfree ELSE IF Link[k - 1] \in 1..(RMax - 1) THEN rmap[Link[k - 1]].r ELSE 0

FreeChain == [k \in 1..Cardinality({k \in 0..RMax : Link[k] # 0}) |-> Link[k - 1]]

Abstract == INSTANCE Resource
  WITH rtype <- [i \in 1..(RMax - 1) |-> rmap[i].type], rfree <- FreeChain

\* Each rsrc_new and rsrc_del on the array is the same operation on the
\* abstract table: the links never lose, duplicate or reorder a free id.
ImplementsResource == Abstract!RsrcSpec

TypeOK ==
  /\ rmap \in [Index -> [type : Kind \cup {"NONE"}, r : Index \cup {Data}]]
  /\ rfree \in Index
=============================================================================
