------------------------------ MODULE Resource ------------------------------
(***************************************************************************)
(* The kernel's resource table (src/kernel/resource.c): every thread,      *)
(* port and semaphore a process can name is an index of rmap, handed out   *)
(* from a LIFO free list.  Here the list is the sequence of the free ids   *)
(* in the order rsrc_new would issue them; ResourceTable.tla refines it to *)
(* the chain of "next" links the code threads through the free entries.    *)
(***************************************************************************)
EXTENDS Integers, Sequences

CONSTANT RMax   \* rmax: number of entries of rmap, entry 0 included

ASSUME RMaxAssumption == RMax \in Nat \ {0, 1}

VARIABLES
  rtype,        \* rmap[id].type
  rfree         \* the free list, in issuing order

rsrcVars == <<rtype, rfree>>

Id   == 1..(RMax - 1)        \* ids that can be issued: rfree starts at 1
Kind == {"TASK", "PORT", "SEM"}

RsrcInit ==
  /\ rtype = [id \in Id |-> "NONE"]
  /\ rfree = [i \in Id |-> i]

\* rsrc_find: entry 0 is never issued, so its type is always RSRC_NONE.
IsLive(kind, id) == id \in Id /\ rtype[id] = kind

\* The value rsrc_new returns: 0 when the table is full.
NewId == IF rfree = <<>> THEN 0 ELSE Head(rfree)

\* Faulty variant of rsrc_new: rfree is not advanced.
rsrc_new_Stuck(kind) ==
  IF rfree = <<>>
  THEN UNCHANGED rsrcVars
  ELSE /\ rtype' = [rtype EXCEPT ![Head(rfree)] = kind]
       /\ rfree' = rfree

rsrc_new(kind) ==
  IF rfree = <<>>
  THEN UNCHANGED rsrcVars
  ELSE /\ rtype' = [rtype EXCEPT ![Head(rfree)] = kind]
       /\ rfree' = Tail(rfree)

\* The freed id goes to the front: it is the next one issued.
rsrc_del(id) ==
  IF id \in Id /\ rtype[id] # "NONE"
  THEN /\ rtype' = [rtype EXCEPT ![id] = "NONE"]
       /\ rfree' = <<id>> \o rfree
  ELSE UNCHANGED rsrcVars

RsrcNext ==
  \/ \E kind \in Kind : rsrc_new(kind)
  \/ \E id \in 0..RMax : rsrc_del(id)

RsrcSpec == RsrcInit /\ [][RsrcNext]_rsrcVars

-----------------------------------------------------------------------------
RsrcTypeOK ==
  /\ rtype \in [Id -> Kind \cup {"NONE"}]
  /\ rfree \in Seq(Id)

\* The free list holds exactly the unissued ids, each once: rsrc_new never
\* hands out an id that is in use, and no id is ever lost by rsrc_new/rsrc_del.
FreeListSound ==
  /\ \A id \in Id : rtype[id] = "NONE" <=> \E i \in 1..Len(rfree) : rfree[i] = id
  /\ \A i, j \in 1..Len(rfree) : rfree[i] = rfree[j] => i = j
=============================================================================
