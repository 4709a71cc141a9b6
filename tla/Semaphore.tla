------------------------------ MODULE Semaphore ------------------------------
(***************************************************************************)
(* What semaphores promise: a semaphore is a number of permits and a line  *)
(* of clients.  A client takes a permit or joins the end of the line; a    *)
(* permit given back goes to the first of the line and nobody else, and is *)
(* kept only when nobody waits.  Semaphores are never closed.              *)
(***************************************************************************)
EXTENDS Integers, Sequences

CONSTANTS
  Name,       \* semaphore names
  Client      \* threads

VARIABLES
  open,       \* open[s]: s has been created
  permits,    \* permits[s]: permits nobody has
  line        \* line[s]: clients waiting for one

vars == <<open, permits, line>>

Waits(c) == \E s \in Name : \E i \in 1..Len(line[s]) : line[s][i] = c

Init ==
  /\ open = [s \in Name |-> FALSE]
  /\ permits = [s \in Name |-> 0]
  /\ line = [s \in Name |-> <<>>]

Create(s) ==
  /\ ~open[s]
  /\ open' = [open EXCEPT ![s] = TRUE]
  /\ permits'[s] \in Nat
  /\ permits' = [permits EXCEPT ![s] = permits'[s]]
  /\ UNCHANGED line

Take(c, s) ==
  /\ open[s] /\ ~Waits(c)
  /\ permits[s] > 0
  /\ permits' = [permits EXCEPT ![s] = @ - 1]
  /\ UNCHANGED <<open, line>>

Join(c, s) ==
  /\ open[s] /\ ~Waits(c)
  /\ permits[s] = 0
  /\ line' = [line EXCEPT ![s] = Append(@, c)]
  /\ UNCHANGED <<open, permits>>

Give(s) ==
  /\ open[s]
  /\ line[s] # <<>>
  /\ line' = [line EXCEPT ![s] = Tail(@)]
  /\ UNCHANGED <<open, permits>>

Keep(s) ==
  /\ open[s]
  /\ line[s] = <<>>
  /\ permits' = [permits EXCEPT ![s] = @ + 1]
  /\ UNCHANGED <<open, line>>

Next ==
  \E s \in Name :
    \/ Create(s)
    \/ \E c \in Client : Take(c, s) \/ Join(c, s)
    \/ Give(s)
    \/ Keep(s)

Spec == Init /\ [][Next]_vars
=============================================================================
