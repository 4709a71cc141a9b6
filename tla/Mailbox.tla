------------------------------- MODULE Mailbox -------------------------------
(***************************************************************************)
(* What message ports promise, without slaves, reference counts or thread  *)
(* states: each open mailbox has one holder, a step changes at most one    *)
(* mailbox, a message joins at the tail and leaves at the head, and only   *)
(* the holder takes messages.  A holder that finds its mailbox empty is    *)
(* blocked, and the call that blocked it ends in no other way than by      *)
(* taking a message from that mailbox, which cannot be closed meanwhile.   *)
(***************************************************************************)
EXTENDS Integers, Sequences

CONSTANTS
  Box,       \* mailbox names
  Client,    \* threads
  Msg        \* messages

VARIABLES
  holder,    \* holder[b]: the client that opened b, 0 if b is closed
  box,       \* box[b]: messages not yet taken
  blocked    \* blocked[c]: the mailbox c waits on, 0 if none

vars == <<holder, box, blocked>>

Init ==
  /\ holder \in [Box -> Client \cup {0}]
  /\ box = [b \in Box |-> <<>>]
  /\ blocked = [c \in Client |-> 0]

Open(c, b) ==
  /\ blocked[c] = 0
  /\ holder[b] = 0
  /\ holder' = [holder EXCEPT ![b] = c]
  /\ UNCHANGED <<box, blocked>>

Close(c, b) ==
  /\ blocked[c] = 0
  /\ holder[b] = c
  /\ holder' = [holder EXCEPT ![b] = 0]
  /\ box' = [box EXCEPT ![b] = <<>>]
  /\ UNCHANGED blocked

Put(b, m) ==
  /\ holder[b] # 0
  /\ box' = [box EXCEPT ![b] = Append(@, m)]
  /\ UNCHANGED <<holder, blocked>>

Block(c, b) ==
  /\ blocked[c] = 0
  /\ holder[b] = c
  /\ box[b] = <<>>
  /\ blocked' = [blocked EXCEPT ![c] = b]
  /\ UNCHANGED <<holder, box>>

Take(c, b) ==
  /\ blocked[c] \in {0, b}
  /\ holder[b] = c
  /\ box[b] # <<>>
  /\ box' = [box EXCEPT ![b] = Tail(@)]
  /\ blocked' = [blocked EXCEPT ![c] = 0]
  /\ UNCHANGED holder

Next ==
  \/ \E c \in Client, b \in Box : Open(c, b) \/ Close(c, b) \/ Block(c, b) \/ Take(c, b)
  \/ \E b \in Box, m \in Msg : Put(b, m)

Spec == Init /\ [][Next]_vars
=============================================================================
