-------------------------------- MODULE Ne2k --------------------------------
(***************************************************************************)
(* The NE2000 driver: three threads of one process (src/srv/ne2000/ne2k.c) *)
(* around the state machine of the card (src/srv/ne2000/ne2000.c).  main   *)
(* serves interrupts, sender transmits, control takes requests of other    *)
(* programs; dispatcher never gets a message.  The driver is modelled from *)
(* the end of its start-up.                                                *)
(*                                                                         *)
(* A user thread may lose the processor anywhere, so an action is one      *)
(* access to what the threads share.  A kernel call is one action:         *)
(* os_AcquireSem waits for a permit and takes it, which Sem.tla implements *)
(* with a queue of waiters.  The card takes steps of its own.              *)
(*                                                                         *)
(* A packet is its kind: "BAD" came in broken, "QUIET" asks for no answer, *)
(* "SMALL" and "LARGE" are to be sent, or ask for an answer, of up to or   *)
(* over MAX_LENGTH.                                                        *)
(***************************************************************************)
EXTENDS Integers, Sequences, FiniteSets

CONSTANTS
  NPbuf,      \* RINGSIZE - 1: pbufs in the ring, p_discard is not among them
  MaxLoad,    \* MAX_LOAD: rounds of nic_isr in one interrupt
  Kinds,      \* packets that occur
  Uninit,     \* what receive's use of its uninitialised variable may do:
              \* "RIGHT": the register still holds the argument,
              \* "FAULT": an address that is not mapped,
              \* "STALE": another pbuf, from an earlier use of the register
  RingPages,  \* pages the card has for received packets
  MaxFrames,  \* bound: packets that arrive
  MaxSends    \* bound: requests to send

ASSUME Ne2kAssumption ==
  /\ NPbuf \in Nat \ {0}
  /\ MaxLoad \in Nat
  /\ Kinds \subseteq {"BAD", "QUIET", "SMALL", "LARGE"}
  /\ Uninit \subseteq {"RIGHT", "FAULT", "STALE"}
  /\ RingPages \in Nat \ {0, 1}
  /\ MaxFrames \in Nat
  /\ MaxSends \in Nat

Pbuf == 1..NPbuf
NULL == 0
Thread == {"main", "sender", "control"}
Slot == 0..1    \* MAX_TX is 2

VARIABLES
  p_next, next,   \* the ring: a list of free pbufs
  sem,            \* permits of sem_ring, mutex and sem_xmit_done
  port_xmit,      \* pbufs queued at the port
  large,          \* queued pbufs whose pd.len is over MAX_LENGTH
  pc, ret,        \* where a thread is; where it returns to from the ring
  buf,            \* the pbuf a thread works on
  packet,         \* the received pbuf, while main makes the answer
  isr, loads,     \* main's copy of the interrupt status, rounds so far
  resend,         \* tx_status, then resend, of nic_overrun
  tx_packet, send, sending,   \* snic
  status,         \* the card: interrupt status register
  frames,         \* the card: received packets not read yet
  transmitting,   \* the card: NIC_TRANSMIT
  deaf,           \* the card: stopped, or in loopback
  arrived, asked, \* counters of MaxFrames, MaxSends
  dropped,        \* history: nic_isr has cleared a completion it did not serve
  stale           \* receive has taken another pbuf for the one it was given: what
                  \* pbufs hold, and how much, is no longer known

ringVars == <<p_next, next>>
mainVars == <<packet, isr, loads, resend>>
snicVars == <<tx_packet, send, sending>>
cardVars == <<status, frames, transmitting, deaf>>
countVars == <<arrived, asked, dropped, stale>>
vars == <<ringVars, sem, port_xmit, large, pc, ret, buf, mainVars, snicVars,
          cardVars, countVars>>

\* init_ring, the semaphores and ports of main and sender, nic_init, nic_start.
Init ==
  /\ p_next = NPbuf
  /\ next = [p \in Pbuf |-> p - 1]
  /\ sem = [ring |-> 1, mutex |-> 1, done |-> 0]
  /\ port_xmit = <<>>
  /\ large = {}
  /\ pc = [main |-> "sleep", sender |-> "recv", control |-> "recv"]
  /\ ret = [t \in Thread |-> "recv"]
  /\ buf = [t \in Thread |-> NULL]
  /\ packet = NULL /\ isr = {} /\ loads = 0 /\ resend = FALSE
  /\ tx_packet = [f \in Slot |-> NULL] /\ send = 0 /\ sending = FALSE
  /\ status = {} /\ frames = <<>> /\ transmitting = FALSE /\ deaf = FALSE
  /\ arrived = 0 /\ asked = 0 /\ dropped = FALSE /\ stale = FALSE

Goto(t, from, to) == pc[t] = from /\ pc' = [pc EXCEPT ![t] = to]
Call(t, from, sub, back) == Goto(t, from, sub) /\ ret' = [ret EXCEPT ![t] = back]

os_AcquireSem(s) == sem[s] > 0 /\ sem' = [sem EXCEPT ![s] = @ - 1]
os_ReleaseSem(s) == sem' = [sem EXCEPT ![s] = @ + 1]

-----------------------------------------------------------------------------
(* alloc_buffer_data and get_pbuf: "get", "take", "advance", "leave";        *)
(* free_buffer_data and free_buffer: "put", "link", "push", "leave"          *)

\* Faulty variant of RingEnter: sem_ring is not taken.
RingEnter_Open(t) ==
  /\ Goto(t, "get", "take") \/ Goto(t, "put", "link")
  /\ UNCHANGED <<sem, ringVars, port_xmit, large, ret, buf, mainVars, snicVars, cardVars, countVars>>

RingEnter(t) ==
  /\ Goto(t, "get", "take") \/ Goto(t, "put", "link")
  /\ os_AcquireSem("ring")
  /\ UNCHANGED <<ringVars, port_xmit, large, ret, buf, mainVars, snicVars, cardVars, countVars>>

\* With an empty ring alloc_buffer_data returns NULL and get_pbuf p_discard,
\* which is never queued, sent or freed: NULL stands for both.
RingTake(t) ==
  /\ Goto(t, "take", IF p_next = NULL THEN "leave" ELSE "advance")
  /\ buf' = [buf EXCEPT ![t] = p_next]
  /\ UNCHANGED <<ringVars, sem, port_xmit, large, ret, mainVars, snicVars, cardVars, countVars>>

RingAdvance(t) ==
  /\ Goto(t, "advance", "leave")
  /\ p_next' = next[buf[t]]
  /\ UNCHANGED <<next, sem, port_xmit, large, ret, buf, mainVars, snicVars, cardVars, countVars>>

RingLink(t) ==
  /\ Goto(t, "link", "push")
  /\ next' = [next EXCEPT ![buf[t]] = p_next]
  /\ UNCHANGED <<p_next, sem, port_xmit, large, ret, buf, mainVars, snicVars, cardVars, countVars>>

RingPush(t) ==
  /\ Goto(t, "push", "leave")
  /\ p_next' = buf[t]
  /\ buf' = [buf EXCEPT ![t] = NULL]
  /\ UNCHANGED <<next, sem, port_xmit, large, ret, mainVars, snicVars, cardVars, countVars>>

RingLeave(t) ==
  /\ Goto(t, "leave", ret[t])
  /\ os_ReleaseSem("ring")
  /\ UNCHANGED <<ringVars, port_xmit, large, ret, buf, mainVars, snicVars, cardVars, countVars>>

Ring(t) ==
  \/ RingEnter(t) \/ RingTake(t) \/ RingAdvance(t)
  \/ RingLink(t) \/ RingPush(t) \/ RingLeave(t)

\* xmit, for a packet of kind k in pbuf p: p_discard is dropped.
xmit(p, k) ==
  IF p = NULL THEN UNCHANGED <<port_xmit, large>>
  ELSE /\ port_xmit' = Append(port_xmit, p)
       /\ large' = IF k = "LARGE" THEN large \cup {p} ELSE large \ {p}

Lock(t, from, to) ==
  /\ Goto(t, from, to)
  /\ os_AcquireSem("mutex")
  /\ loads' = IF t = "main" THEN 0 ELSE loads
  /\ UNCHANGED <<ringVars, port_xmit, large, ret, buf, packet, isr, resend, snicVars, cardVars, countVars>>

Unlock(t, from, to) ==
  /\ Goto(t, from, to)
  /\ os_ReleaseSem("mutex")
  /\ UNCHANGED <<ringVars, port_xmit, large, ret, buf, mainVars, snicVars, cardVars, countVars>>

-----------------------------------------------------------------------------
(* main: nic_isr under mutex *)

\* The card holds its interrupt line up while status is not clear.
os_sleep_irq ==
  /\ Goto("main", "sleep", "lock")
  /\ status # {}
  /\ UNCHANGED <<ringVars, sem, port_xmit, large, ret, buf, mainVars, snicVars, cardVars, countVars>>

\* After MaxLoad rounds everything pending is acknowledged without service.
nic_isr ==
  /\ \/ /\ status = {}
        /\ Goto("main", "isr", "unlock")
        /\ UNCHANGED <<isr, loads, status, dropped>>
     \/ /\ status # {} /\ loads >= MaxLoad
        /\ Goto("main", "isr", "unlock")
        /\ dropped' = (dropped \/ status \cap {"PTX", "TXE"} # {})
        /\ status' = {}
        /\ UNCHANGED <<isr, loads>>
     \/ /\ status # {} /\ loads < MaxLoad
        /\ Goto("main", "isr", IF "OVW" \in status THEN "overrun"
                               ELSE IF "PRX" \in status THEN "rx" ELSE "tx")
        /\ isr' = status
        /\ loads' = loads + 1
        /\ UNCHANGED <<status, dropped>>
  /\ UNCHANGED <<ringVars, sem, port_xmit, large, ret, buf, packet, resend, snicVars, frames, transmitting, deaf, arrived, asked, stale>>

\* The head of the loop in nic_rx: all frames read, one of a wrong size or
\* status to pass over, or one to take a buffer for.
nic_rx ==
  /\ \/ frames = <<>> /\ Goto("main", "rx", "rxack") /\ UNCHANGED ret
     \/ /\ frames # <<>>
        /\ IF Head(frames) = "BAD"
           THEN Goto("main", "rx", "read") /\ UNCHANGED ret
           ELSE Call("main", "rx", "get", "receive")
  /\ UNCHANGED <<ringVars, sem, port_xmit, large, buf, mainVars, snicVars, cardVars, countVars>>

\* The pbufs that receive may take for the one it was given.
Taken == (IF "RIGHT" \in Uninit THEN {buf["main"]} ELSE {})
         \cup (IF "STALE" \in Uninit THEN Pbuf \ {buf["main"]} ELSE {})

\* receive reads its own variable packet before giving it a value, and serves
\* and frees what it finds there.  A fault ends the thread, with the mutex.
receive ==
  /\ \/ /\ buf["main"] = NULL
        /\ Goto("main", "receive", "read")
        /\ UNCHANGED <<ret, packet, buf, stale>>
     \/ /\ buf["main"] # NULL /\ "FAULT" \in Uninit
        /\ Goto("main", "receive", "dead")
        /\ UNCHANGED <<ret, packet, buf, stale>>
     \/ /\ buf["main"] # NULL
        /\ \E q \in Taken :
             /\ stale' = (stale \/ q # buf["main"])
             /\ \/ /\ Call("main", "receive", "put", "read")
                   /\ stale' \/ Head(frames) = "QUIET"
                   /\ buf' = [buf EXCEPT !["main"] = q]
                   /\ UNCHANGED packet
                \/ /\ Call("main", "receive", "get", "answer")
                   /\ stale' \/ Head(frames) # "QUIET"
                   /\ packet' = q
                   /\ buf' = [buf EXCEPT !["main"] = NULL]
  /\ UNCHANGED <<ringVars, sem, port_xmit, large, isr, loads, resend, snicVars, cardVars, arrived, asked, dropped>>

\* handle_arp, handle_icmp: the answer is queued, then the packet is freed.
Answer ==
  /\ Call("main", "answer", "put", "read")
  /\ \E k \in (IF stale THEN {"SMALL", "LARGE"} ELSE {Head(frames)}) : xmit(buf["main"], k)
  /\ buf' = [buf EXCEPT !["main"] = packet]
  /\ packet' = NULL
  /\ UNCHANGED <<ringVars, sem, isr, loads, resend, snicVars, cardVars, countVars>>

\* The end of the loop in nic_rx: the card may reuse the frame's memory.
FrameRead ==
  /\ Goto("main", "read", "rx")
  /\ frames' = Tail(frames)
  /\ UNCHANGED <<ringVars, sem, port_xmit, large, ret, buf, mainVars, snicVars, status, transmitting, deaf, countVars>>

\* Faulty variant of RxAck: every pending interrupt is acknowledged.
RxAck_All ==
  /\ Goto("main", "rxack", IF deaf THEN "restart" ELSE "tx")
  /\ status' = {}
  /\ UNCHANGED <<ringVars, sem, port_xmit, large, ret, buf, mainVars, snicVars, frames, transmitting, deaf, countVars>>

\* A packet that arrived since the last one was read is acknowledged with it.
RxAck ==
  /\ Goto("main", "rxack", IF deaf THEN "restart" ELSE "tx")
  /\ status' = status \ {"PRX"}
  /\ UNCHANGED <<ringVars, sem, port_xmit, large, ret, buf, mainVars, snicVars, frames, transmitting, deaf, countVars>>

\* nic_tx_err takes the command register for the transmit status; a bit that
\* NIC_DMA_DISABLE or NIC_REM_READ has set always makes it call nic_tx.
nic_tx ==
  /\ \/ /\ isr \cap {"PTX", "TXE"} = {}
        /\ Goto("main", "tx", "isr")
        /\ UNCHANGED <<ret, buf, status>>
     \/ /\ isr \cap {"PTX", "TXE"} # {}
        /\ status' = IF "PTX" \in isr THEN status ELSE status \ {"TXE"}
        /\ IF tx_packet[send] = NULL
           THEN Goto("main", "tx", "isr") /\ UNCHANGED <<ret, buf>>
           ELSE /\ Call("main", "tx", "put", "release")
                /\ buf' = [buf EXCEPT !["main"] = tx_packet[send]]
  /\ UNCHANGED <<ringVars, sem, port_xmit, large, mainVars, snicVars, frames, transmitting, deaf, countVars>>

\* The end of free_buffer: the sender may go on.
ReleaseDone ==
  /\ Goto("main", "release", "clear")
  /\ os_ReleaseSem("done")
  /\ UNCHANGED <<ringVars, port_xmit, large, ret, buf, mainVars, snicVars, cardVars, countVars>>

Used == {f \in Slot : tx_packet[f] # NULL}

\* The rest of nic_tx: the slot is free, a second packet is sent at once.
TxCleared ==
  /\ tx_packet' = [tx_packet EXCEPT ![send] = NULL]
  /\ IF Used \ {send} = {}
     THEN /\ Goto("main", "clear", "isr")
          /\ sending' = FALSE
          /\ UNCHANGED <<send, transmitting>>
     ELSE /\ Goto("main", "clear", IF transmitting THEN "stalled" ELSE "isr")
          /\ send' \in Used \ {send}
          /\ sending' = TRUE
          /\ transmitting' = TRUE
  /\ status' = status \ {"PTX"}
  /\ UNCHANGED <<ringVars, sem, port_xmit, large, ret, buf, mainVars, frames, deaf, countVars>>

\* nic_overrun: was the card sending when its ring ran over?
OverrunRead ==
  /\ Goto("main", "overrun", "stop")
  /\ resend' = transmitting
  /\ UNCHANGED <<ringVars, sem, port_xmit, large, ret, buf, packet, isr, loads, snicVars, cardVars, countVars>>

NIC_STOP ==
  /\ Goto("main", "stop", "idle")
  /\ deaf' = TRUE
  /\ UNCHANGED <<ringVars, sem, port_xmit, large, ret, buf, mainVars, snicVars, status, frames, transmitting, countVars>>

\* Faulty variant of OverrunWaited: a packet that was being sent is forgotten.
OverrunWaited_Forget ==
  /\ Goto("main", "idle", "rx")
  /\ ~transmitting
  /\ resend' = FALSE
  /\ UNCHANGED <<ringVars, sem, port_xmit, large, ret, buf, packet, isr, loads, snicVars, cardVars, countVars>>

\* Faulty variant of OverrunWaited: it is sent again even if it went out.
OverrunWaited_Again ==
  /\ Goto("main", "idle", "rx")
  /\ ~transmitting
  /\ UNCHANGED <<ringVars, sem, port_xmit, large, ret, buf, mainVars, snicVars, cardVars, countVars>>

\* The wait is as long as a packet takes to go out: the card has sent it or given
\* it up.  From here to the end of nic_rx the card is in loopback.
OverrunWaited ==
  /\ Goto("main", "idle", "rx")
  /\ ~transmitting
  /\ resend' = (resend /\ status \cap {"PTX", "TXE"} = {})
  /\ UNCHANGED <<ringVars, sem, port_xmit, large, ret, buf, packet, isr, loads, snicVars, cardVars, countVars>>

OverrunEnd ==
  /\ Goto("main", "restart", "tx")
  /\ status' = status \ {"OVW"}
  /\ deaf' = FALSE
  /\ transmitting' = resend
  /\ resend' = FALSE
  /\ UNCHANGED <<ringVars, sem, port_xmit, large, ret, buf, packet, isr, loads, snicVars, frames, countVars>>

Main ==
  \/ os_sleep_irq \/ Lock("main", "lock", "isr") \/ nic_isr \/ nic_rx \/ receive
  \/ Answer \/ FrameRead \/ RxAck \/ nic_tx \/ ReleaseDone \/ TxCleared
  \/ OverrunRead \/ NIC_STOP \/ OverrunWaited \/ OverrunEnd
  \/ Unlock("main", "unlock", "sleep")

-----------------------------------------------------------------------------
(* sender *)

SenderRecv ==
  /\ Goto("sender", "recv", "lock")
  /\ port_xmit # <<>>
  /\ buf' = [buf EXCEPT !["sender"] = Head(port_xmit)]
  /\ port_xmit' = Tail(port_xmit)
  /\ UNCHANGED <<ringVars, sem, large, ret, mainVars, snicVars, cardVars, countVars>>

\* A packet over MAX_LENGTH is refused and stays with the sender.  "stalled"
\* stands for the error branches after the test of the size.
nic_send_packet ==
  /\ \E long \in (IF stale THEN BOOLEAN ELSE {buf["sender"] \in large}) :
     IF long
     THEN /\ Goto("sender", "send", "unlock")
          /\ UNCHANGED <<buf, snicVars, transmitting>>
     ELSE IF Used = Slot \/ (~sending /\ transmitting)
     THEN /\ Goto("sender", "send", "stalled")
          /\ UNCHANGED <<buf, snicVars, transmitting>>
     ELSE LET f == IF 0 \in Used THEN 1 ELSE 0 IN
          /\ Goto("sender", "send", "unlock")
          /\ tx_packet' = [tx_packet EXCEPT ![f] = buf["sender"]]
          /\ buf' = [buf EXCEPT !["sender"] = NULL]
          /\ send' = IF sending THEN send ELSE f
          /\ sending' = TRUE
          /\ transmitting' = TRUE
  /\ UNCHANGED <<ringVars, sem, port_xmit, large, ret, mainVars, status, frames, deaf, countVars>>

AwaitDone ==
  /\ Goto("sender", "wait", "recv")
  /\ os_AcquireSem("done")
  /\ UNCHANGED <<ringVars, port_xmit, large, ret, buf, mainVars, snicVars, cardVars, countVars>>

Sender ==
  \/ SenderRecv \/ Lock("sender", "lock", "send") \/ nic_send_packet
  \/ Unlock("sender", "unlock", "wait") \/ AwaitDone

-----------------------------------------------------------------------------
(* control: NET_SEND *)

control ==
  /\ Call("control", "recv", "get", "fill")
  /\ asked < MaxSends
  /\ asked' = asked + 1
  /\ UNCHANGED <<ringVars, sem, port_xmit, large, buf, mainVars, snicVars, cardVars, arrived, dropped, stale>>

send_udp(k) ==
  /\ Goto("control", "fill", "recv")
  /\ xmit(buf["control"], k)
  /\ buf' = [buf EXCEPT !["control"] = NULL]
  /\ UNCHANGED <<ringVars, sem, ret, mainVars, snicVars, cardVars, countVars>>

Control == control \/ \E k \in Kinds \cap {"SMALL", "LARGE"} : send_udp(k)

-----------------------------------------------------------------------------
(* The card *)

\* Pages of the ring that unread frames fs take: a "LARGE" one takes more.
Pages(fs) == Len(fs) + Len(SelectSeq(fs, LAMBDA k : k = "LARGE"))

\* A frame for which there is no room left is lost.
Arrive(k) ==
  /\ ~deaf
  /\ arrived < MaxFrames
  /\ arrived' = arrived + 1
  /\ IF Pages(Append(frames, k)) =< RingPages
     THEN frames' = Append(frames, k) /\ status' = status \cup {"PRX"}
     ELSE status' = status \cup {"OVW"} /\ UNCHANGED frames
  /\ UNCHANGED <<ringVars, sem, port_xmit, large, pc, ret, buf, mainVars, snicVars, transmitting, deaf, asked, dropped, stale>>

Transmitted ==
  /\ transmitting
  /\ transmitting' = FALSE
  /\ \E i \in {"PTX", "TXE"} : status' = status \cup {i}
  /\ UNCHANGED <<ringVars, sem, port_xmit, large, pc, ret, buf, mainVars, snicVars, frames, deaf, countVars>>

\* A card that is stopped may give up what it is sending without a word.
Aborted ==
  /\ transmitting /\ deaf
  /\ transmitting' = FALSE
  /\ UNCHANGED <<ringVars, sem, port_xmit, large, pc, ret, buf, mainVars, snicVars, status, frames, deaf, countVars>>

Step(t) ==
  \/ Ring(t)
  \/ t = "main" /\ Main
  \/ t = "sender" /\ Sender
  \/ t = "control" /\ Control

Next ==
  \/ \E t \in Thread : Step(t)
  \/ \E k \in Kinds : Arrive(k)
  \/ Transmitted \/ Aborted

Spec == Init /\ [][Next]_vars

\* Ready threads run and a thread that waits for a semaphore gets it (ReadyRuns
\* of Sched.tla, LockGranted of Sem.tla); the card ends every transmission.
FairSpec ==
  /\ Spec
  /\ \A t \in Thread : SF_vars(Step(t))
  /\ WF_vars(Transmitted)

-----------------------------------------------------------------------------
(* Correctness *)

TypeOK ==
  /\ p_next \in Pbuf \cup {NULL}
  /\ next \in [Pbuf -> Pbuf \cup {NULL}]
  /\ sem \in [ring : 0..1, mutex : 0..1, done : 0..1]
  /\ port_xmit \in Seq(Pbuf)
  /\ large \subseteq Pbuf
  /\ pc \in [Thread -> STRING] /\ ret \in [Thread -> STRING]
  /\ buf \in [Thread -> Pbuf \cup {NULL}]
  /\ packet \in Pbuf \cup {NULL}
  /\ {isr, status} \subseteq SUBSET {"PRX", "PTX", "TXE", "OVW"}
  /\ loads \in 0..MaxLoad /\ resend \in BOOLEAN /\ deaf \in BOOLEAN
  /\ tx_packet \in [Slot -> Pbuf \cup {NULL}]
  /\ send \in Slot /\ sending \in BOOLEAN /\ transmitting \in BOOLEAN
  /\ frames \in Seq(Kinds)
  /\ arrived \in 0..MaxFrames /\ asked \in 0..MaxSends
  /\ dropped \in BOOLEAN /\ stale \in BOOLEAN

\* The pbuf reached from p_next in i steps.
Reached[i \in 0..NPbuf] ==
  IF i = 0 THEN p_next ELSE IF Reached[i - 1] = NULL THEN NULL ELSE next[Reached[i - 1]]
Free == {Reached[i] : i \in 0..NPbuf} \ {NULL}

\* main has given the packet in the slot it was sent from back to the ring.
SlotDone == \/ pc["main"] \in {"release", "clear"}
            \/ pc["main"] \in {"put", "link", "push", "leave"} /\ ret["main"] = "release"

\* Where a pbuf is: in the ring, queued, with a thread, or in a slot.
Places(p) ==
  (IF p \in Free THEN {<<"free">>} ELSE {})
  \cup {<<"port_xmit", i>> : i \in {j \in 1..Len(port_xmit) : port_xmit[j] = p}}
  \cup {<<"thread", t>> : t \in {u \in Thread : buf[u] = p /\ pc[u] # "advance"}}
  \cup (IF packet = p THEN {<<"packet">>} ELSE {})
  \cup {<<"slot", f>> : f \in {g \in Used : tx_packet[g] = p /\ ~(g = send /\ SlotDone)}}

\* Until receive takes another pbuf for the one it was given, the ring ends, and
\* every pbuf is in exactly one place: between them main, sender, control and the
\* card free none twice, use none after it was freed (ne2k.c:145-191), and lose
\* none.
BuffersAccounted ==
  ~stale =>
    /\ Reached[NPbuf] = NULL
    /\ \A p \in Pbuf : Cardinality(Places(p)) = 1

\* sem_xmit_done (ne2k.c:564) keeps the sender from handing over a packet while
\* one is in the card: nic_send_packet never meets a busy transmitter or a full
\* table (ne2000.c:342-345, 361-370).
OneTransmission ==
  pc["sender"] = "send" => Used = {} /\ ~sending /\ ~transmitting

\* While the sender waits for a packet the card has, its completion is on the
\* way: in the card, in the status register, in main's hands, or signalled, and
\* a packet that the card gave up when it was stopped will be sent again
\* (ne2000.c:420-434); but for an interrupt of more than MAX_LOAD rounds that
\* clears it unserved (ne2000.c:243-248) and the end of main.
CompletionPending ==
  pc["sender"] = "wait" /\ buf["sender"] = NULL =>
    \/ transmitting \/ resend \/ status \cap {"PTX", "TXE"} # {}
    \/ SlotDone \/ sem.done > 0
    \/ pc["main"] = "dead" \/ dropped

\* A packet queued for transmission comes back to the ring, unless the driver's
\* main thread has ended, receive has taken one packet for another, or a packet
\* over MAX_LENGTH or a completion that was cleared unserved has stopped the
\* sender.
QueuedIsFreed ==
  \A p \in Pbuf :
    (\E i \in 1..Len(port_xmit) : port_xmit[i] = p)
      ~> (p \in Free \/ pc["main"] = "dead" \/ dropped \/ stale \/ buf["sender"] \in large)

\* ne2000.c:279, "It is your responsibility to clean up the packet_buffer when
\* you are done calling this": so the sender does with one that is refused.
RefusedIsFreed ==
  \A p \in Pbuf : (buf["sender"] = p /\ p \in large) ~> p \in Free
=============================================================================
