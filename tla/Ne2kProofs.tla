----------------------------- MODULE Ne2kProofs -----------------------------
(***************************************************************************)
(* The transmission of the NE2000 driver (Ne2k.tla), for a ring of any      *)
(* size, any load limit and any traffic: its locks exclude, one packet at a *)
(* time is in the card, and a sender that waits has a completion coming     *)
(* (DriverInv), even once receive has taken one pbuf for another; until it  *)
(* has, every pbuf of the ring is in exactly one place (PbufInv), which is  *)
(* proved on top of it: the ring is a sequence without repetitions whose    *)
(* links `next' follow, and the pointers of the threads, the port's queue   *)
(* and the card's slots name the other pbufs, each once.                    *)
(***************************************************************************)
EXTENDS Ne2k, FiniteSetTheorems, WellFoundedInduction, TLAPS

Ringing == {"take", "advance", "link", "push", "leave"}

MainLabel ==
  {"sleep", "lock", "isr", "overrun", "stop", "idle", "rx", "get", "put", "receive", "dead",
   "answer", "read", "rxack", "restart", "tx", "release", "clear", "unlock"} \cup Ringing
Label == MainLabel \cup {"recv", "send", "wait", "fill"}

\* The program of each thread; none of them stalls.
Paths ==
  /\ pc \in [Thread -> Label] /\ ret \in [Thread -> Label]
  /\ pc["main"] \in MainLabel
  /\ pc["main"] \in {"get", "take", "advance"} => ret["main"] \in {"receive", "answer"}
  /\ pc["main"] \in {"put", "link", "push"} => ret["main"] \in {"read", "release"}
  /\ pc["main"] = "leave" => ret["main"] \in {"receive", "answer", "read", "release"}
  /\ pc["sender"] \in {"recv", "lock", "send", "unlock", "wait"}
  /\ pc["control"] \in {"recv", "get", "take", "advance", "leave", "fill"}
  /\ pc["control"] \in {"get", "take", "advance", "leave"} => ret["control"] = "fill"

\* sem_ring and mutex have a permit exactly while nobody is between acquiring and
\* releasing it, and one thread at a time is.
MainHolds == pc["main"] \notin {"sleep", "lock"}
SenderHolds == pc["sender"] \in {"send", "unlock"}
InRing(t) == pc[t] \in Ringing

Permits ==
  /\ sem \in [ring : 0..1, mutex : 0..1, done : 0..1]
  /\ sem.mutex = 1 <=> ~MainHolds /\ ~SenderHolds
  /\ ~(MainHolds /\ SenderHolds)
  /\ sem.ring = 1 <=> \A t \in Thread : ~InRing(t)
  /\ \A t, u \in Thread : InRing(t) /\ InRing(u) => t = u

\* What the threads work on is a pbuf where they need one.
Data ==
  /\ p_next \in Pbuf \cup {NULL}
  /\ next \in [Pbuf -> Pbuf \cup {NULL}]
  /\ port_xmit \in Seq(Pbuf)
  /\ buf \in [Thread -> Pbuf \cup {NULL}]
  /\ packet \in Pbuf \cup {NULL}
  /\ tx_packet \in [Slot -> Pbuf \cup {NULL}]
  /\ send \in Slot
  /\ \A t \in Thread : pc[t] \in {"advance", "link", "push"} => buf[t] # NULL
  /\ pc["main"] = "put" => buf["main"] # NULL
  /\ pc["main"] = "answer" => packet # NULL
  /\ pc["main"] \in {"get", "take", "advance", "leave"} /\ ret["main"] = "answer" => packet # NULL
  /\ pc["sender"] \in {"lock", "send"} => buf["sender"] # NULL

Completion == {"PTX", "TXE"}

\* The card is being restarted from "idle" to "restart".
Restarting ==
  /\ pc["main"] \in {"idle", "rx", "get", "put", "receive", "dead", "answer", "read",
                     "rxack", "restart"} \cup Ringing
  /\ ~SlotDone

\* A card that is stopped has given up its packet, or will have before main goes
\* on from "idle"; resend says so only then.
Overrun ==
  /\ deaf => Restarting
  /\ pc["main"] \in {"idle", "restart"} => deaf
  /\ deaf /\ pc["main"] # "idle" => ~transmitting
  /\ resend => deaf \/ pc["main"] = "stop"
  /\ resend /\ pc["main"] \notin {"stop", "idle"} => status \cap Completion = {}
  /\ transmitting /\ pc["main"] \in {"stop", "idle"} => resend

\* main is between nic_isr and nic_tx.
InRound == MainHolds /\ ~SlotDone /\ pc["main"] \notin {"isr", "unlock", "dead"}

\* Nothing is being sent ...
Idle ==
  /\ tx_packet[0] = NULL /\ tx_packet[1] = NULL /\ ~sending /\ ~transmitting /\ ~resend
  /\ status \cap Completion = {}
  /\ ~SlotDone
  /\ \/ sem.done = 0 /\ pc["sender"] \in {"recv", "lock", "send"}
     \/ sem.done = 0 /\ pc["sender"] \in {"unlock", "wait"} /\ buf["sender"] # NULL
     \/ sem.done = 1 /\ pc["sender"] = "wait" /\ buf["sender"] = NULL

Loaded == tx_packet[send] # NULL /\ tx_packet[1 - send] = NULL /\ sending

\* ... or one packet is, whose completion has not been served ...
InFlight ==
  /\ Loaded /\ ~SlotDone
  /\ sem.done = 0 /\ pc["sender"] \in {"unlock", "wait"} /\ buf["sender"] = NULL
  /\ \/ transmitting \/ resend \/ status \cap Completion # {}
     \/ pc["main"] = "dead" \/ dropped
  /\ transmitting => status \cap Completion = {}
  /\ ~(Completion \subseteq status)

\* ... or it is being served.
Serving ==
  /\ Loaded /\ SlotDone /\ ~transmitting /\ ~resend
  /\ "TXE" \notin status
  /\ \/ /\ pc["main"] # "clear" /\ sem.done = 0
        /\ pc["sender"] = "wait" /\ buf["sender"] = NULL
     \/ /\ pc["main"] = "clear" /\ sem.done = 1
        /\ pc["sender"] = "wait" /\ buf["sender"] = NULL
     \/ /\ pc["main"] = "clear" /\ sem.done = 0
        /\ pc["sender"] \in {"recv", "lock"}

Flow ==
  /\ Idle \/ InFlight \/ Serving
  /\ InRound => isr \cap Completion \subseteq status

\* The inductive invariant.
DriverInv == Paths /\ Permits /\ Data /\ Overrun /\ Flow

-----------------------------------------------------------------------------
(* One step per action and, under it, one per part of the invariant. *)

USE DEF ringVars, mainVars, snicVars, cardVars, countVars, Goto, Call, os_AcquireSem, os_ReleaseSem,
        Thread, NULL, Slot

LEMMA XmitTyped ==
  ASSUME NEW p \in Pbuf \cup {NULL}, NEW k, port_xmit \in Seq(Pbuf), xmit(p, k)
  PROVE  port_xmit' \in Seq(Pbuf)
BY DEF xmit

\* The ring moves the buffer of its caller and leaves the card alone.
LEMMA RingKeeps ==
  ASSUME DriverInv, NEW t \in Thread, Ring(t)
  PROVE  DriverInv'
<1>1. ASSUME RingEnter(t) PROVE DriverInv'
  <2>1. Paths'
    BY <1>1 DEF RingEnter, DriverInv, Paths, Label, MainLabel, Ringing
  <2>2. Permits'
    BY <1>1 DEF RingEnter, DriverInv, Paths, Ringing, Permits, MainHolds, SenderHolds, InRing
  <2>3. Data'
    BY <1>1 DEF RingEnter, DriverInv, Paths, Data
  <2>4. Overrun'
    BY <1>1 DEF RingEnter, DriverInv, Paths, Ringing, Overrun, Restarting, SlotDone
  <2>5. Flow'
    BY <1>1 DEF RingEnter, DriverInv, Paths, MainHolds, SlotDone, InRound, Idle, InFlight,
         Serving, Loaded, Flow
  <2>. QED BY <2>1, <2>2, <2>3, <2>4, <2>5 DEF DriverInv
<1>2. ASSUME RingTake(t) PROVE DriverInv'
  <2>1. Paths'
    BY <1>2 DEF RingTake, DriverInv, Paths, Label, MainLabel, Ringing
  <2>2. Permits'
    BY <1>2 DEF RingTake, DriverInv, Ringing, Permits, MainHolds, SenderHolds, InRing
  <2>3. Data'
    BY <1>2 DEF RingTake, DriverInv, Data
  <2>4. Overrun'
    BY <1>2 DEF RingTake, DriverInv, Paths, Ringing, Overrun, Restarting, SlotDone
  <2>5. Flow'
    BY <1>2 DEF RingTake, DriverInv, Paths, MainHolds, SlotDone, InRound, Idle, InFlight,
         Serving, Loaded, Flow
  <2>. QED BY <2>1, <2>2, <2>3, <2>4, <2>5 DEF DriverInv
<1>3. ASSUME RingAdvance(t) PROVE DriverInv'
  <2>1. Paths'
    BY <1>3 DEF RingAdvance, DriverInv, Paths, Label, MainLabel, Ringing
  <2>2. Permits'
    BY <1>3 DEF RingAdvance, DriverInv, Ringing, Permits, MainHolds, SenderHolds, InRing
  <2>3. Data'
    BY <1>3 DEF RingAdvance, DriverInv, Data
  <2>4. Overrun'
    BY <1>3 DEF RingAdvance, DriverInv, Paths, Ringing, Overrun, Restarting, SlotDone
  <2>5. Flow'
    BY <1>3 DEF RingAdvance, DriverInv, Paths, MainHolds, SlotDone, InRound, Idle, InFlight,
         Serving, Loaded, Flow
  <2>. QED BY <2>1, <2>2, <2>3, <2>4, <2>5 DEF DriverInv
<1>4. ASSUME RingLink(t) PROVE DriverInv'
  <2>1. Paths'
    BY <1>4 DEF RingLink, DriverInv, Paths, Label, MainLabel, Ringing
  <2>2. Permits'
    BY <1>4 DEF RingLink, DriverInv, Ringing, Permits, MainHolds, SenderHolds, InRing
  <2>3. Data'
    BY <1>4 DEF RingLink, DriverInv, Data
  <2>4. Overrun'
    BY <1>4 DEF RingLink, DriverInv, Ringing, Overrun, Restarting, SlotDone
  <2>5. Flow'
    BY <1>4 DEF RingLink, DriverInv, MainHolds, SlotDone, InRound, Idle, InFlight, Serving,
         Loaded, Flow
  <2>. QED BY <2>1, <2>2, <2>3, <2>4, <2>5 DEF DriverInv
<1>5. ASSUME RingPush(t) PROVE DriverInv'
  <2>1. Paths'
    BY <1>5 DEF RingPush, DriverInv, Paths, Label, MainLabel, Ringing
  <2>2. Permits'
    BY <1>5 DEF RingPush, DriverInv, Ringing, Permits, MainHolds, SenderHolds, InRing
  <2>3. Data'
    BY <1>5 DEF RingPush, DriverInv, Paths, Data
  <2>4. Overrun'
    BY <1>5 DEF RingPush, DriverInv, Ringing, Overrun, Restarting, SlotDone
  <2>5. Flow'
    BY <1>5 DEF RingPush, DriverInv, MainHolds, SlotDone, InRound, Idle, InFlight, Serving,
         Loaded, Flow
  <2>. QED BY <2>1, <2>2, <2>3, <2>4, <2>5 DEF DriverInv
<1>6. ASSUME RingLeave(t) PROVE DriverInv'
  <2>1. Paths'
    BY <1>6 DEF RingLeave, DriverInv, Paths, MainLabel
  <2>2. Permits'
    BY <1>6 DEF RingLeave, DriverInv, Paths, Ringing, Permits, MainHolds, SenderHolds, InRing
  <2>3. Data'
    BY <1>6 DEF RingLeave, DriverInv, Paths, Data
  <2>4. Overrun'
    BY <1>6 DEF RingLeave, DriverInv, Paths, Overrun, Restarting, SlotDone
  <2>5. Flow'
    BY <1>6 DEF RingLeave, DriverInv, Paths, MainHolds, SlotDone, InRound, Idle, InFlight,
         Serving, Loaded, Flow
  <2>. QED BY <2>1, <2>2, <2>3, <2>4, <2>5 DEF DriverInv
<1>. QED BY <1>1, <1>2, <1>3, <1>4, <1>5, <1>6 DEF Ring

\* main has mutex in its rounds: the sender is not in nic_send_packet.
LEMMA MainKeeps ==
  ASSUME DriverInv, Main
  PROVE  DriverInv'
<1>1. ASSUME Lock("main", "lock", "isr") PROVE DriverInv'
  <2>1. Paths'
    BY <1>1 DEF Lock, DriverInv, Paths, Label, MainLabel
  <2>2. Permits'
    BY <1>1 DEF Lock, DriverInv, Paths, Ringing, Permits, MainHolds, SenderHolds, InRing
  <2>3. Data'
    BY <1>1 DEF Lock, DriverInv, Data
  <2>4. Overrun'
    BY <1>1 DEF Lock, DriverInv, Ringing, Overrun, Restarting
  <2>5. Flow'
    BY <1>1 DEF Lock, DriverInv, Paths, SlotDone, InRound, Idle, InFlight, Serving, Loaded, Flow
  <2>. QED BY <2>1, <2>2, <2>3, <2>4, <2>5 DEF DriverInv
<1>2. ASSUME Unlock("main", "unlock", "sleep") PROVE DriverInv'
  <2>1. Paths'
    BY <1>2 DEF Unlock, DriverInv, Paths, Label, MainLabel
  <2>2. Permits'
    BY <1>2 DEF Unlock, DriverInv, Paths, Ringing, Permits, MainHolds, SenderHolds, InRing
  <2>3. Data'
    BY <1>2 DEF Unlock, DriverInv, Data
  <2>4. Overrun'
    BY <1>2 DEF Unlock, DriverInv, Ringing, Overrun, Restarting
  <2>5. Flow'
    BY <1>2 DEF Unlock, DriverInv, MainHolds, SlotDone, InRound, Idle, InFlight, Serving, Loaded,
         Flow
  <2>. QED BY <2>1, <2>2, <2>3, <2>4, <2>5 DEF DriverInv
<1>3. ASSUME os_sleep_irq PROVE DriverInv'
  <2>1. Paths'
    BY <1>3 DEF os_sleep_irq, DriverInv, Paths, Label, MainLabel
  <2>2. Permits'
    BY <1>3 DEF os_sleep_irq, DriverInv, Ringing, Permits, MainHolds, SenderHolds, InRing
  <2>3. Data'
    BY <1>3 DEF os_sleep_irq, DriverInv, Data
  <2>4. Overrun'
    BY <1>3 DEF os_sleep_irq, DriverInv, Ringing, Overrun, Restarting
  <2>5. Flow'
    BY <1>3 DEF os_sleep_irq, DriverInv, MainHolds, SlotDone, InRound, Idle, InFlight, Serving,
         Loaded, Flow
  <2>. QED BY <2>1, <2>2, <2>3, <2>4, <2>5 DEF DriverInv
<1>4. ASSUME nic_isr PROVE DriverInv'
  <2>1. Paths'
    BY <1>4 DEF nic_isr, DriverInv, Paths, Label, MainLabel
  <2>2. Permits'
    BY <1>4 DEF nic_isr, DriverInv, Paths, Ringing, Permits, MainHolds, SenderHolds, InRing
  <2>3. Data'
    BY <1>4 DEF nic_isr, DriverInv, Paths, Data
  <2>4. Overrun'
    BY <1>4 DEF nic_isr, DriverInv, Paths, Ringing, Overrun, Restarting
  <2>5. Flow'
    BY <1>4 DEF nic_isr, DriverInv, Paths, SlotDone, Completion, InRound, Idle, InFlight,
         Serving, Loaded, Flow
  <2>. QED BY <2>1, <2>2, <2>3, <2>4, <2>5 DEF DriverInv
<1>5. ASSUME nic_rx PROVE DriverInv'
  <2>1. Paths'
    BY <1>5 DEF nic_rx, DriverInv, Paths, Label, MainLabel
  <2>2. Permits'
    BY <1>5 DEF nic_rx, DriverInv, Paths, Ringing, Permits, MainHolds, SenderHolds, InRing
  <2>3. Data'
    BY <1>5 DEF nic_rx, DriverInv, Paths, Data
  <2>4. Overrun'
    BY <1>5 DEF nic_rx, DriverInv, Paths, Overrun, Restarting, SlotDone
  <2>5. Flow'
    BY <1>5 DEF nic_rx, DriverInv, Paths, MainHolds, SlotDone, InRound, Idle, InFlight, Serving,
         Loaded, Flow
  <2>. QED BY <2>1, <2>2, <2>3, <2>4, <2>5 DEF DriverInv
<1>6. ASSUME receive PROVE DriverInv'
  <2>1. Paths'
    BY <1>6 DEF receive, DriverInv, Paths, Label, MainLabel
  <2>2. Permits'
    BY <1>6 DEF receive, DriverInv, Paths, Ringing, Permits, MainHolds, SenderHolds, InRing
  <2>3. Data'
    BY <1>6 DEF receive, Taken, Pbuf, DriverInv, Paths, Data
  <2>4. Overrun'
    BY <1>6 DEF receive, DriverInv, Paths, Overrun, Restarting, SlotDone
  <2>5. Flow'
    BY <1>6 DEF receive, DriverInv, Paths, MainHolds, Data, SlotDone, InRound, Idle, InFlight,
         Serving, Loaded, Flow
  <2>. QED BY <2>1, <2>2, <2>3, <2>4, <2>5 DEF DriverInv
<1>7. ASSUME Answer PROVE DriverInv'
  <2>1. Paths'
    BY <1>7 DEF Answer, DriverInv, Paths, Label, MainLabel
  <2>2. Permits'
    BY <1>7 DEF Answer, DriverInv, Ringing, Permits, MainHolds, SenderHolds, InRing
  <2>3. Data'
    <3>1. PICK p \in Pbuf \cup {NULL} : p = buf["main"] /\ \E k : xmit(p, k)
      BY <1>7 DEF DriverInv, Data, Answer
    <3>2. port_xmit' \in Seq(Pbuf)
      BY <3>1, XmitTyped DEF DriverInv, Data
    <3>. QED BY <1>7, <3>2 DEF DriverInv, Data, Answer, Paths
  <2>4. Overrun'
    BY <1>7 DEF Answer, DriverInv, Paths, Overrun, Restarting, SlotDone
  <2>5. Flow'
    BY <1>7 DEF Answer, DriverInv, Paths, MainHolds, SlotDone, InRound, Idle, InFlight, Serving,
         Loaded, Flow
  <2>. QED BY <2>1, <2>2, <2>3, <2>4, <2>5 DEF DriverInv
<1>8. ASSUME FrameRead PROVE DriverInv'
  <2>1. Paths'
    BY <1>8 DEF FrameRead, DriverInv, Paths, Label, MainLabel
  <2>2. Permits'
    BY <1>8 DEF FrameRead, DriverInv, Ringing, Permits, MainHolds, SenderHolds, InRing
  <2>3. Data'
    BY <1>8 DEF FrameRead, DriverInv, Data
  <2>4. Overrun'
    BY <1>8 DEF FrameRead, DriverInv, Overrun, Restarting, SlotDone
  <2>5. Flow'
    BY <1>8 DEF FrameRead, DriverInv, MainHolds, SlotDone, InRound, Idle, InFlight, Serving,
         Loaded, Flow
  <2>. QED BY <2>1, <2>2, <2>3, <2>4, <2>5 DEF DriverInv
<1>9. ASSUME RxAck PROVE DriverInv'
  <2>1. Paths'
    BY <1>9 DEF RxAck, DriverInv, Paths, Label, MainLabel
  <2>2. Permits'
    BY <1>9 DEF RxAck, DriverInv, Ringing, Permits, MainHolds, SenderHolds, InRing
  <2>3. Data'
    BY <1>9 DEF RxAck, DriverInv, Data
  <2>4. Overrun'
    BY <1>9 DEF RxAck, DriverInv, Overrun, Restarting, SlotDone
  <2>5. Flow'
    BY <1>9 DEF RxAck, DriverInv, MainHolds, SlotDone, Completion, InRound, Idle, InFlight,
         Serving, Loaded, Flow
  <2>. QED BY <2>1, <2>2, <2>3, <2>4, <2>5 DEF DriverInv
<1>10. ASSUME nic_tx PROVE DriverInv'
  <2>1. Paths'
    BY <1>10 DEF nic_tx, DriverInv, Paths, Label, MainLabel
  <2>2. Permits'
    BY <1>10 DEF nic_tx, DriverInv, Paths, Ringing, Permits, MainHolds, SenderHolds, InRing
  <2>3. Data'
    BY <1>10 DEF nic_tx, DriverInv, Paths, Data
  <2>4. Overrun'
    BY <1>10 DEF nic_tx, DriverInv, Paths, Ringing, Overrun, Restarting
  <2>5. Flow'
    BY <1>10 DEF nic_tx, DriverInv, Paths, Permits, MainHolds, SenderHolds, Data, Overrun,
         SlotDone, Completion, InRound, Idle, InFlight, Serving, Loaded, Flow
  <2>. QED BY <2>1, <2>2, <2>3, <2>4, <2>5 DEF DriverInv
<1>11. ASSUME ReleaseDone PROVE DriverInv'
  <2>1. Paths'
    BY <1>11 DEF ReleaseDone, DriverInv, Paths, Label, MainLabel
  <2>2. Permits'
    BY <1>11 DEF ReleaseDone, DriverInv, Ringing, Permits, MainHolds, SenderHolds, InRing, Idle,
         InFlight, Serving, Flow, SlotDone
  <2>3. Data'
    BY <1>11 DEF ReleaseDone, DriverInv, Data
  <2>4. Overrun'
    BY <1>11 DEF ReleaseDone, DriverInv, Overrun, Restarting, SlotDone
  <2>5. Flow'
    BY <1>11 DEF ReleaseDone, DriverInv, Paths, Permits, SlotDone, InRound, Idle, InFlight,
         Serving, Loaded, Flow
  <2>. QED BY <2>1, <2>2, <2>3, <2>4, <2>5 DEF DriverInv
<1>12. ASSUME TxCleared PROVE DriverInv'
  <2>0. Used \ {send} = {} /\ send' = send
    <3>1. Serving
      BY <1>12 DEF DriverInv, Flow, TxCleared, Idle, InFlight, SlotDone
    <3>2. Used \ {send} = {}
      BY <1>12, <3>1 DEF DriverInv, Data, Serving, Loaded, Used
    <3>. QED BY <1>12, <3>2 DEF TxCleared
  <2>1. Paths'
    BY <1>12, <2>0 DEF DriverInv, TxCleared, Paths, Label, MainLabel
  <2>2. Permits'
    BY <1>12 DEF TxCleared, Used, DriverInv, Paths, Ringing, Permits, MainHolds, SenderHolds,
         InRing
  <2>3. Data'
    BY <1>12, <2>0 DEF TxCleared, DriverInv, Paths, Data
  <2>4. Overrun'
    BY <1>12 DEF TxCleared, Used, DriverInv, Paths, Overrun, Restarting, SlotDone
  <2>5. Flow'
    BY <1>12 DEF TxCleared, Used, DriverInv, Paths, Data, SlotDone, Completion, InRound, Idle,
         InFlight, Serving, Loaded, Flow
  <2>. QED BY <2>1, <2>2, <2>3, <2>4, <2>5 DEF DriverInv
<1>13. ASSUME OverrunRead PROVE DriverInv'
  <2>1. Paths'
    BY <1>13 DEF OverrunRead, DriverInv, Paths, Label, MainLabel
  <2>2. Permits'
    BY <1>13 DEF OverrunRead, DriverInv, Ringing, Permits, MainHolds, SenderHolds, InRing
  <2>3. Data'
    BY <1>13 DEF OverrunRead, DriverInv, Data
  <2>4. Overrun'
    BY <1>13 DEF OverrunRead, DriverInv, Paths, Ringing, Overrun, Restarting
  <2>5. Flow'
    BY <1>13 DEF OverrunRead, DriverInv, Ringing, MainHolds, Overrun, Restarting, SlotDone,
         InRound, Idle, InFlight, Serving, Loaded, Flow
  <2>. QED BY <2>1, <2>2, <2>3, <2>4, <2>5 DEF DriverInv
<1>14. ASSUME NIC_STOP PROVE DriverInv'
  <2>1. Paths'
    BY <1>14 DEF NIC_STOP, DriverInv, Paths, Label, MainLabel
  <2>2. Permits'
    BY <1>14 DEF NIC_STOP, DriverInv, Ringing, Permits, MainHolds, SenderHolds, InRing
  <2>3. Data'
    BY <1>14 DEF NIC_STOP, DriverInv, Data
  <2>4. Overrun'
    BY <1>14 DEF NIC_STOP, DriverInv, Paths, Overrun, Restarting, SlotDone
  <2>5. Flow'
    BY <1>14 DEF NIC_STOP, DriverInv, MainHolds, SlotDone, InRound, Idle, InFlight, Serving,
         Loaded, Flow
  <2>. QED BY <2>1, <2>2, <2>3, <2>4, <2>5 DEF DriverInv
<1>15. ASSUME OverrunWaited PROVE DriverInv'
  <2>1. Paths'
    BY <1>15 DEF OverrunWaited, DriverInv, Paths, Label, MainLabel
  <2>2. Permits'
    BY <1>15 DEF OverrunWaited, DriverInv, Ringing, Permits, MainHolds, SenderHolds, InRing
  <2>3. Data'
    BY <1>15 DEF OverrunWaited, DriverInv, Data
  <2>4. Overrun'
    BY <1>15 DEF OverrunWaited, DriverInv, Paths, Overrun, Restarting, SlotDone, Completion
  <2>5. Flow'
    BY <1>15 DEF OverrunWaited, DriverInv, Paths, MainHolds, SlotDone, Completion, InRound, Idle,
         InFlight, Serving, Loaded, Flow
  <2>. QED BY <2>1, <2>2, <2>3, <2>4, <2>5 DEF DriverInv
<1>16. ASSUME OverrunEnd PROVE DriverInv'
  <2>1. Paths'
    BY <1>16 DEF OverrunEnd, DriverInv, Paths, Label, MainLabel
  <2>2. Permits'
    BY <1>16 DEF OverrunEnd, DriverInv, Ringing, Permits, MainHolds, SenderHolds, InRing
  <2>3. Data'
    BY <1>16 DEF OverrunEnd, DriverInv, Data
  <2>4. Overrun'
    BY <1>16 DEF OverrunEnd, DriverInv, Paths, Overrun
  <2>5. Flow'
    BY <1>16 DEF OverrunEnd, DriverInv, MainHolds, Overrun, SlotDone, Completion, InRound, Idle,
         InFlight, Serving, Loaded, Flow
  <2>. QED BY <2>1, <2>2, <2>3, <2>4, <2>5 DEF DriverInv
<1>. QED BY <1>1, <1>2, <1>3, <1>4, <1>5, <1>6, <1>7, <1>8, <1>9,
         <1>10, <1>11, <1>12, <1>13, <1>14, <1>15, <1>16 DEF Main

\* The sender hands over when all is idle and then waits for the one permit.
LEMMA SenderKeeps ==
  ASSUME DriverInv, Sender
  PROVE  DriverInv'
<1>1. ASSUME Lock("sender", "lock", "send") PROVE DriverInv'
  <2>1. Paths'
    BY <1>1 DEF Lock, DriverInv, Paths, Label
  <2>2. Permits'
    BY <1>1 DEF Lock, DriverInv, Paths, Ringing, Permits, MainHolds, SenderHolds, InRing
  <2>3. Data'
    BY <1>1 DEF Lock, DriverInv, Data
  <2>4. Overrun'
    BY <1>1 DEF Lock, DriverInv, Overrun, Restarting, SlotDone
  <2>5. Flow'
    BY <1>1 DEF Lock, DriverInv, Permits, MainHolds, SlotDone, InRound, Idle, InFlight, Serving,
         Flow
  <2>. QED BY <2>1, <2>2, <2>3, <2>4, <2>5 DEF DriverInv
<1>2. ASSUME Unlock("sender", "unlock", "wait") PROVE DriverInv'
  <2>1. Paths'
    BY <1>2 DEF Unlock, DriverInv, Paths, Label
  <2>2. Permits'
    BY <1>2 DEF Unlock, DriverInv, Paths, Ringing, Permits, MainHolds, SenderHolds, InRing
  <2>3. Data'
    BY <1>2 DEF Unlock, DriverInv, Data
  <2>4. Overrun'
    BY <1>2 DEF Unlock, DriverInv, Overrun, Restarting, SlotDone
  <2>5. Flow'
    BY <1>2 DEF Unlock, DriverInv, MainHolds, SlotDone, InRound, Idle, InFlight, Serving, Loaded,
         Flow
  <2>. QED BY <2>1, <2>2, <2>3, <2>4, <2>5 DEF DriverInv
<1>3. ASSUME SenderRecv PROVE DriverInv'
  <2>1. Paths'
    BY <1>3 DEF SenderRecv, DriverInv, Paths, Label, MainLabel
  <2>2. Permits'
    BY <1>3 DEF SenderRecv, DriverInv, Ringing, Permits, MainHolds, SenderHolds, InRing
  <2>3. Data'
    <3>1. Head(port_xmit) \in Pbuf /\ Tail(port_xmit) \in Seq(Pbuf)
      BY <1>3 DEF DriverInv, Data, SenderRecv
    <3>. QED BY <1>3, <3>1 DEF DriverInv, Data, SenderRecv, Paths, Pbuf
  <2>4. Overrun'
    BY <1>3 DEF SenderRecv, DriverInv, Overrun, Restarting, SlotDone
  <2>5. Flow'
    BY <1>3 DEF SenderRecv, DriverInv, MainHolds, SlotDone, InRound, Idle, InFlight, Serving,
         Loaded, Flow
  <2>. QED BY <2>1, <2>2, <2>3, <2>4, <2>5 DEF DriverInv
<1>4. ASSUME nic_send_packet PROVE DriverInv'
  <2>0. /\ Idle /\ Goto("sender", "send", "unlock") /\ buf["sender"] # NULL
        /\ UNCHANGED <<sem, ret, mainVars, status, frames, deaf, dropped>>
        /\ \/ UNCHANGED <<buf, snicVars, transmitting>>
           \/ /\ tx_packet' = [tx_packet EXCEPT ![0] = buf["sender"]] /\ send' = 0 /\ sending'
              /\ buf' = [buf EXCEPT !["sender"] = NULL] /\ transmitting'
    <3>1. Idle /\ buf["sender"] # NULL
      BY <1>4 DEF nic_send_packet, DriverInv, Data, Flow, InFlight, Serving
    <3>. QED BY <1>4, <3>1 DEF nic_send_packet, Used, Idle
  <2>1. Paths'
    BY <1>4 DEF nic_send_packet, Used, DriverInv, Paths, Label, MainLabel, Idle, InFlight,
         Serving, Flow
  <2>2. Permits'
    BY <1>4 DEF nic_send_packet, Used, DriverInv, Paths, Ringing, Permits, MainHolds,
         SenderHolds, InRing, Idle, InFlight, Serving, Flow
  <2>3. Data'
    BY <1>4 DEF nic_send_packet, Used, DriverInv, Paths, Data
  <2>4. Overrun'
    BY <1>4 DEF nic_send_packet, Used, DriverInv, Paths, Ringing, Permits, MainHolds,
         SenderHolds, Overrun, Restarting
  <2>5. Flow'
    <3>1. CASE UNCHANGED <<buf, snicVars, transmitting>>
      BY <2>0, <3>1 DEF DriverInv, Paths, MainHolds, SlotDone, Completion, InRound, Idle, Flow
    <3>2. CASE ~UNCHANGED <<buf, snicVars, transmitting>>
      BY <2>0, <3>2 DEF DriverInv, Paths, MainHolds, Data, SlotDone, Completion, InRound, Idle,
         InFlight, Loaded, Flow
    <3>. QED BY <3>1, <3>2
  <2>. QED BY <2>1, <2>2, <2>3, <2>4, <2>5 DEF DriverInv
<1>5. ASSUME AwaitDone PROVE DriverInv'
  <2>1. Paths'
    BY <1>5 DEF AwaitDone, DriverInv, Paths, Label
  <2>2. Permits'
    BY <1>5 DEF AwaitDone, DriverInv, Ringing, Permits, MainHolds, SenderHolds, InRing
  <2>3. Data'
    BY <1>5 DEF AwaitDone, DriverInv, Data
  <2>4. Overrun'
    BY <1>5 DEF AwaitDone, DriverInv, Overrun, Restarting, SlotDone
  <2>5. Flow'
    BY <1>5 DEF AwaitDone, DriverInv, Paths, Permits, MainHolds, SlotDone, InRound, Idle,
         InFlight, Serving, Loaded, Flow
  <2>. QED BY <2>1, <2>2, <2>3, <2>4, <2>5 DEF DriverInv
<1>. QED BY <1>1, <1>2, <1>3, <1>4, <1>5 DEF Sender

\* control touches the ring and the port only.
LEMMA ControlKeeps ==
  ASSUME DriverInv, Control
  PROVE  DriverInv'
<1>1. ASSUME control PROVE DriverInv'
  <2>1. Paths'
    BY <1>1 DEF control, DriverInv, Paths, Label, MainLabel
  <2>2. Permits'
    BY <1>1 DEF control, DriverInv, Ringing, Permits, MainHolds, SenderHolds, InRing
  <2>3. Data'
    BY <1>1 DEF control, DriverInv, Data
  <2>4. Overrun'
    BY <1>1 DEF control, DriverInv, Overrun, Restarting, SlotDone
  <2>5. Flow'
    BY <1>1 DEF control, DriverInv, MainHolds, SlotDone, InRound, Idle, InFlight, Serving,
         Loaded, Flow
  <2>. QED BY <2>1, <2>2, <2>3, <2>4, <2>5 DEF DriverInv
<1>2. ASSUME NEW k \in {"SMALL", "LARGE"}, send_udp(k) PROVE DriverInv'
  <2>1. Paths'
    BY <1>2 DEF send_udp, DriverInv, Paths, Label
  <2>2. Permits'
    BY <1>2 DEF send_udp, DriverInv, Ringing, Permits, MainHolds, SenderHolds, InRing
  <2>3. Data'
    <3>1. PICK p \in Pbuf \cup {NULL} : p = buf["control"] /\ xmit(p, k)
      BY <1>2 DEF DriverInv, Data, send_udp
    <3>2. port_xmit' \in Seq(Pbuf)
      BY <3>1, XmitTyped DEF DriverInv, Data
    <3>. QED BY <1>2, <3>2 DEF DriverInv, Data, send_udp, Paths
  <2>4. Overrun'
    BY <1>2 DEF send_udp, DriverInv, Overrun, Restarting, SlotDone
  <2>5. Flow'
    BY <1>2 DEF send_udp, DriverInv, MainHolds, SlotDone, InRound, Idle, InFlight, Serving,
         Loaded, Flow
  <2>. QED BY <2>1, <2>2, <2>3, <2>4, <2>5 DEF DriverInv
<1>. QED BY <1>1, <1>2 DEF Control

\* The card ends what it transmits, once; frames do not matter here.
LEMMA CardKeeps ==
  ASSUME DriverInv, Transmitted \/ Aborted \/ \E k \in Kinds : Arrive(k)
  PROVE  DriverInv'
<1>1. ASSUME NEW k \in Kinds, Arrive(k) PROVE DriverInv'
  <2>1. Paths'
    BY <1>1 DEF Arrive, DriverInv, Paths
  <2>2. Permits'
    BY <1>1 DEF Arrive, DriverInv, Permits, MainHolds, SenderHolds, InRing
  <2>3. Data'
    BY <1>1 DEF Arrive, DriverInv, Data
  <2>4. Overrun'
    BY <1>1 DEF Arrive, DriverInv, Overrun
  <2>5. Flow'
    BY <1>1 DEF Arrive, DriverInv, MainHolds, SlotDone, Completion, InRound, Idle, InFlight,
         Serving, Loaded, Flow
  <2>. QED BY <2>1, <2>2, <2>3, <2>4, <2>5 DEF DriverInv
<1>2. ASSUME Transmitted PROVE DriverInv'
  <2>1. Paths'
    BY <1>2 DEF Transmitted, DriverInv, Paths
  <2>2. Permits'
    BY <1>2 DEF Transmitted, DriverInv, Permits, MainHolds, SenderHolds, InRing
  <2>3. Data'
    BY <1>2 DEF Transmitted, DriverInv, Data
  <2>4. Overrun'
    BY <1>2 DEF Transmitted, DriverInv, Overrun, Restarting, SlotDone
  <2>5. Flow'
    BY <1>2 DEF Transmitted, DriverInv, MainHolds, SlotDone, Completion, InRound, Idle, InFlight,
         Serving, Loaded, Flow
  <2>. QED BY <2>1, <2>2, <2>3, <2>4, <2>5 DEF DriverInv
<1>3. ASSUME Aborted PROVE DriverInv'
  <2>1. Paths'
    BY <1>3 DEF Aborted, DriverInv, Paths
  <2>2. Permits'
    BY <1>3 DEF Aborted, DriverInv, Permits, MainHolds, SenderHolds, InRing
  <2>3. Data'
    BY <1>3 DEF Aborted, DriverInv, Data
  <2>4. Overrun'
    BY <1>3 DEF Aborted, DriverInv, Overrun, Restarting, SlotDone
  <2>5. Flow'
    BY <1>3 DEF Aborted, DriverInv, MainHolds, Overrun, SlotDone, InRound, Idle, InFlight,
         Serving, Loaded, Flow
  <2>. QED BY <2>1, <2>2, <2>3, <2>4, <2>5 DEF DriverInv
<1>. QED BY <1>1, <1>2, <1>3

LEMMA DriverInit == Init => DriverInv
<1> SUFFICES ASSUME Init PROVE DriverInv
  OBVIOUS
<1>1. Paths
  BY DEF Init, Paths, Label, MainLabel, Ringing
<1>2. Permits
  BY DEF Init, Permits, MainHolds, SenderHolds, InRing, Ringing
<1>3. Data
  BY Ne2kAssumption DEF Init, Data, Pbuf
<1>4. Overrun
  BY DEF Init, Overrun
<1>5. Flow
  BY DEF Init, Flow, Idle, InRound, MainHolds, SlotDone, Completion
<1>. QED BY <1>1, <1>2, <1>3, <1>4, <1>5 DEF DriverInv

LEMMA DriverNext == DriverInv /\ [Next]_vars => DriverInv'
<1> SUFFICES ASSUME DriverInv, [Next]_vars PROVE DriverInv'
  OBVIOUS
<1>1. CASE UNCHANGED vars
  BY <1>1 DEF vars, DriverInv, Paths, Permits, MainHolds, SenderHolds, InRing, Data, Overrun,
              Restarting, SlotDone, Flow, Idle, Loaded, InFlight, Serving, InRound
<1>2. CASE Next
  BY <1>2, RingKeeps, MainKeeps, SenderKeeps, ControlKeeps, CardKeeps DEF Next, Step
<1>. QED BY <1>1, <1>2

LEMMA DriverAlways == Spec => []DriverInv
BY DriverInit, DriverNext, PTL DEF Spec

\* The sender meets an idle card and an empty table of slots: nic_send_packet
\* never stalls, whatever arrives meanwhile and however often the card overruns.
THEOREM OneTransmissionAtATime == Spec => []OneTransmission
<1>1. DriverInv => OneTransmission
  BY DEF DriverInv, OneTransmission, Flow, Idle, InFlight, Serving, Data, Used
<1>. QED BY <1>1, DriverAlways, PTL

\* A sender that waits for the card waits for something that will come: no
\* round of nic_isr, nic_rx or nic_overrun loses a completion, but for the end
\* of main and of an interrupt of more than MAX_LOAD rounds.
THEOREM CompletionAlwaysPending == Spec => []CompletionPending
<1>1. DriverInv => CompletionPending
  BY DEF DriverInv, CompletionPending, Flow, Idle, InFlight, Serving, Completion
<1>. QED BY <1>1, DriverAlways, PTL

-----------------------------------------------------------------------------
(* Where the pbufs are *)

\* Where a pbuf may be: in the ring, in the port's queue, the packet that is being
\* answered, in a slot of the card, or a thread's.
PlaceKind == {"free", "queued", "packet", "slot"} \cup Thread

\* What a thread read of the ring is not its own before it has advanced p_next, and
\* a slot's pbuf is the sender's again once it is told that the slot is done.
Listed(s, p) == \E i \in 1..Len(s) : s[i] = p
Held(p, t) == buf[t] = p /\ pc[t] # "advance"
InSlot(p, f) == tx_packet[f] = p /\ ~(f = send /\ SlotDone)

\* With s the pbufs of the ring, p is at w.
At(s, p, w) ==
  \/ w = "free" /\ Listed(s, p)
  \/ w = "queued" /\ Listed(port_xmit, p)
  \/ w = "packet" /\ packet = p
  \/ w = "slot" /\ \E f \in Slot : InSlot(p, f)
  \/ w \in Thread /\ Held(p, w)

\* s is what the links of the ring lead through.
Chain(s) ==
  /\ p_next = IF s = <<>> THEN NULL ELSE s[1]
  /\ \A i \in 1..Len(s) : next[s[i]] = IF i = Len(s) THEN NULL ELSE s[i + 1]
  /\ \A i, j \in 1..Len(s) : s[i] = s[j] => i = j

\* Every pbuf is at one place.
Placed(s) == \A p \in Pbuf : \E w \in PlaceKind : \A v \in PlaceKind : At(s, p, v) <=> v = w

\* When a thread has a pbuf, and where the ring is when it changes it.
Hands ==
  /\ \A t \in Thread : pc[t] \in {"get", "take"} => buf[t] = NULL
  /\ \A t \in Thread : pc[t] = "advance" => buf[t] = p_next
  /\ \A t \in Thread : pc[t] = "push" => next[buf[t]] = p_next
  /\ buf["main"] # NULL =>
       \/ pc["main"] \in {"advance", "put", "link", "push", "receive", "answer", "dead"}
       \/ pc["main"] = "leave" /\ ret["main"] \in {"receive", "answer"}
  /\ packet # NULL =>
       \/ pc["main"] = "answer"
       \/ pc["main"] \in {"get", "take", "advance", "leave"} /\ ret["main"] = "answer"
  /\ pc["sender"] = "recv" => buf["sender"] = NULL
  /\ buf["control"] # NULL => pc["control"] \in {"advance", "leave", "fill"}

\* No pbuf is queued twice.
QueueApart == \A i, j \in 1..Len(port_xmit) : port_xmit[i] = port_xmit[j] => i = j

\* The pbufs that are free, and where the others are.
Accounted == QueueApart /\ \E s \in Seq(Pbuf) : Chain(s) /\ Placed(s)

\* The inductive invariant.
PbufInv == DriverInv /\ Hands /\ Accounted

-----------------------------------------------------------------------------
\* The ring's steps keep Hands ...
LEMMA HandsRing ==
  ASSUME PbufInv, NEW t \in Thread, Ring(t)
  PROVE  Hands'
<1>1. ASSUME RingEnter(t) PROVE Hands'
  BY <1>1 DEF RingEnter, PbufInv, DriverInv, Paths, Hands
<1>2. ASSUME RingTake(t) PROVE Hands'
  BY <1>2 DEF RingTake, PbufInv, DriverInv, Paths, Data, Hands
<1>3. ASSUME RingAdvance(t) PROVE Hands'
  BY <1>3 DEF RingAdvance, PbufInv, DriverInv, Paths, Ringing, Permits, InRing, Hands
<1>4. ASSUME RingLink(t) PROVE Hands'
  BY <1>4 DEF RingLink, PbufInv, DriverInv, Data, Hands
<1>5. ASSUME RingPush(t) PROVE Hands'
  BY <1>5 DEF RingPush, PbufInv, DriverInv, Paths, Ringing, Permits, InRing, Data, Hands
<1>6. ASSUME RingLeave(t) PROVE Hands'
  BY <1>6 DEF RingLeave, PbufInv, DriverInv, Paths, Hands
<1>. QED BY <1>1, <1>2, <1>3, <1>4, <1>5, <1>6 DEF Ring

\* ... and so do main's ...
LEMMA HandsMain ==
  ASSUME PbufInv, Main
  PROVE  Hands'
<1>1. ASSUME Lock("main", "lock", "isr") PROVE Hands'
  BY <1>1 DEF Lock, PbufInv, Hands
<1>2. ASSUME Unlock("main", "unlock", "sleep") PROVE Hands'
  BY <1>2 DEF Unlock, PbufInv, Hands
<1>3. ASSUME os_sleep_irq PROVE Hands'
  BY <1>3 DEF os_sleep_irq, PbufInv, Hands
<1>4. ASSUME nic_isr PROVE Hands'
  BY <1>4 DEF nic_isr, PbufInv, DriverInv, Paths, Hands
<1>5. ASSUME nic_rx PROVE Hands'
  BY <1>5 DEF nic_rx, PbufInv, DriverInv, Paths, Hands
<1>6. ASSUME receive PROVE Hands'
  BY <1>6 DEF receive, PbufInv, DriverInv, Paths, Data, Hands
<1>7. ASSUME Answer PROVE Hands'
  BY <1>7 DEF Answer, PbufInv, Hands
<1>8. ASSUME FrameRead PROVE Hands'
  BY <1>8 DEF FrameRead, PbufInv, Hands
<1>9. ASSUME RxAck PROVE Hands'
  BY <1>9 DEF RxAck, PbufInv, Hands
<1>10. ASSUME nic_tx PROVE Hands'
  BY <1>10 DEF nic_tx, PbufInv, DriverInv, Paths, Data, Hands
<1>11. ASSUME ReleaseDone PROVE Hands'
  BY <1>11 DEF ReleaseDone, PbufInv, Hands
<1>12. ASSUME TxCleared PROVE Hands'
  BY <1>12 DEF TxCleared, PbufInv, DriverInv, Paths, Hands
<1>13. ASSUME OverrunRead PROVE Hands'
  BY <1>13 DEF OverrunRead, PbufInv, Hands
<1>14. ASSUME NIC_STOP PROVE Hands'
  BY <1>14 DEF NIC_STOP, PbufInv, Hands
<1>15. ASSUME OverrunWaited PROVE Hands'
  BY <1>15 DEF OverrunWaited, PbufInv, Hands
<1>16. ASSUME OverrunEnd PROVE Hands'
  BY <1>16 DEF OverrunEnd, PbufInv, Hands
<1>. QED BY <1>1, <1>2, <1>3, <1>4, <1>5, <1>6, <1>7, <1>8, <1>9, <1>10, <1>11, <1>12, <1>13,
   <1>14, <1>15, <1>16 DEF Main

\* ... the sender's ...
LEMMA HandsSender ==
  ASSUME PbufInv, Sender
  PROVE  Hands'
<1>1. ASSUME Lock("sender", "lock", "send") PROVE Hands'
  BY <1>1 DEF Lock, PbufInv, Hands
<1>2. ASSUME Unlock("sender", "unlock", "wait") PROVE Hands'
  BY <1>2 DEF Unlock, PbufInv, Hands
<1>3. ASSUME SenderRecv PROVE Hands'
  BY <1>3 DEF SenderRecv, PbufInv, DriverInv, Paths, Hands
<1>4. ASSUME nic_send_packet PROVE Hands'
  BY <1>4 DEF nic_send_packet, PbufInv, DriverInv, Paths, Data, Hands
<1>5. ASSUME AwaitDone PROVE Hands'
  BY <1>5 DEF AwaitDone, PbufInv, DriverInv, Idle, InFlight, Serving, Flow, Hands
<1>. QED BY <1>1, <1>2, <1>3, <1>4, <1>5 DEF Sender

\* ... and the controller's.
LEMMA HandsControl ==
  ASSUME PbufInv, Control
  PROVE  Hands'
<1>1. ASSUME control PROVE Hands'
  BY <1>1 DEF control, PbufInv, Hands
<1>2. ASSUME NEW k \in {"SMALL", "LARGE"}, send_udp(k) PROVE Hands'
  BY <1>2 DEF send_udp, PbufInv, DriverInv, Data, Hands
<1>. QED BY <1>1, <1>2 DEF Control

-----------------------------------------------------------------------------
\* A step that moves no pbuf keeps Placed ...
LEMMA StayPlaced ==
  ASSUME NEW s, Placed(s), UNCHANGED <<port_xmit, packet>>,
         \A p \in Pbuf, t \in Thread : Held(p, t)' <=> Held(p, t),
         \A p \in Pbuf : (\E f \in Slot : InSlot(p, f))' <=> \E f \in Slot : InSlot(p, f)
  PROVE  Placed(s)'
<1>1. ASSUME NEW p \in Pbuf, NEW v \in PlaceKind PROVE At(s, p, v)' <=> At(s, p, v)
  BY DEF At
<1>. QED BY <1>1 DEF Placed

\* ... and Accounted.
LEMMA Stay ==
  ASSUME Accounted, UNCHANGED <<p_next, next, port_xmit, packet>>,
         \A p \in Pbuf, t \in Thread : Held(p, t)' <=> Held(p, t),
         \A p \in Pbuf : (\E f \in Slot : InSlot(p, f))' <=> \E f \in Slot : InSlot(p, f)
  PROVE  Accounted'
<1>1. PICK s \in Seq(Pbuf) : Chain(s) /\ Placed(s)
  BY DEF Accounted
<1>2. Placed(s)'
  BY <1>1, StayPlaced
<1>3. Chain(s)'
  BY <1>1 DEF Chain
<1>4. QueueApart'
  BY DEF Accounted, QueueApart
<1>. QED BY <1>2, <1>3, <1>4 DEF Accounted

\* Entering, reading and leaving the ring move no pbuf.
LEMMA RingStays ==
  ASSUME PbufInv, NEW t \in Thread, RingEnter(t) \/ RingTake(t) \/ RingLeave(t)
  PROVE  Accounted'
<1>. USE DEF PbufInv, DriverInv, Paths, Data, Hands
<1>1. CASE RingEnter(t)
  BY <1>1, Stay DEF RingEnter, Held, InSlot, SlotDone
<1>2. CASE RingTake(t)
  <2>1. \A p \in Pbuf, u \in Thread : Held(p, u)' <=> Held(p, u)
    BY <1>2 DEF RingTake, Held, Pbuf
  <2>2. \A p \in Pbuf : (\E f \in Slot : InSlot(p, f))' <=> \E f \in Slot : InSlot(p, f)
    BY <1>2 DEF RingTake, InSlot, SlotDone
  <2>. QED BY <1>2, <2>1, <2>2, Stay DEF RingTake
<1>3. CASE RingLeave(t)
  BY <1>3, Stay DEF RingLeave, Held, InSlot, SlotDone
<1>. QED BY <1>1, <1>2, <1>3

\* The first pbuf of the ring, from free to the thread.
LEMMA AdvanceAccounted ==
  ASSUME PbufInv, NEW t \in Thread, RingAdvance(t)
  PROVE  Accounted'
<1>1. PICK s \in Seq(Pbuf) : Chain(s) /\ Placed(s)
  BY DEF PbufInv, Accounted
<1>2. /\ s # <<>> /\ s[1] = buf[t] /\ s[1] \in Pbuf /\ Len(s) \in Nat \ {0} /\ 1 \in 1..Len(s)
      /\ p_next' = next[s[1]] /\ next' = next
  BY <1>1 DEF RingAdvance, Chain, PbufInv, DriverInv, Data, Hands
<1>3. PICK r \in Seq(Pbuf) : /\ Len(r) = Len(s) - 1 /\ (r = <<>> <=> Len(r) = 0)
                            /\ \A i \in 1..Len(r) : i + 1 \in 1..Len(s) /\ r[i] = s[i + 1]
  <2>1. /\ Tail(s) \in Seq(Pbuf) /\ Len(Tail(s)) = Len(s) - 1 
        /\ (Tail(s) = <<>> <=> Len(Tail(s)) = 0)
        /\ \A i \in 1..Len(Tail(s)) : i + 1 \in 1..Len(s) /\ Tail(s)[i] = s[i + 1]
    <3>1. Tail(s) \in Seq(Pbuf) /\ Len(Tail(s)) = Len(s) - 1
      BY <1>2
    <3>2. \A i \in 1..Len(Tail(s)) : i + 1 \in 1..Len(s) /\ Tail(s)[i] = s[i + 1]
      OBVIOUS
    <3>3. \A q \in Seq(Pbuf) : q = <<>> <=> Len(q) = 0
      OBVIOUS
    <3>. QED BY <3>1, <3>2, <3>3
  <2>. QED BY <2>1
<1>4. Chain(r)'
  <2>1. p_next' = IF r = <<>> THEN NULL ELSE r[1]
    <3>1. r = <<>> <=> 1 = Len(s)
      BY <1>3
    <3>2. ASSUME 1 # Len(s) PROVE r[1] = s[1 + 1]
      <4>1. 1 \in 1..Len(r)
        BY <1>3, <3>2
      <4>. QED BY <1>3, <4>1
    <3>. QED BY <1>1, <1>2, <3>1, <3>2 DEF Chain
  <2>2. ASSUME NEW i \in 1..Len(r)
        PROVE  next'[r[i]] = IF i = Len(r) THEN NULL ELSE r[i + 1]
    <3>1. ASSUME i # Len(r) PROVE r[i + 1] = s[(i + 1) + 1]
      <4>1. i + 1 \in 1..Len(r)
        BY <3>1
      <4>. QED BY <1>3, <4>1
    <3>2. i = Len(r) <=> i + 1 = Len(s)
      BY <1>3
    <3>3. i + 1 \in 1..Len(s) /\ r[i] = s[i + 1]
      BY <1>3
    <3>4. next[s[i + 1]] = IF i + 1 = Len(s) THEN NULL ELSE s[(i + 1) + 1]
      BY <1>1, <3>3 DEF Chain
    <3>5. next' = next
      BY DEF RingAdvance
    <3>. QED BY <3>1, <3>2, <3>3, <3>4, <3>5
  <2>3. ASSUME NEW i \in 1..Len(r), NEW j \in 1..Len(r), r[i] = r[j]
        PROVE  i = j
    <3>1. i + 1 \in 1..Len(s) /\ j + 1 \in 1..Len(s) /\ s[i + 1] = s[j + 1]
      BY <1>3, <2>3
    <3>2. i + 1 = j + 1
      BY <1>1, <3>1 DEF Chain
    <3>. QED BY <3>2
  <2>. QED BY <2>1, <2>2, <2>3 DEF Chain
<1>5. \A p \in Pbuf : Listed(r, p) <=> Listed(s, p) /\ p # s[1]
  <2> SUFFICES ASSUME NEW p \in Pbuf PROVE Listed(r, p) <=> Listed(s, p) /\ p # s[1]
    OBVIOUS
  <2>1. ASSUME Listed(r, p) PROVE Listed(s, p) /\ p # s[1]
    <3>1. PICK i \in 1..Len(r) : r[i] = p
      BY <2>1 DEF Listed
    <3>2. i + 1 # 1
      OBVIOUS
    <3>. QED BY <1>1, <1>3, <3>1 DEF Listed, Chain
  <2>2. ASSUME Listed(s, p), p # s[1] PROVE Listed(r, p)
    <3>1. PICK i \in 1..Len(s) : s[i] = p
      BY <2>2 DEF Listed
    <3>2. i - 1 \in 1..Len(r) /\ (i - 1) + 1 = i
      BY <1>3, <2>2, <3>1
    <3>. QED BY <1>3, <3>1, <3>2 DEF Listed
  <2>. QED BY <2>1, <2>2
<1>6. Placed(r)'
  <2>1. Listed(s, s[1])
    BY <1>2 DEF Listed
  <2>2. ASSUME NEW v \in PlaceKind PROVE At(s, s[1], v) <=> v = "free"
    BY <1>1, <1>2, <2>1 DEF Placed, At, PlaceKind
  <2>3. ASSUME NEW p \in Pbuf, p # s[1], NEW v \in PlaceKind
        PROVE  At(r, p, v)' <=> At(s, p, v)
    BY <1>2, <1>5, <2>3 DEF At, Held, InSlot, SlotDone, RingAdvance, PbufInv, DriverInv, Paths
  <2>4. ASSUME NEW v \in PlaceKind PROVE At(r, s[1], v)' <=> v = t
    BY <1>2, <1>5, <2>2 DEF At, Held, InSlot, SlotDone, RingAdvance, PbufInv, DriverInv, Paths
  <2>. QED BY <1>1, <2>3, <2>4 DEF Placed, PlaceKind
<1>7. QueueApart'
  BY DEF RingAdvance, PbufInv, Accounted, QueueApart
<1>. QED BY <1>4, <1>6, <1>7 DEF Accounted

\* free_buffer_data links a pbuf that is not in the ring ...
LEMMA LinkAccounted ==
  ASSUME PbufInv, NEW t \in Thread, RingLink(t)
  PROVE  Accounted'
<1>1. PICK s \in Seq(Pbuf) : Chain(s) /\ Placed(s)
  BY DEF PbufInv, Accounted
<1>2. buf[t] \in Pbuf /\ Held(buf[t], t)
  BY DEF RingLink, Held, PbufInv, DriverInv, Data
<1>3. ~Listed(s, buf[t])
  BY <1>1, <1>2 DEF Placed, At, PlaceKind
<1>4. \A i \in 1..Len(s) : s[i] \in Pbuf /\ next'[s[i]] = next[s[i]]
  BY <1>3 DEF RingLink, Listed
<1>5. Chain(s)'
  BY <1>1, <1>4 DEF Chain, RingLink
<1>6. Placed(s)'
  BY <1>1, StayPlaced DEF RingLink, Held, InSlot, SlotDone
<1>7. QueueApart'
  BY DEF RingLink, PbufInv, Accounted, QueueApart
<1>. QED BY <1>5, <1>6, <1>7 DEF Accounted

\* ... and makes it the first.
LEMMA PushAccounted ==
  ASSUME PbufInv, NEW t \in Thread, RingPush(t)
  PROVE  Accounted'
<1>1. PICK s \in Seq(Pbuf) : Chain(s) /\ Placed(s)
  BY DEF PbufInv, Accounted
<1>2. PICK b \in Pbuf : b = buf[t] /\ Held(b, t) /\ next[b] = p_next /\ p_next' = b /\ next' = next
  BY DEF RingPush, Held, PbufInv, DriverInv, Data, Hands
<1>3. ~Listed(s, b)
  BY <1>1, <1>2 DEF Placed, At, PlaceKind
<1>4. PICK s2 \in Seq(Pbuf) :
        /\ Len(s) \in Nat /\ Len(s2) = Len(s) + 1 /\ s2[1] = b /\ s2 # <<>>
        /\ \A i \in 1..Len(s) : i + 1 \in 1..Len(s2) /\ s2[i + 1] = s[i]
        /\ \A i \in 1..Len(s2) : i # 1 => i - 1 \in 1..Len(s) /\ s2[i] = s[i - 1]
  <2>. DEFINE s2 == <<b>> \o s
  <2>1. s2 \in Seq(Pbuf) /\ Len(s) \in Nat /\ Len(s2) = Len(s) + 1 /\ s2[1] = b /\ s2 # <<>>
    OBVIOUS
  <2>2. \A i \in 1..Len(s) : i + 1 \in 1..Len(s2) /\ s2[i + 1] = s[i]
    OBVIOUS
  <2>3. \A i \in 1..Len(s2) : i # 1 => i - 1 \in 1..Len(s) /\ s2[i] = s[i - 1]
    OBVIOUS
  <2>. QED BY <2>1, <2>2, <2>3
<1>5. Chain(s2)'
  <2>1. p_next' = IF s2 = <<>> THEN NULL ELSE s2[1]
    BY <1>2, <1>4
  <2>2. ASSUME NEW i \in 1..Len(s2)
        PROVE  next'[s2[i]] = IF i = Len(s2) THEN NULL ELSE s2[i + 1]
    <3>1. CASE i = 1
      <4>1. s = <<>> <=> 1 = Len(s2)
        BY <1>4
      <4>2. s # <<>> => s2[1 + 1] = s[1]
        BY <1>4
      <4>. QED BY <1>1, <1>2, <1>4, <3>1 DEF Chain
    <3>2. CASE i # 1
      <4>1. i - 1 \in 1..Len(s) /\ s2[i] = s[i - 1] /\ (i = Len(s2) <=> i - 1 = Len(s))
        BY <1>4, <3>2
      <4>2. i # Len(s2) => i \in 1..Len(s) /\ s2[i + 1] = s[i] /\ (i - 1) + 1 = i
        BY <1>4
      <4>3. next[s[i - 1]] = IF i - 1 = Len(s) THEN NULL ELSE s[(i - 1) + 1]
        BY <1>1, <4>1 DEF Chain
      <4>. QED BY <1>2, <4>1, <4>2, <4>3
    <3>. QED BY <3>1, <3>2
  <2>3. ASSUME NEW i \in 1..Len(s2), NEW j \in 1..Len(s2), s2[i] = s2[j]
        PROVE  i = j
    <3>1. CASE i # 1 /\ j # 1
      <4>1. i - 1 \in 1..Len(s) /\ j - 1 \in 1..Len(s) /\ s[i - 1] = s[j - 1]
        BY <1>4, <2>3, <3>1
      <4>2. i - 1 = j - 1
        BY <1>1, <4>1 DEF Chain
      <4>. QED BY <4>2
    <3>2. CASE i = 1 \/ j = 1
      <4>1. \A k \in 1..Len(s2) : k # 1 => s2[k] # b
        BY <1>3, <1>4 DEF Listed
      <4>. QED BY <1>4, <2>3, <3>2, <4>1
    <3>. QED BY <3>1, <3>2
  <2>. QED BY <2>1, <2>2, <2>3 DEF Chain
<1>6. ASSUME NEW p \in Pbuf PROVE Listed(s2, p) <=> Listed(s, p) \/ p = b
  <2>1. ASSUME Listed(s2, p), p # b PROVE Listed(s, p)
    BY <1>4, <2>1 DEF Listed
  <2>2. ASSUME Listed(s, p) PROVE Listed(s2, p)
    BY <1>4, <2>2 DEF Listed
  <2>3. Listed(s2, b)
    BY <1>4 DEF Listed
  <2>. QED BY <2>1, <2>2, <2>3
<1>7. Placed(s2)'
  <2>1. ASSUME NEW v \in PlaceKind PROVE At(s, b, v) <=> v = t
    BY <1>1, <1>2 DEF Placed, At, PlaceKind
  <2>2. ASSUME NEW p \in Pbuf, p # b, NEW v \in PlaceKind
        PROVE  At(s2, p, v)' <=> At(s, p, v)
    <3>1. Listed(s2, p) <=> Listed(s, p)
      BY <1>6, <2>2
    <3>2. \A u \in Thread : Held(p, u)' <=> Held(p, u)
      BY <1>2, <2>2 DEF Held, RingPush, Pbuf
    <3>3. \A f \in Slot : InSlot(p, f)' <=> InSlot(p, f)
      BY DEF InSlot, SlotDone, RingPush
    <3>. QED BY <3>1, <3>2, <3>3 DEF At, RingPush
  <2>3. ASSUME NEW v \in PlaceKind PROVE At(s2, b, v)' <=> v = "free"
    BY <1>6, <2>1 DEF At, Held, InSlot, SlotDone, RingPush, PbufInv, DriverInv, Data
  <2>. QED BY <1>1, <2>2, <2>3 DEF Placed, PlaceKind
<1>8. QueueApart'
  BY DEF RingPush, PbufInv, Accounted, QueueApart
<1>. QED BY <1>5, <1>7, <1>8 DEF Accounted

\* receive, when it takes the right pbuf, keeps it as the packet it answers ...
LEMMA ReceiveAccounted ==
  ASSUME PbufInv, receive, ~stale'
  PROVE  Accounted'
<1>0. \/ UNCHANGED <<packet, buf>>
      \/ /\ packet' = buf["main"] /\ buf["main"] # NULL /\ buf' = [buf EXCEPT !["main"] = NULL]
         /\ Call("main", "receive", "get", "answer")
  <2>1. [buf EXCEPT !["main"] = buf["main"]] = buf
    BY DEF PbufInv, DriverInv, Data
  <2>. QED BY <2>1 DEF receive
<1>1. CASE UNCHANGED <<packet, buf>>
  <2>1. \A p \in Pbuf, u \in Thread : Held(p, u)' <=> Held(p, u)
    BY <1>1 DEF receive, PbufInv, DriverInv, Paths, Held
  <2>2. \A p \in Pbuf, f \in Slot : InSlot(p, f)' <=> InSlot(p, f)
    BY DEF receive, PbufInv, DriverInv, Paths, InSlot, SlotDone
  <2>. QED BY <1>1, <2>1, <2>2, Stay DEF receive, PbufInv
<1>2. CASE /\ packet' = buf["main"] /\ buf["main"] # NULL /\ buf' = [buf EXCEPT !["main"] = NULL]
           /\ Call("main", "receive", "get", "answer")
  <2>1. PICK s \in Seq(Pbuf) : Chain(s) /\ Placed(s)
    BY DEF PbufInv, Accounted
  <2>2. PICK b \in Pbuf : b = buf["main"] /\ Held(b, "main") /\ packet' = b /\ packet = NULL
    BY <1>2 DEF PbufInv, DriverInv, Data, Hands, Held
  <2>3. Chain(s)' /\ QueueApart'
    BY <2>1 DEF receive, Chain, PbufInv, Accounted, QueueApart
  <2>4. ASSUME NEW v \in PlaceKind PROVE At(s, b, v) <=> v = "main"
    BY <2>1, <2>2 DEF Placed, At, PlaceKind
  <2>5. \A p \in Pbuf, u \in Thread : Held(p, u)' <=> Held(p, u) /\ p # b
    <3>1. ASSUME NEW u \in Thread PROVE Held(b, u) <=> u = "main"
      BY <2>4 DEF At, PlaceKind
    <3>. QED BY <1>2, <3>1 DEF Held, PbufInv, DriverInv, Data, Pbuf
  <2>6. \A p \in Pbuf, f \in Slot : InSlot(p, f)' <=> InSlot(p, f)
    BY <1>2 DEF receive, InSlot, SlotDone
  <2>7. port_xmit' = port_xmit
    BY DEF receive
  <2>8. ASSUME NEW p \in Pbuf, p # b, NEW v \in PlaceKind PROVE At(s, p, v)' <=> At(s, p, v)
    BY <2>2, <2>5, <2>6, <2>7, <2>8 DEF At, Pbuf
  <2>9. ASSUME NEW v \in PlaceKind PROVE At(s, b, v)' <=> v = "packet"
    BY <2>2, <2>4, <2>5, <2>6, <2>7 DEF At
  <2>10. Placed(s)'
    BY <2>1, <2>8, <2>9 DEF Placed, PlaceKind
  <2>. QED BY <2>3, <2>10 DEF Accounted
<1>. QED BY <1>0, <1>1, <1>2

\* xmit puts a pbuf at the end of the port's queue.
LEMMA XmitQueued ==
  ASSUME port_xmit \in Seq(Pbuf), QueueApart, NEW b \in Pbuf, NEW k, xmit(b, k),
         ~Listed(port_xmit, b)
  PROVE  QueueApart' /\ \A p \in Pbuf : Listed(port_xmit, p)' <=> Listed(port_xmit, p) \/ p = b
<1>. DEFINE q == port_xmit
            n == Len(port_xmit)
<1>1. port_xmit' = Append(q, b) /\ n \in Nat
  BY DEF xmit, Pbuf
<1>2. /\ Len(port_xmit') = n + 1 /\ port_xmit'[n + 1] = b
      /\ \A i \in 1..n : i \in 1..Len(port_xmit') /\ port_xmit'[i] = q[i] /\ q[i] # b
      /\ n + 1 \in 1..Len(port_xmit')
  BY <1>1 DEF Listed
<1>3. \A i \in 1..Len(port_xmit') : i \in 1..n \/ i = n + 1
  BY <1>1
<1>4. QueueApart'
  BY <1>2 DEF QueueApart
<1>5. ASSUME NEW p \in Pbuf PROVE Listed(port_xmit, p)' <=> Listed(port_xmit, p) \/ p = b
  BY <1>2 DEF Listed
<1>. QED BY <1>4, <1>5

\* ... and frees it when the answer, if it had a pbuf for it, is queued.
LEMMA AnswerAccounted ==
  ASSUME PbufInv, Answer
  PROVE  Accounted'
<1>1. PICK s \in Seq(Pbuf) : Chain(s) /\ Placed(s)
  BY DEF PbufInv, Accounted
<1>2. PICK b \in Pbuf : b = packet /\ buf' = [buf EXCEPT !["main"] = b] /\ packet' = NULL
  BY DEF Answer, PbufInv, DriverInv, Data
<1>3. PICK a \in Pbuf \cup {NULL} :
        a = buf["main"] /\ (\E k : xmit(a, k)) /\ (a # NULL => Held(a, "main"))
  BY DEF Answer, PbufInv, DriverInv, Data, Held
<1>4. Chain(s)'
  BY <1>1 DEF Answer, Chain
<1>5. ASSUME NEW v \in PlaceKind PROVE At(s, b, v) <=> v = "packet"
  BY <1>1, <1>2 DEF Placed, At, PlaceKind
<1>6. ASSUME a \in Pbuf, NEW v \in PlaceKind PROVE At(s, a, v) <=> v = "main"
  BY <1>1, <1>3, <1>6 DEF Placed, At, PlaceKind, Pbuf
<1>7. /\ QueueApart'
      /\ \A p \in Pbuf : Listed(port_xmit, p)' <=> Listed(port_xmit, p) \/ p = a
  <2>1. CASE a \in Pbuf
    <3>1. ~Listed(port_xmit, a)
      BY <1>6, <2>1 DEF At, PlaceKind
    <3>. QED BY <1>3, <2>1, <3>1, XmitQueued DEF PbufInv, DriverInv, Data, Accounted
  <2>2. CASE a = NULL
    <3>1. port_xmit' = port_xmit
      BY <1>3, <2>2 DEF xmit
    <3>. QED BY <2>2, <3>1 DEF PbufInv, Accounted, QueueApart, Pbuf
  <2>. QED BY <2>1, <2>2
<1>8. ASSUME NEW p \in Pbuf, NEW u \in Thread
      PROVE  Held(p, u)' <=> IF p = b THEN u = "main" ELSE Held(p, u) /\ p # a
  <2>1. Held(b, u) <=> FALSE
    BY <1>5 DEF At, PlaceKind
  <2>2. a \in Pbuf => (Held(a, u) <=> u = "main")
    BY <1>6 DEF At, PlaceKind
  <2>. QED BY <1>2, <1>3, <2>1, <2>2 DEF Answer, Held, PbufInv, DriverInv, Data
<1>9. \A p \in Pbuf, f \in Slot : InSlot(p, f)' <=> InSlot(p, f)
  BY DEF Answer, PbufInv, DriverInv, Paths, InSlot, SlotDone
<1>10. ASSUME NEW p \in Pbuf, p # a, p # b, NEW v \in PlaceKind PROVE At(s, p, v)' <=> At(s, p, v)
  BY <1>2, <1>7, <1>8, <1>9, <1>10 DEF At, Pbuf
<1>11. ASSUME NEW v \in PlaceKind PROVE At(s, b, v)' <=> v = "main"
  <2>1. a # b
    BY <1>5, <1>6 DEF PlaceKind
  <2>. QED BY <1>2, <1>5, <1>7, <1>8, <1>9, <2>1 DEF At, Pbuf
<1>12. ASSUME a \in Pbuf, NEW v \in PlaceKind PROVE At(s, a, v)' <=> v = "queued"
  <2>1. a # b
    BY <1>5, <1>6 DEF PlaceKind
  <2>. QED BY <1>2, <1>6, <1>7, <1>8, <1>9, <1>12, <2>1 DEF At, Pbuf
<1>13. Placed(s)'
  BY <1>1, <1>10, <1>11, <1>12 DEF Placed, PlaceKind
<1>. QED BY <1>4, <1>7, <1>13 DEF Accounted

\* send_udp queues the pbuf it filled.
LEMMA SendUdpAccounted ==
  ASSUME PbufInv, NEW k, send_udp(k)
  PROVE  Accounted'
<1>1. PICK s \in Seq(Pbuf) : Chain(s) /\ Placed(s)
  BY DEF PbufInv, Accounted
<1>2. PICK a \in Pbuf \cup {NULL} :
        a = buf["control"] /\ xmit(a, k) /\ (a # NULL => Held(a, "control"))
  BY DEF send_udp, PbufInv, DriverInv, Data, Held
<1>3. Chain(s)'
  BY <1>1 DEF send_udp, Chain
<1>4. ASSUME a \in Pbuf, NEW v \in PlaceKind PROVE At(s, a, v) <=> v = "control"
  BY <1>1, <1>2, <1>4 DEF Placed, At, PlaceKind, Pbuf
<1>5. /\ QueueApart'
      /\ \A p \in Pbuf : Listed(port_xmit, p)' <=> Listed(port_xmit, p) \/ p = a
  <2>1. CASE a \in Pbuf
    <3>1. ~Listed(port_xmit, a)
      BY <1>4, <2>1 DEF At, PlaceKind
    <3>. QED BY <1>2, <2>1, <3>1, XmitQueued DEF PbufInv, DriverInv, Data, Accounted
  <2>2. CASE a = NULL
    <3>1. port_xmit' = port_xmit
      BY <1>2, <2>2 DEF xmit
    <3>. QED BY <2>2, <3>1 DEF PbufInv, Accounted, QueueApart, Pbuf
  <2>. QED BY <2>1, <2>2
<1>6. ASSUME NEW p \in Pbuf, NEW u \in Thread PROVE Held(p, u)' <=> Held(p, u) /\ p # a
  <2>1. a \in Pbuf => (Held(a, u) <=> u = "control")
    BY <1>4 DEF At, PlaceKind
  <2>. QED BY <1>2, <2>1 DEF send_udp, Held, PbufInv, DriverInv, Data, Pbuf
<1>7. \A p \in Pbuf, f \in Slot : InSlot(p, f)' <=> InSlot(p, f)
  BY DEF send_udp, InSlot, SlotDone
<1>8. packet' = packet
  BY DEF send_udp
<1>9. ASSUME NEW p \in Pbuf, p # a, NEW v \in PlaceKind PROVE At(s, p, v)' <=> At(s, p, v)
  BY <1>5, <1>6, <1>7, <1>8, <1>9 DEF At
<1>10. ASSUME a \in Pbuf, NEW v \in PlaceKind PROVE At(s, a, v)' <=> v = "queued"
  BY <1>4, <1>5, <1>6, <1>7, <1>8, <1>10 DEF At
<1>11. Placed(s)'
  BY <1>1, <1>9, <1>10 DEF Placed, PlaceKind
<1>. QED BY <1>3, <1>5, <1>11 DEF Accounted

\* The sender takes the first of the port's queue.
LEMMA SenderRecvAccounted ==
  ASSUME PbufInv, SenderRecv
  PROVE  Accounted'
<1>1. PICK s \in Seq(Pbuf) : Chain(s) /\ Placed(s)
  BY DEF PbufInv, Accounted
<1>2. /\ port_xmit \in Seq(Pbuf) /\ port_xmit # <<>> /\ port_xmit' = Tail(port_xmit)
      /\ buf["sender"] = NULL /\ buf' = [buf EXCEPT !["sender"] = Head(port_xmit)]
  BY DEF SenderRecv, PbufInv, DriverInv, Data, Hands
<1>3. PICK b \in Pbuf : b = Head(port_xmit) /\ b = port_xmit[1]
  BY <1>2
<1>4. /\ port_xmit' \in Seq(Pbuf) /\ Len(port_xmit) \in Nat \ {0}
      /\ Len(port_xmit') = Len(port_xmit) - 1 /\ 1 \in 1..Len(port_xmit)
      /\ \A i \in 1..Len(port_xmit') :
           i + 1 \in 1..Len(port_xmit) /\ port_xmit'[i] = port_xmit[i + 1]
  <2>1. port_xmit' \in Seq(Pbuf) /\ Len(port_xmit) \in Nat \ {0}
    BY <1>2
  <2>2. Len(port_xmit') = Len(port_xmit) - 1 /\ 1 \in 1..Len(port_xmit)
    BY <1>2
  <2>3. ASSUME NEW i \in 1..Len(port_xmit')
        PROVE  i + 1 \in 1..Len(port_xmit) /\ port_xmit'[i] = port_xmit[i + 1]
    BY <1>2
  <2>. QED BY <2>1, <2>2, <2>3
<1>5. \A i, j \in 1..Len(port_xmit) : port_xmit[i] = port_xmit[j] => i = j
  BY DEF PbufInv, Accounted, QueueApart
<1>6. QueueApart'
  <2>1. ASSUME NEW i \in 1..Len(port_xmit'), NEW j \in 1..Len(port_xmit'),
               port_xmit'[i] = port_xmit'[j]
        PROVE  i = j
    <3>1. i + 1 = j + 1
      BY <1>4, <1>5, <2>1
    <3>. QED BY <3>1
  <2>. QED BY <2>1 DEF QueueApart
<1>7. ASSUME NEW p \in Pbuf PROVE Listed(port_xmit, p)' <=> Listed(port_xmit, p) /\ p # b
  <2>1. ASSUME Listed(port_xmit, p)' PROVE Listed(port_xmit, p) /\ p # b
    <3>1. PICK i \in 1..Len(port_xmit') : port_xmit'[i] = p
      BY <2>1 DEF Listed
    <3>2. i + 1 \in 1..Len(port_xmit) /\ port_xmit[i + 1] = p /\ i + 1 # 1
      BY <1>4, <3>1
    <3>. QED BY <1>3, <1>5, <3>2 DEF Listed
  <2>2. ASSUME Listed(port_xmit, p), p # b PROVE Listed(port_xmit, p)'
    <3>1. PICK i \in 1..Len(port_xmit) : port_xmit[i] = p
      BY <2>2 DEF Listed
    <3>2. i - 1 \in 1..Len(port_xmit') /\ (i - 1) + 1 = i
      BY <1>3, <1>4, <2>2, <3>1
    <3>. QED BY <1>4, <3>1, <3>2 DEF Listed
  <2>. QED BY <2>1, <2>2
<1>8. ASSUME NEW v \in PlaceKind PROVE At(s, b, v) <=> v = "queued"
  <2>1. Listed(port_xmit, b)
    BY <1>3, <1>4 DEF Listed
  <2>. QED BY <1>1, <2>1 DEF Placed, At, PlaceKind
<1>9. ASSUME NEW p \in Pbuf, NEW u \in Thread
      PROVE  Held(p, u)' <=> IF p = b THEN u = "sender" ELSE Held(p, u)
  <2>1. Held(b, u) <=> FALSE
    BY <1>8 DEF At, PlaceKind
  <2>. QED BY <1>2, <1>3, <2>1 DEF SenderRecv, Held, PbufInv, DriverInv, Data, Pbuf
<1>10. \A p \in Pbuf, f \in Slot : InSlot(p, f)' <=> InSlot(p, f)
  BY DEF SenderRecv, InSlot, SlotDone
<1>11. packet' = packet
  BY DEF SenderRecv
<1>12. ASSUME NEW p \in Pbuf, p # b, NEW v \in PlaceKind PROVE At(s, p, v)' <=> At(s, p, v)
  BY <1>7, <1>9, <1>10, <1>11, <1>12 DEF At
<1>13. ASSUME NEW v \in PlaceKind PROVE At(s, b, v)' <=> v = "sender"
  BY <1>7, <1>8, <1>9, <1>10, <1>11 DEF At
<1>14. Placed(s)'
  BY <1>1, <1>12, <1>13 DEF Placed, PlaceKind
<1>15. Chain(s)'
  BY <1>1 DEF SenderRecv, Chain
<1>. QED BY <1>6, <1>14, <1>15 DEF Accounted

\* A packet that is not refused is in a slot from nic_send_packet ...
LEMMA SendPacketAccounted ==
  ASSUME PbufInv, nic_send_packet
  PROVE  Accounted'
<1>1. CASE UNCHANGED <<buf, snicVars>>
  <2>1. \A p \in Pbuf, u \in Thread : Held(p, u)' <=> Held(p, u)
    BY <1>1 DEF nic_send_packet, PbufInv, DriverInv, Paths, Held
  <2>2. \A p \in Pbuf, f \in Slot : InSlot(p, f)' <=> InSlot(p, f)
    BY <1>1 DEF nic_send_packet, PbufInv, DriverInv, Paths, InSlot, SlotDone
  <2>. QED BY <2>1, <2>2, Stay DEF nic_send_packet, PbufInv
<1>2. CASE ~UNCHANGED <<buf, snicVars>>
  <2>1. PICK s \in Seq(Pbuf) : Chain(s) /\ Placed(s)
    BY DEF PbufInv, Accounted
  <2>2. Idle
    BY DEF nic_send_packet, PbufInv, DriverInv, Flow, InFlight, Serving
  <2>3. PICK b \in Pbuf :
          /\ b = buf["sender"] /\ Held(b, "sender")
          /\ buf' = [buf EXCEPT !["sender"] = NULL]
          /\ tx_packet' = [tx_packet EXCEPT ![0] = b] /\ send' = 0
    BY <1>2, <2>2 DEF nic_send_packet, Used, Idle, Held, PbufInv, DriverInv, Data
  <2>4. ASSUME NEW v \in PlaceKind PROVE At(s, b, v) <=> v = "sender"
    BY <2>1, <2>3 DEF Placed, At, PlaceKind
  <2>5. ASSUME NEW p \in Pbuf, NEW u \in Thread PROVE Held(p, u)' <=> Held(p, u) /\ p # b
    <3>1. Held(b, u) <=> u = "sender"
      BY <2>4 DEF At, PlaceKind
    <3>. QED BY <2>3, <3>1 DEF nic_send_packet, Held, PbufInv, DriverInv, Paths, Data, Pbuf
  <2>6. ~SlotDone /\ ~SlotDone'
    BY <2>2 DEF nic_send_packet, Idle, SlotDone, PbufInv, DriverInv, Paths
  <2>7. \A p \in Pbuf, f \in Slot : InSlot(p, f)' <=> p = b /\ f = 0
    BY <2>2, <2>3, <2>6 DEF InSlot, Idle, PbufInv, DriverInv, Data, Pbuf
  <2>8. \A p \in Pbuf, f \in Slot : ~InSlot(p, f)
    BY <2>2 DEF InSlot, Idle, Pbuf
  <2>9. UNCHANGED <<packet, port_xmit>>
    BY DEF nic_send_packet
  <2>10. ASSUME NEW p \in Pbuf, p # b, NEW v \in PlaceKind PROVE At(s, p, v)' <=> At(s, p, v)
    BY <2>5, <2>7, <2>8, <2>9, <2>10 DEF At
  <2>11. ASSUME NEW v \in PlaceKind PROVE At(s, b, v)' <=> v = "slot"
    BY <2>4, <2>5, <2>7, <2>9 DEF At
  <2>12. Placed(s)'
    BY <2>1, <2>10, <2>11 DEF Placed, PlaceKind
  <2>13. Chain(s)' /\ QueueApart'
    BY <2>1 DEF nic_send_packet, Chain, PbufInv, Accounted, QueueApart
  <2>. QED BY <2>12, <2>13 DEF Accounted
<1>. QED BY <1>1, <1>2

\* ... until nic_tx takes it out to free it.
LEMMA TxAccounted ==
  ASSUME PbufInv, nic_tx
  PROVE  Accounted'
<1>1. CASE UNCHANGED buf /\ Goto("main", "tx", "isr") /\ UNCHANGED ret
  <2>1. \A p \in Pbuf, u \in Thread : Held(p, u)' <=> Held(p, u)
    BY <1>1 DEF Held
  <2>2. \A p \in Pbuf, f \in Slot : InSlot(p, f)' <=> InSlot(p, f)
    BY <1>1 DEF nic_tx, InSlot, SlotDone
  <2>. QED BY <2>1, <2>2, Stay DEF nic_tx, PbufInv
<1>2. CASE /\ tx_packet[send] # NULL /\ Call("main", "tx", "put", "release")
           /\ buf' = [buf EXCEPT !["main"] = tx_packet[send]]
  <2>1. PICK s \in Seq(Pbuf) : Chain(s) /\ Placed(s)
    BY DEF PbufInv, Accounted
  <2>2. ~SlotDone /\ SlotDone'
    BY <1>2 DEF SlotDone, PbufInv, DriverInv, Paths
  <2>3. PICK b \in Pbuf : /\ b = tx_packet[send] /\ InSlot(b, send) /\ buf["main"] = NULL
                          /\ buf' = [buf EXCEPT !["main"] = b]
    BY <1>2, <2>2 DEF InSlot, PbufInv, DriverInv, Data, Hands
  <2>4. tx_packet[1 - send] = NULL /\ send \in Slot
    BY DEF PbufInv, DriverInv, Data, Flow, Idle, InFlight, Serving, Loaded
  <2>5. ASSUME NEW v \in PlaceKind PROVE At(s, b, v) <=> v = "slot"
    BY <2>1, <2>3, <2>4 DEF Placed, At, PlaceKind
  <2>6. ASSUME NEW p \in Pbuf, NEW u \in Thread
        PROVE  Held(p, u)' <=> IF p = b THEN u = "main" ELSE Held(p, u)
    <3>1. Held(b, u) <=> FALSE
      BY <2>5 DEF At, PlaceKind
    <3>. QED BY <1>2, <2>3, <3>1 DEF Held, PbufInv, DriverInv, Data, Pbuf
  <2>7. \A p \in Pbuf, f \in Slot : ~InSlot(p, f)'
    BY <2>2, <2>4 DEF nic_tx, InSlot, Pbuf
  <2>8. \A p \in Pbuf, f \in Slot : InSlot(p, f) => p = b
    BY <2>3, <2>4 DEF InSlot, Pbuf
  <2>9. UNCHANGED <<packet, port_xmit>>
    BY DEF nic_tx
  <2>10. ASSUME NEW p \in Pbuf, p # b, NEW v \in PlaceKind PROVE At(s, p, v)' <=> At(s, p, v)
    BY <2>6, <2>7, <2>8, <2>9, <2>10 DEF At
  <2>11. ASSUME NEW v \in PlaceKind PROVE At(s, b, v)' <=> v = "main"
    BY <2>5, <2>6, <2>7, <2>9 DEF At
  <2>12. Placed(s)'
    BY <2>1, <2>10, <2>11 DEF Placed, PlaceKind
  <2>13. Chain(s)' /\ QueueApart'
    BY <2>1 DEF nic_tx, Chain, PbufInv, Accounted, QueueApart
  <2>. QED BY <2>12, <2>13 DEF Accounted
<1>. QED BY <1>1, <1>2 DEF nic_tx

\* The slot is cleared.
LEMMA TxClearedAccounted ==
  ASSUME PbufInv, TxCleared
  PROVE  Accounted'
<1>1. Serving
  BY DEF PbufInv, DriverInv, Flow, TxCleared, Idle, InFlight, SlotDone
<1>2. Used \ {send} = {} /\ send \in Slot
  BY <1>1 DEF PbufInv, DriverInv, Data, Serving, Loaded, Used
<1>3. send' = send /\ tx_packet' = [tx_packet EXCEPT ![send] = NULL]
  BY <1>2 DEF TxCleared
<1>4. \A p \in Pbuf, u \in Thread : Held(p, u)' <=> Held(p, u)
  BY DEF TxCleared, PbufInv, DriverInv, Paths, Held
<1>5. \A p \in Pbuf, f \in Slot : ~InSlot(p, f) /\ ~InSlot(p, f)'
  BY <1>1, <1>2, <1>3 DEF PbufInv, DriverInv, Data, Serving, Loaded, InSlot
<1>. QED BY <1>4, <1>5, Stay DEF TxCleared, PbufInv

\* All other steps leave every pbuf where it is.
LEMMA OthersAccounted ==
  ASSUME PbufInv,
         \/ os_sleep_irq \/ Lock("main", "lock", "isr") \/ Unlock("main", "unlock", "sleep")
         \/ nic_isr \/ nic_rx \/ FrameRead \/ RxAck \/ ReleaseDone
         \/ OverrunRead \/ NIC_STOP \/ OverrunWaited \/ OverrunEnd
         \/ Lock("sender", "lock", "send") \/ Unlock("sender", "unlock", "wait") \/ AwaitDone
         \/ control
         \/ Transmitted \/ Aborted \/ \E k \in Kinds : Arrive(k)
         \/ UNCHANGED vars
  PROVE  Accounted'
<1>1. UNCHANGED <<p_next, next, port_xmit, packet, buf, tx_packet, send>>
  BY DEF os_sleep_irq, Lock, Unlock, nic_isr, nic_rx, FrameRead, RxAck, ReleaseDone, OverrunRead,
     NIC_STOP, OverrunWaited, OverrunEnd, AwaitDone, control, Transmitted, Aborted, Arrive, vars
<1>2. \A p \in Pbuf, u \in Thread : Held(p, u)' <=> Held(p, u)
  BY DEF os_sleep_irq, Lock, Unlock, nic_isr, nic_rx, FrameRead, RxAck, ReleaseDone, OverrunRead,
     NIC_STOP, OverrunWaited, OverrunEnd, AwaitDone, control, Transmitted, Aborted, Arrive, vars,
     Held, PbufInv, DriverInv, Paths
<1>3. SlotDone' <=> SlotDone
  BY DEF os_sleep_irq, Lock, Unlock, nic_isr, nic_rx, FrameRead, RxAck, ReleaseDone, OverrunRead,
     NIC_STOP, OverrunWaited, OverrunEnd, AwaitDone, control, Transmitted, Aborted, Arrive, vars,
     SlotDone, PbufInv, DriverInv, Paths
<1>4. \A p \in Pbuf, f \in Slot : InSlot(p, f)' <=> InSlot(p, f)
  BY <1>1, <1>3 DEF InSlot
<1>. QED BY <1>1, <1>2, <1>4, Stay DEF PbufInv

\* The ring starts with every pbuf.
LEMMA PbufInit == Init => PbufInv
<1> SUFFICES ASSUME Init PROVE PbufInv
  OBVIOUS
<1>1. Hands
  BY DEF Init, Hands
<1>2. QueueApart
  BY DEF Init, QueueApart
<1>. DEFINE r == [i \in 1..NPbuf |-> (NPbuf + 1) - i]
<1>3. PICK s : s = r
  OBVIOUS
<1>4. /\ s \in Seq(Pbuf) /\ Len(s) = NPbuf /\ NPbuf \in Nat \ {0} /\ s # <<>>
      /\ \A i \in 1..NPbuf : s[i] = (NPbuf + 1) - i /\ s[i] \in Pbuf
  <2>1. r \in Seq(Pbuf) /\ Len(r) = NPbuf
    BY Ne2kAssumption DEF Pbuf
  <2>. QED BY <1>3, <2>1, Ne2kAssumption
<1>5. Chain(s)
  <2>1. p_next = NPbuf /\ \A p \in Pbuf : next[p] = p - 1
    BY DEF Init
  <2>2. p_next = IF s = <<>> THEN NULL ELSE s[1]
    BY <1>4, <2>1
  <2>3. ASSUME NEW i \in 1..NPbuf PROVE next[s[i]] = IF i = NPbuf THEN NULL ELSE s[i + 1]
    <3>1. next[s[i]] = ((NPbuf + 1) - i) - 1
      BY <1>4, <2>1
    <3>2. i # NPbuf => i + 1 \in 1..NPbuf /\ s[i + 1] = (NPbuf + 1) - (i + 1)
      BY <1>4
    <3>. QED BY <1>4, <3>1
  <2>4. ASSUME NEW i \in 1..NPbuf, NEW j \in 1..NPbuf, s[i] = s[j] PROVE i = j
    <3>1. (NPbuf + 1) - i = (NPbuf + 1) - j
      BY <1>4, <2>4
    <3>. QED BY <1>4, <3>1
  <2>. QED BY <1>4, <2>2, <2>3 DEF Chain
<1>6. ASSUME NEW p \in Pbuf PROVE Listed(s, p)
  <2>1. (NPbuf + 1) - p \in 1..NPbuf /\ (NPbuf + 1) - ((NPbuf + 1) - p) = p
    BY <1>4 DEF Pbuf
  <2>. QED BY <1>4, <2>1 DEF Listed
<1>7. ASSUME NEW p \in Pbuf, NEW v \in PlaceKind PROVE At(s, p, v) <=> v = "free"
  BY <1>6 DEF At, Listed, Held, InSlot, Init, Pbuf
<1>8. Placed(s)
  BY <1>7 DEF Placed, PlaceKind
<1>. QED BY <1>1, <1>2, <1>4, <1>5, <1>8, DriverInit DEF PbufInv, Accounted

\* Every step keeps Hands ...
LEMMA HandsKept == PbufInv /\ [Next]_vars => Hands'
<1> SUFFICES ASSUME PbufInv, [Next]_vars PROVE Hands'
  OBVIOUS
<1>1. CASE UNCHANGED vars \/ Transmitted \/ Aborted \/ \E k \in Kinds : Arrive(k)
  BY <1>1 DEF vars, PbufInv, Hands, Transmitted, Aborted, Arrive
<1>. QED BY <1>1, HandsRing, HandsMain, HandsSender, HandsControl DEF Next, Step

\* ... and Accounted, but for the wrong pbuf in receive.
LEMMA AccountedKept == PbufInv /\ [Next]_vars /\ ~stale' => Accounted'
<1> SUFFICES ASSUME PbufInv, [Next]_vars, ~stale' PROVE Accounted'
  OBVIOUS
<1>1. ASSUME NEW t \in Thread, Ring(t) PROVE Accounted'
  BY <1>1, RingStays, AdvanceAccounted, LinkAccounted, PushAccounted DEF Ring
<1>2. CASE Main
  BY <1>2, OthersAccounted, ReceiveAccounted, AnswerAccounted, TxAccounted, TxClearedAccounted
     DEF Main
<1>3. CASE Sender
  BY <1>3, OthersAccounted, SenderRecvAccounted, SendPacketAccounted DEF Sender
<1>4. CASE Control
  BY <1>4, OthersAccounted, SendUdpAccounted DEF Control
<1>. QED BY <1>1, <1>2, <1>3, <1>4, OthersAccounted DEF Next, Step

\* Once receive has taken a wrong pbuf, the model remembers it.
LEMMA StaleStays == stale /\ [Next]_vars => stale'
<1> SUFFICES ASSUME stale, [Next]_vars PROVE stale'
  OBVIOUS
<1>1. ASSUME NEW t \in Thread, Ring(t) PROVE stale'
  BY <1>1 DEF Ring, RingEnter, RingTake, RingAdvance, RingLink, RingPush, RingLeave
<1>2. CASE Main
  BY <1>2 DEF Main, os_sleep_irq, Lock, nic_isr, nic_rx, receive, Answer, FrameRead, RxAck, nic_tx,
     ReleaseDone, TxCleared, OverrunRead, NIC_STOP, OverrunWaited, OverrunEnd, Unlock
<1>3. CASE Sender \/ Control
  BY <1>3 DEF Sender, SenderRecv, Lock, nic_send_packet, Unlock, AwaitDone, Control, control, send_udp
<1>4. CASE (\E k \in Kinds : Arrive(k)) \/ Transmitted \/ Aborted \/ UNCHANGED vars
  BY <1>4 DEF Arrive, Transmitted, Aborted, vars
<1>. QED BY <1>1, <1>2, <1>3, <1>4 DEF Next, Step

\* PbufInv holds until receive takes a wrong pbuf.
LEMMA PbufAlways == Spec => [](stale \/ PbufInv)
<1>1. (stale \/ PbufInv) /\ [Next]_vars => (stale \/ PbufInv)'
  BY StaleStays, DriverNext, HandsKept, AccountedKept DEF PbufInv
<1>. QED BY <1>1, PbufInit, PTL DEF Spec

-----------------------------------------------------------------------------
\* A set of numbers that is not empty has a least one.
LEMMA LeastNumber ==
  ASSUME NEW T, T \subseteq Nat, T # {}
  PROVE  \E x \in T : \A y \in T : x =< y
<1>1. PICK x \in T : \A y \in T : <<y, x>> \notin OpToRel(<, Nat)
  BY NatLessThanWellFounded, WFMin
<1>2. ASSUME NEW y \in T PROVE ~(y < x)
  <2>1. y < x => <<y, x>> \in OpToRel(<, Nat)
    BY DEF OpToRel
  <2>. QED BY <1>1, <2>1, Zenon
<1>3. \A y \in T : x =< y
  BY <1>2
<1>. QED BY <1>3

\* Reached follows the chain.
LEMMA ReachedChain ==
  ASSUME DriverInv, NEW s \in Seq(Pbuf), Chain(s)
  PROVE  /\ Len(s) =< NPbuf
         /\ \A i \in 0..NPbuf : Reached[i] = IF i < Len(s) THEN s[i + 1] ELSE NULL
<1>. DEFINE step(f, i) == IF i = 0 THEN p_next
                          ELSE IF f[i - 1] = NULL THEN NULL ELSE next[f[i - 1]]
            g == [i \in 0..NPbuf |-> IF i < Len(s) THEN s[i + 1] ELSE NULL]
<1>1. NPbuf \in Nat /\ Len(s) \in Nat /\ \A i \in 1..Len(s) : s[i] \in Pbuf /\ s[i] # NULL
  BY Ne2kAssumption DEF Pbuf
<1>2. Len(s) =< NPbuf
  <2>1. IsFiniteSet(1..Len(s)) /\ Cardinality(1..Len(s)) = Len(s)
    <3>1. /\ IsFiniteSet(1..Len(s))
          /\ Cardinality(1..Len(s)) = IF 1 > Len(s) THEN 0 ELSE Len(s) - 1 + 1
      <4>1. 1 \in Int /\ Len(s) \in Int
        OBVIOUS
      <4>. QED BY <4>1, FS_Interval, Zenon
    <3>. QED BY <3>1
  <2>2. IsFiniteSet(Pbuf) /\ Cardinality(Pbuf) = NPbuf
    BY <1>1, FS_Interval DEF Pbuf
  <2>3. s \in [1..Len(s) -> Pbuf]
    OBVIOUS
  <2>4. SUFFICES ASSUME Cardinality(Pbuf) < Cardinality(1..Len(s)) PROVE FALSE
    BY <1>1, <2>1, <2>2
  <2>5. \E i, j \in 1..Len(s) : i # j /\ s[i] = s[j]
    BY <2>1, <2>2, <2>3, <2>4, FS_PigeonHole, Zenon
  <2>. QED BY <2>5 DEF Chain
<1>3. ASSUME NEW i \in 0..NPbuf PROVE g[i] = step(g, i)
  <2>1. CASE i = 0
    <3>1. s # <<>> <=> 0 < Len(s)
      OBVIOUS
    <3>. QED BY <1>1 DEF Chain
  <2>2. CASE i # 0
    <3>1. i - 1 \in 0..NPbuf /\ g[i - 1] = IF i - 1 < Len(s) THEN s[i] ELSE NULL
      BY <1>1
    <3>2. CASE i - 1 < Len(s)
      <4>1. i \in 1..Len(s)
        BY <2>2, <3>2
      <4>2. next[s[i]] = IF i = Len(s) THEN NULL ELSE s[i + 1]
        BY <4>1 DEF Chain
      <4>3. i = Len(s) <=> ~(i < Len(s))
        BY <4>1
      <4>. QED BY <1>1, <2>2, <4>2
    <3>3. CASE ~(i - 1 < Len(s))
      BY <1>1, <3>3
    <3>. QED BY <3>2, <3>3
  <2>. QED BY <2>1, <2>2
<1>4. g = [i \in 0..NPbuf |-> step(g, i)]
  BY <1>3
<1>5. Reached = [i \in 0..NPbuf |-> step(Reached, i)]
  <2>. DEFINE R == CHOOSE f : f = [i \in 0..NPbuf |-> step(f, i)]
  <2>1. R = [i \in 0..NPbuf |-> step(R, i)]
    <3>. HIDE DEF g
    <3>. QED BY <1>4
  <2>. QED BY <2>1 DEF Reached
<1>6. \A i \in 0..NPbuf : Reached[i] = step(Reached, i)
  <2>. HIDE DEF g, step
  <2>. QED BY <1>5
<1>. DEFINE T == {i \in 0..NPbuf : Reached[i] # g[i]}
<1>7. T = {}
  <2>. SUFFICES ASSUME T # {} PROVE FALSE
    OBVIOUS
  <2>1. PICK x \in T : \A y \in T : x =< y
    <3>1. T \subseteq Nat
      OBVIOUS
    <3>. HIDE DEF T
    <3>. QED BY <3>1, LeastNumber
  <2>2. x \in 0..NPbuf /\ (x # 0 => x - 1 \in 0..NPbuf /\ x - 1 \notin T)
    <3>1. x \in 0..NPbuf
      OBVIOUS
    <3>. HIDE DEF T
    <3>2. x - 1 \notin T
      BY <2>1, <3>1
    <3>. QED BY <1>1, <3>1, <3>2
  <2>3. x # 0 => Reached[x - 1] = g[x - 1]
    BY <2>2
  <2>4. step(Reached, x) = step(g, x)
    <3>. HIDE DEF g
    <3>. QED BY <2>3
  <2>5. Reached[x] = g[x]
    <3>. HIDE DEF g, step
    <3>. QED BY <1>3, <1>6, <2>4
  <2>. QED BY <2>5
<1>. QED BY <1>2, <1>7

\* The free pbufs are those of the ring.
LEMMA FreeListed ==
  ASSUME DriverInv, NEW s \in Seq(Pbuf), Chain(s)
  PROVE  Reached[NPbuf] = NULL /\ \A p \in Pbuf : p \in Free <=> Listed(s, p)
<1>1. NPbuf \in Nat /\ Len(s) \in Nat /\ \A i \in 1..Len(s) : s[i] \in Pbuf /\ s[i] # NULL
  BY Ne2kAssumption DEF Pbuf
<1>2. /\ Len(s) =< NPbuf
      /\ \A i \in 0..NPbuf : Reached[i] = IF i < Len(s) THEN s[i + 1] ELSE NULL
  BY ReachedChain
<1>3. Reached[NPbuf] = NULL
  BY <1>1, <1>2
<1>4. ASSUME NEW p \in Pbuf PROVE p \in Free <=> Listed(s, p)
  <2>1. p # NULL
    BY DEF Pbuf
  <2>2. ASSUME p \in Free PROVE Listed(s, p)
    <3>1. PICK i \in 0..NPbuf : Reached[i] = p
      BY <2>2 DEF Free
    <3>2. i < Len(s) /\ s[i + 1] = p /\ i + 1 \in 1..Len(s)
      BY <1>2, <2>1, <3>1
    <3>. QED BY <3>2 DEF Listed
  <2>3. ASSUME Listed(s, p) PROVE p \in Free
    <3>1. PICK i \in 1..Len(s) : s[i] = p
      BY <2>3 DEF Listed
    <3>2. i - 1 \in 0..NPbuf /\ i - 1 < Len(s) /\ (i - 1) + 1 = i
      BY <1>1, <1>2
    <3>3. Reached[i - 1] = p
      BY <1>2, <3>1, <3>2
    <3>. QED BY <2>1, <3>2, <3>3 DEF Free
  <2>. QED BY <2>2, <2>3
<1>. QED BY <1>3, <1>4

\* At, as the run's invariant says it.
LEMMA OnePlace ==
  ASSUME PbufInv, NEW p \in Pbuf
  PROVE  Reached[NPbuf] = NULL /\ Cardinality(Places(p)) = 1
<1>1. PICK s \in Seq(Pbuf) : Chain(s) /\ Placed(s)
  BY DEF PbufInv, Accounted
<1>2. PICK w \in PlaceKind : \A v \in PlaceKind : At(s, p, v) <=> v = w
  BY <1>1 DEF Placed
<1>. DEFINE F == IF p \in Free THEN {<<"free">>} ELSE {}
            Q == {<<"port_xmit", i>> : i \in {j \in 1..Len(port_xmit) : port_xmit[j] = p}}
            T == {<<"thread", t>> : t \in {u \in Thread : buf[u] = p /\ pc[u] # "advance"}}
            K == IF packet = p THEN {<<"packet">>} ELSE {}
            L == {<<"slot", f>> : f \in {g \in Used : tx_packet[g] = p /\ ~(g = send /\ SlotDone)}}
<1>3. Reached[NPbuf] = NULL /\ F = IF w = "free" THEN {<<"free">>} ELSE {}
  <2>1. Reached[NPbuf] = NULL /\ (p \in Free <=> Listed(s, p))
    BY <1>1, FreeListed DEF PbufInv
  <2>2. Listed(s, p) <=> w = "free"
    BY <1>2 DEF At, PlaceKind
  <2>. QED BY <2>1, <2>2
<1>4. K = IF w = "packet" THEN {<<"packet">>} ELSE {}
  BY <1>2 DEF At, PlaceKind
<1>5. (w # "queued" => Q = {}) /\ (w = "queued" => \E x : Q = {x})
  <2>1. Listed(port_xmit, p) <=> w = "queued"
    BY <1>2 DEF At, PlaceKind
  <2>2. ASSUME w = "queued" PROVE \E x : Q = {x}
    <3>1. PICK i \in 1..Len(port_xmit) : port_xmit[i] = p
      BY <2>1, <2>2 DEF Listed
    <3>2. {j \in 1..Len(port_xmit) : port_xmit[j] = p} = {i}
      BY <3>1 DEF PbufInv, Accounted, QueueApart
    <3>3. {<<"port_xmit", k>> : k \in {i}} = {<<"port_xmit", i>>}
      OBVIOUS
    <3>4. Q = {<<"port_xmit", i>>}
      BY <3>2, Zenon
    <3>. QED BY <3>4
  <2>. QED BY <2>1, <2>2 DEF Listed
<1>6. T = IF w \in Thread THEN {<<"thread", w>>} ELSE {}
  BY <1>2 DEF At, PlaceKind, Held
<1>7. (w # "slot" => L = {}) /\ (w = "slot" => \E x : L = {x})
  <2>1. \A f \in Slot : InSlot(p, f) <=> f \in Used /\ tx_packet[f] = p /\ ~(f = send /\ SlotDone)
    BY DEF InSlot, Used, Pbuf
  <2>2. (\E f \in Slot : InSlot(p, f)) <=> w = "slot"
    BY <1>2 DEF At, PlaceKind
  <2>3. ASSUME w = "slot" PROVE \E x : L = {x}
    <3>1. PICK f \in Slot : InSlot(p, f)
      BY <2>2, <2>3
    <3>2. \A g \in Slot : InSlot(p, g) => g = f
      BY <3>1 DEF InSlot, PbufInv, DriverInv, Data, Flow, Idle, InFlight, Serving, Loaded, Pbuf
    <3>3. {g \in Used : tx_packet[g] = p /\ ~(g = send /\ SlotDone)} = {f}
      BY <2>1, <3>1, <3>2 DEF Used
    <3>4. {<<"slot", k>> : k \in {f}} = {<<"slot", f>>}
      OBVIOUS
    <3>5. L = {<<"slot", f>>}
      BY <3>3, Zenon
    <3>. QED BY <3>5
  <2>. QED BY <2>1, <2>2, <2>3 DEF Used
<1>8. \E x : F \cup Q \cup T \cup K \cup L = {x}
  <2>. HIDE DEF F, Q, T, K, L
  <2>. QED BY <1>3, <1>4, <1>5, <1>6, <1>7 DEF PlaceKind
<1>9. Places(p) = F \cup Q \cup T \cup K \cup L
  BY DEF Places
<1>. QED BY <1>3, <1>8, <1>9, FS_Singleton

\* As long as receive takes the pbuf it was given, every pbuf is in one place,
\* whatever main, sender, control and the card do: the ring is never corrupted,
\* and no pbuf is freed twice, used while it is free or forgotten
\* (ne2k.c:145-191, 552-571).
THEOREM BuffersAlwaysAccounted == Spec => []BuffersAccounted
<1>1. stale \/ PbufInv => BuffersAccounted
  <2>1. PbufInv => \A p \in Pbuf : Reached[NPbuf] = NULL /\ Cardinality(Places(p)) = 1
    BY OnePlace
  <2>2. 1 \in Pbuf
    BY Ne2kAssumption DEF Pbuf
  <2>. QED BY <2>1, <2>2 DEF BuffersAccounted
<1>. QED BY <1>1, PbufAlways, PTL
=============================================================================
