------------------------------ MODULE Services ------------------------------
(***************************************************************************)
(* The programs of the system over message ports: the name server, the     *)
(* keyboard server and programs that read keys with getch of the library.  *)
(*                                                                         *)
(* Every step of a program is one system call of Port.tla, with what the   *)
(* program does up to its next one.  `letters' are the contents of the     *)
(* queued messages, which Port.tla does not need to know.                  *)
(*                                                                         *)
(* Programs are threads 1 to NBoot, one for each process, and none makes   *)
(* another thread here.                                                    *)
(***************************************************************************)
EXTENDS Port, SequencesExt

CONSTANTS
  MaxNames,   \* entries of the name server's table (32)
  ScanCodes,  \* what the keyboard controller reports; 1 enters the debugger
  MaxScans    \* bound: scan codes read in a behaviour

Namer == 1
Keyboard == 2
Callers == 2..NBoot
Clients == 3..NBoot

\* The resource table holds a port and a namer handle for every program.
ASSUME ServicesAssumption ==
  /\ NBoot = NTasks /\ NBoot >= 3
  /\ RMax > 3 * NBoot
  /\ MaxNames \in Nat \ {0}
  /\ ScanCodes \subseteq 2..255
  /\ MaxScans \in Nat /\ MaxScans =< MaxQueue /\ NBoot =< MaxQueue
  /\ {0, 1} \subseteq Restricts /\ {4, 36} \subseteq Sizes

VARIABLES
  pc,        \* pc[t]: where program t is, see Init
  letters,   \* letters[id][i]: sender and contents of queue[id][i]
  names,     \* the name server's names and ports
  request,   \* msg and mh.src of its main, NoLetter once replied to
  nh, port,  \* of a caller: its namer handle, 0 while it has none, and its own
             \* port (listenPort, keyh)
  answer,    \* of a caller: what the name server said (stdin of getch)
  send_port, shift, key,  \* of keyboard_thread; key is what it is about to send
  scans, got \* history: scan codes read, keys getch has returned to a client

progVars == <<pc, letters, names, request, nh, port, answer,
              send_port, shift, key, scans, got>>
serviceVars == <<vars, progVars>>

NoLetter == [from |-> 0, text |-> "", data |-> 0]

ServicesInit ==
  /\ Init
  /\ pc = [t \in Task |-> IF t = Namer THEN "receive" ELSE IF t \in Clients THEN "handle" ELSE "open"]
  /\ letters = [id \in Id |-> <<>>]
  /\ names = <<[text |-> "namer", port |-> 1]>>
  /\ request = NoLetter
  /\ nh = [t \in Task |-> 0] /\ port = [t \in Task |-> 0] /\ answer = [t \in Task |-> 0]
  /\ send_port = 0 /\ shift = FALSE /\ key = <<>>
  /\ scans = <<>> /\ got = [t \in Task |-> <<>>]

-----------------------------------------------------------------------------
(* System calls of programs *)

Goto(t, from, to) == pc[t] = from /\ pc' = [pc EXCEPT ![t] = to]

\* port_send of l, whose result no program here looks at but namer_register, for
\* which it does not fail: an error changes nothing.
Send(t, dst, size, l) ==
  \/ /\ port_send(t, l.from, dst, size)
     /\ letters' = [letters EXCEPT ![Target(dst)] = Append(@, l)]
  \/ /\ Running(t)
     /\ SendResult(t, l.from, dst, size) # "OK"
     /\ UNCHANGED <<letters, vars>>

\* A run of port_recv up to its end, or to where it sleeps.
Receive(t, id) ==
  \/ port_recv(t, id)
  \/ waiting[t] = id /\ RecvResume(t)

Received(t, id) == Receive(t, id) /\ waiting'[t] = 0 /\ letters' = [letters EXCEPT ![id] = Tail(@)]
Sleeps(t, id) == Receive(t, id) /\ waiting'[t] # 0 /\ UNCHANGED progVars

-----------------------------------------------------------------------------
(* namer.c *)

Err == [NONE |-> 0, PERMISSION |-> -1, MEMORY |-> -3]

RegisterResult(p) ==
  IF \E i \in DOMAIN names : names[i].port = p THEN Err.PERMISSION
  ELSE IF Len(names) = MaxNames THEN Err.MEMORY
  ELSE Err.NONE

port_register(p, text) ==
  names' = IF RegisterResult(p) = Err.NONE THEN Append(names, [text |-> text, port |-> p])
           ELSE names

\* Faulty variant of port_find: names are not compared to the end.
port_find_Any(text) == names[Len(names)].port

\* The first of that name.
port_find(text) ==
  LET found == {i \in DOMAIN names : names[i].text = text} IN
  IF found = {} THEN 0
  ELSE names[CHOOSE i \in found : \A j \in found : i =< j].port

NamerReceive ==
  \/ pc[Namer] = "receive" /\ Sleeps(Namer, 1)
  \/ /\ Goto(Namer, "receive", "serve")
     /\ Received(Namer, 1)
     /\ request' = Head(letters[1])
     /\ UNCHANGED <<names, nh, port, answer, send_port, shift, key, scans, got>>

Reply(data) == Send(Namer, request.from, 4, [from |-> 1, text |-> "", data |-> data])

\* Faulty variant of Serve: a name that is not there is not answered.
Serve_Silent ==
  \/ /\ request.data # 0
     /\ port_register(request.data, request.text)
     /\ Reply(RegisterResult(request.data))
  \/ /\ request.data = 0
     /\ IF port_find(request.text) # 0 THEN Reply(port_find(request.text))
        ELSE UNCHANGED <<letters, vars>>
     /\ UNCHANGED names

Serve ==
  \/ /\ request.data # 0
     /\ port_register(request.data, request.text)
     /\ Reply(RegisterResult(request.data))
  \/ /\ request.data = 0
     /\ Reply(port_find(request.text))
     /\ UNCHANGED names

\* A request from port 1 would leave the server in a loop for good.
NamerReply ==
  /\ request.from # 1
  /\ Goto(Namer, "serve", "receive")
  /\ Serve
  /\ request' = NoLetter
  /\ UNCHANGED <<nh, port, answer, send_port, shift, key, scans, got>>

-----------------------------------------------------------------------------
(* lib/namer.c, and the programs up to the end of their call of it *)

\* The server registers its port; namer_find asks with number 0.
Number(t) == IF t \in Clients THEN 0 ELSE port[t]

\* port_create(0), of main of keyboard and of getch.
OpenPort(t) ==
  /\ \/ t \in Clients /\ Goto(t, "open", "attach")
     \/ t = Keyboard /\ Goto(t, "open", "handle")
  /\ port' = [port EXCEPT ![t] = NewId]
  /\ port_create(t, 0)
  /\ UNCHANGED <<letters, names, request, nh, answer, send_port, shift, key, scans, got>>

\* namer_newhandle: a port that only the name server may send to.
namer_newhandle(t) ==
  /\ Goto(t, "handle", "ask")
  /\ nh' = [nh EXCEPT ![t] = NewId]
  /\ port_create(t, 1)
  /\ UNCHANGED <<letters, names, request, port, answer, send_port, shift, key, scans, got>>

\* The two halves of namer_register and namer_find.
NamerAsk(t) ==
  /\ Goto(t, "ask", "answer")
  /\ Send(t, 1, 36, [from |-> nh[t], text |-> "keyboard", data |-> Number(t)])
  /\ UNCHANGED <<names, request, nh, port, answer, send_port, shift, key, scans, got>>

NamerAnswer(t) ==
  \/ pc[t] = "answer" /\ Sleeps(t, nh[t])
  \/ /\ Goto(t, "answer", "delete")
     /\ Received(t, nh[t])
     /\ answer' = [answer EXCEPT ![t] = Head(letters[nh[t]]).data]
     /\ UNCHANGED <<names, request, nh, port, send_port, shift, key, scans, got>>

namer_delhandle(t) ==
  /\ \/ t \in Clients /\ Goto(t, "delete", "open")
     \/ t = Keyboard /\ Goto(t, "delete", "listen")
  /\ port_destroy(t, nh[t])
  /\ nh' = [nh EXCEPT ![t] = 0]
  /\ letters' = [letters EXCEPT ![nh[t]] = <<>>]
  /\ UNCHANGED <<names, request, port, answer, send_port, shift, key, scans, got>>

-----------------------------------------------------------------------------
(* lib/keyboard.c *)

\* getch says where it wants its keys, whatever the name server answered, and
\* never again.
Attach(t) ==
  /\ Goto(t, "attach", "read")
  /\ Send(t, answer[t], 4, [from |-> port[t], text |-> "", data |-> 15])
  /\ UNCHANGED <<names, request, nh, port, answer, send_port, shift, key, scans, got>>

\* getch returns a key and is called again.
ReadKey(t) ==
  /\ pc[t] = "read"
  /\ \/ Sleeps(t, port[t])
     \/ /\ Received(t, port[t])
        /\ got' = [got EXCEPT ![t] = Append(@, Head(letters[port[t]]).data)]
        /\ UNCHANGED <<pc, names, request, nh, port, answer, send_port, shift, key, scans>>

\* Faulty variant of Exit: a program may be ended inside a call of the library.
Exit_Anywhere(t) ==
  /\ ScTerminateProcess(t)
  /\ UNCHANGED progVars

\* A program that uses getch ends, before its first call or after any.
Exit(t) ==
  /\ pc[t] = "handle" \/ (pc[t] = "read" /\ got[t] # <<>>)
  /\ ScTerminateProcess(t)
  /\ UNCHANGED progVars

-----------------------------------------------------------------------------
(* keyboard.c *)

\* The first message tells where keys go.  No later one is ever received.
KeyboardListen ==
  \/ pc[Keyboard] = "listen" /\ Sleeps(Keyboard, port[Keyboard])
  \/ /\ Goto(Keyboard, "listen", "sleep")
     /\ Received(Keyboard, port[Keyboard])
     /\ send_port' = Head(letters[port[Keyboard]]).from
     /\ UNCHANGED <<names, request, nh, port, answer, shift, key, scans, got>>

LSHIFT == 42
RSHIFT == 54
Break(k) == k + 128

\* ScanTable[k] and ShiftTable[k], told apart by the shift.
Char(k, s) == <<k, s>>

\* Faulty variant of NextShift: the shift stays.
NextShift_Sticky(k) == shift \/ k \in {LSHIFT, RSHIFT}

NextShift(k) ==
  k \in {LSHIFT, RSHIFT} \/ (shift /\ k \notin {Break(LSHIFT), Break(RSHIFT)})

\* os_sleep_irq returns with scan code k, which the controller holds until then.
KeyboardScan(k) ==
  /\ Running(Keyboard) /\ Len(scans) < MaxScans
  /\ scans' = Append(scans, k)
  /\ shift' = NextShift(k)
  /\ IF k < 59 /\ k \notin {LSHIFT, RSHIFT}
     THEN Goto(Keyboard, "sleep", "send") /\ key' = Char(k, shift)
     ELSE Goto(Keyboard, "sleep", "sleep") /\ key' = <<>>
  /\ UNCHANGED <<vars, letters, names, request, nh, port, answer, send_port, got>>

KeyboardSend ==
  /\ Goto(Keyboard, "send", "sleep")
  /\ Send(Keyboard, send_port, 4, [from |-> port[Keyboard], text |-> "", data |-> key])
  /\ key' = <<>>
  /\ UNCHANGED <<names, request, nh, port, answer, send_port, shift, scans, got>>

-----------------------------------------------------------------------------
\* What program t does next, its wait for a scan code apart.
Step(t) ==
  \/ t = Namer /\ (NamerReceive \/ NamerReply)
  \/ t \in Callers /\ OpenPort(t)
  \/ t \in Callers /\ namer_newhandle(t)
  \/ t \in Callers /\ NamerAsk(t)
  \/ t \in Callers /\ NamerAnswer(t)
  \/ t \in Callers /\ namer_delhandle(t)
  \/ t \in Clients /\ (Attach(t) \/ ReadKey(t))
  \/ t = Keyboard /\ (KeyboardListen \/ KeyboardSend)

ServicesNext ==
  \/ \E t \in Task : Step(t)
  \/ \E t \in Clients : Exit(t)
  \/ \E k \in ScanCodes : KeyboardScan(k)
  \/ \E t \in Task : PsCleanUpTask(t) /\ UNCHANGED progVars

ServicesSpec == ServicesInit /\ [][ServicesNext]_serviceVars

\* A program that is ready runs eventually, and so does one woken in a call
\* (ReadyRuns of Sched.tla).
ServicesFairSpec ==
  /\ ServicesSpec
  /\ WF_serviceVars(NamerReceive \/ NamerReply)
  /\ \A t \in Callers : WF_serviceVars(NamerAnswer(t))

-----------------------------------------------------------------------------
(* Correctness *)

Calling(t) == pc[t] = "answer"

\* A port found under a name is a port of the program of that name.
AnswerRight(t, data) ==
  data > 0 => t \in Clients /\ IsPort(data) /\ owner[data] = Keyboard

\* A call of the name server that is in progress is in one place: it is asked,
\* being served or answered; and when there is none, nothing of an earlier one
\* is left, although port numbers are used again at once (namer.c:50-87,
\* lib/namer.c:19-45, port.c:43).  The answer is to what was asked.
Asked(t) == {i \in DOMAIN letters[1] : letters[1][i].from = nh[t]}
Served(t) == pc[Namer] = "serve" /\ request.from = nh[t]

CallsSound ==
  /\ \A t \in Callers : nh[t] # 0 =>
       /\ Cardinality(Asked(t)) + (IF Served(t) THEN 1 ELSE 0) + Len(letters[nh[t]])
            = IF Calling(t) THEN 1 ELSE 0
       /\ \A i \in DOMAIN letters[nh[t]] : AnswerRight(t, letters[nh[t]][i].data)
  /\ \A t \in Callers : AnswerRight(t, answer[t])
  /\ \A i \in DOMAIN letters[1] : \E t \in Callers : nh[t] = letters[1][i].from

\* port_send reads the owner of the port it sends to (port.c:183), which is freed
\* memory once that program has ended: the name server never does, and the
\* keyboard server only when the program it serves has ended.
Lives(t) == state[t] \in {"READY", "SLEEP_PORT"}
ServersLive ==
  /\ Lives(Namer)
  /\ Lives(Keyboard) \/ \E t \in Clients : port[t] = send_port /\ ~Lives(t)

\* What the scan codes s say: a key that has a character, shifted if the last
\* that happened to a shift key before it was a press.
Shifted(s, i) ==
  \E j \in 1..(i - 1) :
    /\ s[j] \in {LSHIFT, RSHIFT}
    /\ \A l \in (j + 1)..(i - 1) : s[l] \notin {Break(LSHIFT), Break(RSHIFT)}
Typed(s) ==
  LET typed == {i \in DOMAIN s : s[i] < 59 /\ s[i] \notin {LSHIFT, RSHIFT}}
      rank(i) == Cardinality({j \in typed : j =< i})
  IN [n \in 1..Cardinality(typed) |->
        LET i == CHOOSE i \in typed : rank(i) = n IN Char(s[i], Shifted(s, i))]

\* The program that the keyboard serves gets every character typed since, once
\* and in order, and no other program gets any, over sleeps and wake-ups of both
\* and the end of either (keyboard.c:52-99, lib/keyboard.c:37-41, port.c:209-248).
KeysInOrder ==
  \A t \in Clients :
    port[t] # 0 =>
      LET queued == [i \in DOMAIN letters[port[t]] |-> letters[port[t]][i].data] IN
      got[t] \o queued
        = IF port[t] = send_port
          THEN LET all == Typed(scans) IN
               IF pc[Keyboard] = "send" THEN Front(all) ELSE all
          ELSE <<>>

\* Every call of the name server returns.
CallReturns == \A t \in Callers : Calling(t) ~> ~Calling(t)
=============================================================================
