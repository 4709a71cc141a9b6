--------------------------- MODULE ServicesProofs ---------------------------
(***************************************************************************)
(* Safety of the programs over message ports, for any number of programs,  *)
(* names and scan codes.                                                   *)
(***************************************************************************)
EXTENDS Services, PortProofs

KeyChar == ScanCodes \X BOOLEAN
Letter == [from : 0..(RMax - 1), text : {"", "keyboard"}, data : Int \cup KeyChar]
Name == [text : {"namer", "keyboard"}, port : 0..(RMax - 1)]

Label == {"receive", "serve", "open", "handle", "ask", "answer", "delete", "attach", "read",
          "listen", "sleep", "send"}

ProgTypes ==
  /\ pc \in [Task -> Label]
  /\ letters \in [Id -> Seq(Letter)]
  /\ names \in Seq(Name)
  /\ request \in Letter
  /\ nh \in [Task -> 0..(RMax - 1)]
  /\ port \in [Task -> 0..(RMax - 1)]
  /\ answer \in [Task -> Int]
  /\ send_port \in 0..(RMax - 1)
  /\ shift \in BOOLEAN
  /\ scans \in Seq(ScanCodes)
  /\ got \in [Task -> Seq(KeyChar)]

\* No port is a slave, and letters are the messages queued.
Sync == \A id \in Id : slaved[id] = 0 /\ Len(letters[id]) = Len(queue[id])

\* Where the programs are, and the ports they have there.
Owns(t, id, r) == IsPort(id) /\ owner[id] = t /\ restrict[id] = r

Belongs ==
  /\ Owns(Namer, 1, 0)
  /\ \A t \in Callers :
       /\ nh[t] # 0 => Owns(t, nh[t], 1)
       /\ port[t] # 0 => Owns(t, port[t], 0)

Stages ==
  /\ pc[Namer] \in {"receive", "serve"}
  /\ pc[Keyboard] \in {"open", "handle", "ask", "answer", "delete", "listen", "sleep", "send"}
  /\ port[Keyboard] # 0 <=> pc[Keyboard] # "open"
  /\ \A t \in Clients :
       /\ pc[t] \in {"handle", "ask", "answer", "delete", "open", "attach", "read"}
       /\ port[t] # 0 <=> pc[t] \in {"attach", "read"}
  /\ \A t \in Callers : nh[t] # 0 <=> pc[t] \in {"ask", "answer", "delete"}

Positions == Belongs /\ Stages

\* Who may have ended.
Ended ==
  /\ ServersLive
  /\ \A t \in Clients : Lives(t) \/ pc[t] \in {"handle", "read"}
  /\ Lives(Keyboard) \/ pc[Keyboard] = "sleep"

\* The keyboard's port is what the name server says of it.
AnswerIs(t, data) == data \in Int /\ (data > 0 => t \in Clients /\ data = port[Keyboard])
Naming ==
  /\ \A i \in 1..Len(names) : names[i].text = "keyboard" =>
       names[i].port = port[Keyboard] /\ port[Keyboard] # 0
  /\ \A t \in Callers : AnswerIs(t, answer[t])

\* A call is in one place.
Request(t, l) == l.from = nh[t] /\ l.text = "keyboard" /\ l.data = Number(t)
Question(t) == \E i \in 1..Len(letters[1]) : letters[1][i].from = nh[t]
OnePlace(t) ==
  \/ Question(t) /\ ~Served(t) /\ letters[nh[t]] = <<>>
  \/ ~Question(t) /\ Served(t) /\ letters[nh[t]] = <<>>
  \/ ~Question(t) /\ ~Served(t) /\ Len(letters[nh[t]]) = 1
NoPlace(t) == ~Question(t) /\ ~Served(t) /\ letters[nh[t]] = <<>>

Calls ==
  /\ \A i \in 1..Len(letters[1]) : \E t \in Callers : Calling(t) /\ Request(t, letters[1][i])
  /\ \A i, j \in 1..Len(letters[1]) : letters[1][i].from = letters[1][j].from => i = j
  /\ pc[Namer] = "serve" => \E t \in Callers : Calling(t) /\ Request(t, request)
  /\ \A t \in Callers :
       /\ Calling(t) => OnePlace(t)
       /\ nh[t] # 0 /\ ~Calling(t) => NoPlace(t)
       /\ nh[t] # 0 => \A i \in 1..Len(letters[nh[t]]) : AnswerIs(t, letters[nh[t]][i].data)

\* What is typed, and where in the scan codes.
TypedAt(s) == {i \in DOMAIN s : s[i] < 59 /\ s[i] \notin {LSHIFT, RSHIFT}}
Rank(T, i) == Cardinality({j \in T : j =< i})
Ranked(T) == \A n \in 1..Cardinality(T) : \E i \in T : Rank(T, i) = n
Datas(q) == [i \in DOMAIN q |-> q[i].data]
Expected == IF pc[Keyboard] = "send" THEN Front(Typed(scans)) ELSE Typed(scans)
Heard ==
  \A t \in Clients : port[t] # 0 =>
    got[t] \o Datas(letters[port[t]]) = IF port[t] = send_port THEN Expected ELSE <<>>
Typing ==
  /\ pc[Keyboard] \in {"sleep", "send"} =>
       \E t \in Clients : port[t] = send_port /\ port[t] # 0
  /\ pc[Keyboard] \notin {"sleep", "send"} => send_port = 0 /\ scans = <<>>
  /\ port[Keyboard] # 0 => \A i \in 1..Len(letters[port[Keyboard]]) :
       \E t \in Clients : port[t] # 0 /\ port[t] = letters[port[Keyboard]][i].from
  /\ shift = Shifted(scans, Len(scans) + 1)
  /\ Typed(scans) \in Seq(KeyChar)
  /\ Ranked(TypedAt(scans))
  /\ pc[Keyboard] = "send" => Typed(scans) # <<>> /\ key = Last(Typed(scans))
  /\ \A t \in Clients : /\ port[t] = 0 => got[t] = <<>>
                        /\ port[t] # 0 => \A i \in 1..Len(letters[port[t]]) :
                                            letters[port[t]][i].data \in KeyChar

ProgInv ==
  /\ ProgTypes /\ Sync /\ Positions /\ Ended /\ Naming /\ Calls /\ Typing /\ Heard
Inv == PortInv /\ ProgInv

-----------------------------------------------------------------------------
(* The kernel's side: what a system call changes *)

LEMMA Programs ==
  /\ Namer = 1 /\ Namer \in Task /\ Keyboard \in Task /\ Clients \subseteq Task
  /\ Callers = Clients \cup {Keyboard} /\ Task = Callers \cup {Namer}
  /\ Keyboard \notin Clients /\ Namer \notin Callers /\ Namer # Keyboard
  /\ 1 \in Id /\ 0 \notin Id /\ Id \subseteq 0..(RMax - 1) /\ 0 \in 0..(RMax - 1)
BY Constants, ServicesAssumption, PortAssumption, RMaxAssumption
   DEF Namer, Keyboard, Clients, Callers, Task, Id

\* The port under id stays as it is.
Same(id) == rtype'[id] = rtype[id] /\ owner'[id] = owner[id] /\ restrict'[id] = restrict[id]

LEMMA InvShape ==
  ASSUME PortInv
  PROVE  /\ rtype \in [Id -> Kind \cup {"NONE"}] /\ owner \in [Id -> 0..NTasks]
         /\ restrict \in [Id -> Int] /\ slaved \in [Id -> 0..(RMax - 1)]
         /\ queue \in [Id -> Seq(SoundMessage)] /\ state \in [Task -> States]
         /\ waiting \in [Task -> 0..(RMax - 1)]
         /\ RsrcInv
         /\ \A id \in Id : rtype[id] # "PORT" => queue[id] = <<>> /\ slaved[id] = 0
BY DEF PortInv, Table, Shape, PortShape, RsrcInv, RsrcTypeOK, Records, IsPort, IsLive

LEMMA CreateEffect ==
  ASSUME PortInv, Sync, NEW t \in Task, NEW r, port_create(t, r)
  PROVE  /\ NewId \in Id /\ rtype[NewId] # "PORT"
         /\ rtype'[NewId] = "PORT" /\ owner'[NewId] = t /\ restrict'[NewId] = r
         /\ \A id \in Id \ {NewId} : Same(id)
         /\ queue' = queue /\ slaved' = slaved /\ state' = state /\ queue[NewId] = <<>>
<1>1. /\ NewId \in Id /\ rtype[NewId] = "NONE" /\ rtype' = [rtype EXCEPT ![NewId] = "PORT"]
  BY InvShape, RsrcNewSound DEF port_create, Kind
<1>2. queue[NewId] = <<>> /\ slaved[NewId] = 0
  BY <1>1, InvShape
<1>3. /\ owner' = [owner EXCEPT ![NewId] = t] /\ restrict' = [restrict EXCEPT ![NewId] = r]
      /\ slaved' = [slaved EXCEPT ![NewId] = 0] /\ queue' = [queue EXCEPT ![NewId] = <<>>]
      /\ state' = state
  BY DEF port_create, Structure
<1>4. queue' = queue /\ slaved' = slaved
  BY <1>2, <1>3, InvShape
<1>. QED BY <1>1, <1>2, <1>3, <1>4, InvShape DEF Same

LEMMA DestroyEffect ==
  ASSUME PortInv, Sync, NEW t \in Task, NEW id, port_destroy(t, id)
  PROVE  /\ id \in Id
         /\ \A i \in Id \ {id} : Same(i)
         /\ queue' = [queue EXCEPT ![id] = <<>>] /\ slaved' = slaved /\ state' = state
<1>1. IsPort(id) /\ rsrc_del(id) /\ Structure(id, 0, 0) /\ state' = state
  BY DestroyOK DEF port_destroy
<1>2. id \in Id /\ rtype' = [rtype EXCEPT ![id] = "NONE"]
  BY <1>1, InvShape, RsrcDelSound, Constants DEF IsPort, IsLive
<1>3. /\ owner' = [owner EXCEPT ![id] = 0] /\ restrict' = [restrict EXCEPT ![id] = 0]
      /\ slaved' = [slaved EXCEPT ![id] = 0] /\ queue' = [queue EXCEPT ![id] = <<>>]
  BY <1>1 DEF Structure
<1>4. slaved' = slaved
  BY <1>2, <1>3, InvShape DEF Sync
<1>. QED BY <1>1, <1>2, <1>3, <1>4, InvShape DEF Same

\* A call that leaves all ports but the queues alone.
Kept == UNCHANGED <<rtype, owner, restrict, slaved>>

\* A letter that is sent joins the queue of its port; its sender may end over it.
Sent(t, dst, l) ==
  /\ dst \in Id /\ rtype[dst] = "PORT"
  /\ restrict[dst] = 0 \/ restrict[dst] = l.from
  /\ letters' = [letters EXCEPT ![dst] = Append(@, l)]
  /\ \A i \in Id \ {dst} : queue'[i] = queue[i]
  /\ Len(queue'[dst]) = Len(queue[dst]) + 1
  /\ Kept
  /\ \A u \in Task : u # t => (Lives(u)' <=> Lives(u))
  /\ Lives(t)' \/ state[owner[dst]] = "FREED"

LEMMA SendEffect ==
  ASSUME PortInv, Sync, NEW t \in Task, NEW dst, NEW size, NEW l, Send(t, dst, size, l)
  PROVE  /\ Lives(t)
         /\ \/ Sent(t, dst, l)
            \/ SendResult(t, l.from, dst, size) # "OK" /\ UNCHANGED <<letters, vars>>
<1>1. Lives(t)
  BY DEF Send, port_send, Running, Lives
<1>2. CASE /\ port_send(t, l.from, dst, size)
           /\ letters' = [letters EXCEPT ![Target(dst)] = Append(@, l)]
  <2>1. /\ dst \in Id /\ rtype[dst] = "PORT" /\ Target(dst) = dst
        /\ restrict[dst] = 0 \/ restrict[dst] = l.from
    <3>1. IsPort(dst) /\ ~Restricted(dst, l.from)
      BY <1>2 DEF port_send, SendResult
    <3>2. dst \in Id /\ rtype[dst] = "PORT"
      BY <3>1 DEF IsPort, IsLive
    <3>. QED BY <3>1, <3>2 DEF Sync, Target, Restricted
  <2>2. /\ queue' = [queue EXCEPT ![dst] = Append(@, [to |-> dst, size |-> size, page |-> CarrierPage(size)])]
        /\ WakeOwner(t, dst, dst) /\ Kept
    BY <1>2, <2>1 DEF port_send, Kept, rsrcVars, linkVars
  <2>3. /\ \A i \in Id \ {dst} : queue'[i] = queue[i]
        /\ Len(queue'[dst]) = Len(queue[dst]) + 1
    <3>1. queue \in [Id -> Seq(SoundMessage)]
      BY InvShape
    <3>. DEFINE m == [to |-> dst, size |-> size, page |-> CarrierPage(size)]
    <3>2. queue[dst] \in Seq(SoundMessage)
      BY <2>1, <3>1
    <3>3. Len(Append(queue[dst], m)) = Len(queue[dst]) + 1
      BY <3>2
    <3>. QED BY <2>1, <2>2, <3>1, <3>3
  <2>4. /\ \A u \in Task : u # t => (Lives(u)' <=> Lives(u))
        /\ Lives(t)' \/ state[owner[dst]] = "FREED"
    <3>1. state \in [Task -> States] /\ owner[dst] \in 0..NTasks
      BY <2>1, InvShape
    <3>2. CASE state[owner[dst]] = "SLEEP_PORT" /\ state' = [state EXCEPT ![owner[dst]] = "READY"]
      BY <1>1, <3>1, <3>2 DEF Lives
    <3>3. CASE state' = state
      BY <1>1, <3>3 DEF Lives
    <3>4. CASE state[owner[dst]] = "FREED" /\ state' = [state EXCEPT ![t] = "DEAD"]
      BY <3>1, <3>4 DEF Lives
    <3>. QED BY <2>2, <3>2, <3>3, <3>4 DEF WakeOwner, Freed
  <2>. QED BY <1>1, <1>2, <2>1, <2>2, <2>3, <2>4 DEF Sent
<1>3. CASE SendResult(t, l.from, dst, size) # "OK" /\ UNCHANGED <<letters, vars>>
  BY <1>1, <1>3
<1>. QED BY <1>2, <1>3 DEF Send

\* A run of port_recv takes the first letter or sleeps.
LEMMA ReceiveEffect ==
  ASSUME PortInv, Sync, NEW t \in Task, NEW id, Receive(t, id)
  PROVE  /\ id \in Id /\ Kept /\ Lives(t)
         /\ \/ /\ waiting'[t] = 0 /\ queue[id] # <<>>
               /\ queue' = [queue EXCEPT ![id] = Tail(@)] /\ state' = state
            \/ /\ waiting'[t] # 0 /\ queue' = queue
               /\ state' = [state EXCEPT ![t] = "SLEEP_PORT"]
<1>1. /\ state[t] = "READY" /\ RecvLoop(t, id) /\ Kept /\ id \in Id
  <2>1. CASE port_recv(t, id)
    <3>1. IsPort(id)
      BY <2>1, RecvOK DEF port_recv
    <3>. QED BY <2>1, <3>1 DEF port_recv, Running, Kept, rsrcVars, linkVars, IsPort, IsLive
  <2>2. CASE waiting[t] = id /\ RecvResume(t)
    <3>1. id # 0 /\ id \in 0..(RMax - 1)
      BY <2>2, InvShape DEF RecvResume
    <3>2. id \in Id
      BY <3>1, Constants
    <3>. QED BY <2>2, <3>2 DEF RecvResume, Kept, rsrcVars, linkVars
  <2>. QED BY <2>1, <2>2 DEF Receive
<1>2. id # 0 /\ waiting \in [Task -> 0..(RMax - 1)]
  BY <1>1, Programs, InvShape
<1>. QED BY <1>1, <1>2 DEF RecvLoop, Lives

-----------------------------------------------------------------------------
(* What is not touched stays. *)

LEMMA NamingFrame ==
  ASSUME Naming, UNCHANGED <<names, answer>>,
         port'[Keyboard] = port[Keyboard] \/ port[Keyboard] = 0
  PROVE  Naming'
BY DEF Naming, AnswerIs

\* Calls looks at the queues of the name server and of handles, and at port only
\* while the keyboard asks or is answered.
LEMMA CallsFrame ==
  ASSUME Positions, Calls, UNCHANGED <<nh, request>>, letters'[1] = letters[1],
         \A t \in Callers : nh[t] # 0 => letters'[nh[t]] = letters[nh[t]],
         pc'[Namer] = "serve" <=> pc[Namer] = "serve",
         \A t \in Callers : pc'[t] = "answer" <=> pc[t] = "answer",
         port'[Keyboard] = port[Keyboard] \/ (port[Keyboard] = 0 /\ pc[Keyboard] # "answer")
  PROVE  Calls'
<1>1. \A t \in Callers : /\ Question(t)' <=> Question(t)
                         /\ Served(t)' <=> Served(t)
                         /\ Calling(t)' <=> Calling(t)
  BY DEF Question, Served, Calling
<1>2. \A t \in Callers : \A l : Calling(t) /\ Request(t, l) => Request(t, l)'
  BY Programs DEF Calling, Request, Number
<1>3. /\ \A i \in 1..Len(letters[1]) : \E t \in Callers : Calling(t) /\ Request(t, letters[1][i])
      /\ \A i, j \in 1..Len(letters[1]) : letters[1][i].from = letters[1][j].from => i = j
      /\ pc[Namer] = "serve" => \E t \in Callers : Calling(t) /\ Request(t, request)
  BY DEF Calls
<1>4. (\A i \in 1..Len(letters[1]) : \E t \in Callers : Calling(t) /\ Request(t, letters[1][i]))'
  BY <1>1, <1>2, <1>3 DEF Request
<1>5. (pc[Namer] = "serve" => \E t \in Callers : Calling(t) /\ Request(t, request))'
  BY <1>1, <1>2, <1>3 DEF Request
<1>6. ASSUME NEW t \in Callers
      PROVE  /\ Calling(t)' => OnePlace(t)'
             /\ nh'[t] # 0 /\ ~Calling(t)' => NoPlace(t)'
  <2>1. CASE nh[t] # 0
    BY <1>1, <2>1 DEF Calls, OnePlace, NoPlace
  <2>2. CASE nh[t] = 0
    BY <1>1, <2>2 DEF Positions, Stages, Calling
  <2>. QED BY <2>1, <2>2
<1>7. (\A t \in Callers : nh[t] # 0 => \A i \in 1..Len(letters[nh[t]]) : AnswerIs(t, letters[nh[t]][i].data))'
  BY DEF Calls, AnswerIs
<1>. QED BY <1>3, <1>4, <1>5, <1>6, <1>7 DEF Calls

LEMMA TypingFrame ==
  ASSUME Typing, UNCHANGED <<port, send_port, scans, shift, key, got>>,
         pc'[Keyboard] \in {"sleep", "send"} <=> pc[Keyboard] \in {"sleep", "send"},
         pc'[Keyboard] = "send" <=> pc[Keyboard] = "send",
         \A t \in Callers : port[t] # 0 => letters'[port[t]] = letters[port[t]]
  PROVE  Typing'
<1>1. /\ pc'[Keyboard] \in {"sleep", "send"} =>
           \E t \in Clients : port'[t] = send_port' /\ port'[t] # 0
      /\ pc'[Keyboard] \notin {"sleep", "send"} => send_port' = 0 /\ scans' = <<>>
      /\ (shift = Shifted(scans, Len(scans) + 1))'
      /\ (pc[Keyboard] = "send" => Typed(scans) # <<>> /\ key = Last(Typed(scans)))'
      /\ Typed(scans)' \in Seq(KeyChar) /\ Ranked(TypedAt(scans))'
      /\ \A t \in Clients : port'[t] = 0 => got'[t] = <<>>
  BY DEF Typing
<1>2. (port[Keyboard] # 0 => \A i \in 1..Len(letters[port[Keyboard]]) :
         \E t \in Clients : port[t] # 0 /\ port[t] = letters[port[Keyboard]][i].from)'
  BY Programs DEF Typing
<1>3. (\A t \in Clients : port[t] # 0 => \A i \in 1..Len(letters[port[t]]) :
         letters[port[t]][i].data \in KeyChar)'
  BY Programs DEF Typing
<1>. QED BY <1>1, <1>2, <1>3 DEF Typing

LEMMA HeardFrame ==
  ASSUME Heard, UNCHANGED <<port, send_port, scans, got>>,
         pc'[Keyboard] = "send" <=> pc[Keyboard] = "send",
         \A t \in Clients : port[t] # 0 => letters'[port[t]] = letters[port[t]]
  PROVE  Heard'
<1>1. Expected' = Expected
  BY DEF Expected
<1>. QED BY <1>1, Programs DEF Heard

LEMMA HeardMeans == Heard => KeysInOrder
BY DEF Heard, Expected, Datas, KeysInOrder

\* Every port of the programs has one use.
LEMMA Distinct ==
  ASSUME Positions
  PROVE  /\ \A t \in Callers :
              /\ nh[t] # 0 => /\ nh[t] \in Id /\ rtype[nh[t]] = "PORT" /\ owner[nh[t]] = t
                              /\ restrict[nh[t]] = 1 /\ nh[t] # 1
              /\ port[t] # 0 => /\ port[t] \in Id /\ rtype[port[t]] = "PORT" /\ owner[port[t]] = t
                                /\ restrict[port[t]] = 0 /\ port[t] # 1
         /\ \A t, u \in Callers :
              /\ nh[t] # 0 /\ nh[t] = nh[u] => t = u
              /\ port[t] # 0 /\ port[t] = port[u] => t = u
              /\ port[t] # 0 => port[t] # nh[u]
         /\ rtype[1] = "PORT" /\ owner[1] = Namer /\ restrict[1] = 0
         /\ \A t \in Callers : pc[t] = "answer" => nh[t] # 0
<1>1. /\ \A t \in Callers :
           /\ nh[t] # 0 => /\ nh[t] \in Id /\ rtype[nh[t]] = "PORT" /\ owner[nh[t]] = t
                           /\ restrict[nh[t]] = 1
           /\ port[t] # 0 => /\ port[t] \in Id /\ rtype[port[t]] = "PORT" /\ owner[port[t]] = t
                             /\ restrict[port[t]] = 0
      /\ rtype[1] = "PORT" /\ owner[1] = Namer /\ restrict[1] = 0
      /\ \A t \in Callers : pc[t] = "answer" => nh[t] # 0
  BY DEF Positions, Belongs, Stages, Owns, IsPort, IsLive
<1>2. Namer \notin Callers
  BY Programs
<1>. QED BY <1>1, <1>2

\* Ports in use stay in use.
LEMMA BelongsFrame ==
  ASSUME Belongs, UNCHANGED <<nh, port>>, \A id \in Id : rtype[id] = "PORT" => Same(id)
  PROVE  Belongs'
<1>1. \A t, id, r : Owns(t, id, r) => rtype'[id] = "PORT" /\ id \in Id /\ owner'[id] = t /\ restrict'[id] = r
  BY DEF Same, Owns, IsPort, IsLive
<1>2. Owns(Namer, 1, 0)'
  BY <1>1 DEF Belongs, Owns, IsPort, IsLive
<1>3. \A t \in Callers : (nh[t] # 0 => Owns(t, nh[t], 1))' /\ (port[t] # 0 => Owns(t, port[t], 0))'
  BY <1>1 DEF Belongs, Owns, IsPort, IsLive
<1>. QED BY <1>2, <1>3 DEF Belongs

LEMMA PositionsFrame ==
  ASSUME Positions, UNCHANGED <<nh, port, pc>>, \A id \in Id : rtype[id] = "PORT" => Same(id)
  PROVE  Positions'
<1>1. Belongs'
  BY BelongsFrame DEF Positions
<1>. QED BY <1>1 DEF Positions, Stages

\* A step of the programs is one of the ports.
LEMMA PortStep == ServicesNext => [Next]_vars
<1>. SUFFICES ASSUME ServicesNext PROVE [Next]_vars
  OBVIOUS
<1>1. ASSUME NEW t \in Task, NEW r \in {0, 1}, port_create(t, r) PROVE Next
  BY <1>1, ServicesAssumption DEF Next
<1>2. ASSUME NEW t \in Task, NEW id, port_destroy(t, id) PROVE Next
  <2>1. id \in Id
    BY <1>2, DestroyOK DEF port_destroy, IsPort, IsLive
  <2>. QED BY <1>2, <2>1 DEF Next
<1>3. ASSUME NEW t \in Task, NEW dst, NEW size \in {4, 36}, NEW l, Send(t, dst, size, l) PROVE [Next]_vars
  <2>1. CASE port_send(t, l.from, dst, size)
    <3>1. l.from \in Id /\ dst \in Id
      BY <2>1, SendOK DEF port_send, IsPort, IsLive
    <3>2. size \in Sizes
      BY ServicesAssumption
    <3>. QED BY <2>1, <3>1, <3>2 DEF Next
  <2>. QED BY <1>3, <2>1 DEF Send
<1>4. ASSUME NEW t \in Task, NEW id, Receive(t, id) PROVE Next
  <2>1. CASE port_recv(t, id)
    <3>1. id \in Id
      BY <2>1, RecvOK DEF port_recv, IsPort, IsLive
    <3>. QED BY <2>1, <3>1 DEF Next
  <2>. QED BY <1>4, <2>1 DEF Receive, Next
<1>5. ASSUME NEW t \in Task, Step(t) PROVE [Next]_vars
  <2>1. CASE NamerReceive
    BY <2>1, <1>4, Programs DEF NamerReceive, Sleeps, Received
  <2>2. CASE NamerReply
    BY <2>2, <1>3, Programs DEF NamerReply, Serve, Reply
  <2>3. CASE OpenPort(t)
    BY <2>3, <1>1 DEF OpenPort
  <2>4. CASE namer_newhandle(t)
    BY <2>4, <1>1 DEF namer_newhandle
  <2>5. CASE NamerAsk(t)
    BY <2>5, <1>3 DEF NamerAsk
  <2>6. CASE NamerAnswer(t)
    BY <2>6, <1>4 DEF NamerAnswer, Sleeps, Received
  <2>7. CASE namer_delhandle(t)
    BY <2>7, <1>2 DEF namer_delhandle
  <2>8. CASE Attach(t)
    BY <2>8, <1>3 DEF Attach
  <2>9. CASE ReadKey(t)
    BY <2>9, <1>4 DEF ReadKey, Sleeps, Received
  <2>10. CASE KeyboardListen
    BY <2>10, <1>4, Programs DEF KeyboardListen, Sleeps, Received
  <2>11. CASE KeyboardSend
    BY <2>11, <1>3, Programs DEF KeyboardSend
  <2>. QED BY <1>5, <2>1, <2>2, <2>3, <2>4, <2>5, <2>6, <2>7, <2>8, <2>9, <2>10, <2>11 DEF Step
<1>6. ASSUME NEW t \in Clients, Exit(t) PROVE Next
  BY <1>6, Programs DEF Exit, Next
<1>7. ASSUME NEW k, KeyboardScan(k) PROVE UNCHANGED vars
  BY <1>7 DEF KeyboardScan
<1>8. ASSUME NEW t \in Task, PsCleanUpTask(t) PROVE Next
  BY <1>8 DEF Next
<1>. QED BY <1>5, <1>6, <1>7, <1>8 DEF ServicesNext

\* A live program moves on and nobody ends.
LEMMA EndedFrame ==
  ASSUME Ended, NEW t \in Task, Lives(t), \A u \in Task : Lives(u)' <=> Lives(u),
         \A u \in Task \ {t} : pc'[u] = pc[u] /\ port'[u] = port[u],
         send_port' = send_port \/ t = Keyboard
  PROVE  Ended'
<1>1. \A u \in Task : ~Lives(u) => u # t
  OBVIOUS
<1>2. \A u \in Clients : Lives(u)' \/ pc'[u] \in {"handle", "read"}
  BY <1>1, Programs DEF Ended
<1>3. Lives(Keyboard)' \/ pc'[Keyboard] = "sleep"
  BY <1>1, Programs DEF Ended
<1>4. Lives(Namer)'
  BY Programs DEF Ended, ServersLive
<1>5. CASE Lives(Keyboard)
  <2>1. Lives(Keyboard)'
    BY <1>5, Programs
  <2>. QED BY <1>2, <1>3, <1>4, <2>1 DEF Ended, ServersLive
<1>6. CASE ~Lives(Keyboard)
  <2>1. PICK u \in Clients : port[u] = send_port /\ ~Lives(u)
    BY <1>6 DEF Ended, ServersLive
  <2>2. send_port' = send_port /\ port'[u] = port[u] /\ ~Lives(u)'
    BY <1>1, <1>6, <2>1, Programs
  <2>3. \E v \in Clients : (port[v] = send_port /\ ~Lives(v))'
    BY <2>1, <2>2
  <2>. QED BY <1>2, <1>3, <1>4, <2>3 DEF Ended, ServersLive
<1>. QED BY <1>5, <1>6

\* A step of the kernel that the programs do not see.
LEMMA StillKeeps ==
  ASSUME ProgInv, UNCHANGED <<progVars, queue, slaved>>,
         \A id \in Id : rtype[id] = "PORT" => Same(id), Ended'
  PROVE  ProgInv'
<1>1. UNCHANGED <<pc, letters, names, request, nh, port, answer, send_port, shift, key, scans, got>>
  BY DEF progVars
<1>2. ProgTypes' /\ Sync'
  BY <1>1 DEF ProgInv, ProgTypes, Sync
<1>3. Positions' /\ Naming' /\ Calls' /\ Typing' /\ Heard'
  BY <1>1, PositionsFrame, NamingFrame, CallsFrame, TypingFrame, HeardFrame DEF ProgInv
<1>. QED BY <1>2, <1>3 DEF ProgInv

LEMMA SleepsKeeps ==
  ASSUME PortInv, ProgInv, NEW t \in Task, NEW id, Sleeps(t, id)
  PROVE  ProgInv'
<1>1. UNCHANGED progVars /\ Receive(t, id) /\ waiting'[t] # 0
  BY DEF Sleeps
<1>2. Kept /\ Lives(t) /\ queue' = queue /\ state' = [state EXCEPT ![t] = "SLEEP_PORT"]
  BY <1>1, ReceiveEffect DEF ProgInv
<1>3. \A u \in Task : Lives(u)' <=> Lives(u)
  BY <1>2, InvShape DEF Lives
<1>4. Ended'
  BY <1>1, <1>2, <1>3, EndedFrame DEF progVars, ProgInv
<1>. QED BY <1>1, <1>2, <1>4, StillKeeps DEF Kept, Same

LEMMA ExitKeeps ==
  ASSUME PortInv, ProgInv, NEW t \in Clients, Exit(t)
  PROVE  ProgInv'
<1>1. /\ UNCHANGED <<progVars, rtype, owner, restrict, slaved, queue>>
      /\ state' = [state EXCEPT ![t] = "DEAD"] /\ pc[t] \in {"handle", "read"}
  BY DEF Exit, ScTerminateProcess, rsrcVars, portVars, linkVars
<1>2. UNCHANGED <<pc, port, send_port>>
  BY <1>1 DEF progVars
<1>3. \A u \in Task : u # t => (Lives(u)' <=> Lives(u))
  BY <1>1, InvShape DEF Lives
<1>4. ~Lives(t)'
  BY <1>1, InvShape, Programs DEF Lives
<1>5. /\ \A u \in Clients : Lives(u)' \/ pc'[u] \in {"handle", "read"}
      /\ Lives(Keyboard)' \/ pc'[Keyboard] = "sleep"
      /\ Lives(Namer)'
      /\ Lives(Keyboard)' <=> Lives(Keyboard)
      /\ \A u \in Task : ~Lives(u) => ~Lives(u)'
  BY <1>1, <1>2, <1>3, <1>4, Programs DEF ProgInv, Ended, ServersLive
<1>6. Ended'
  BY <1>2, <1>5, Programs DEF ProgInv, Ended, ServersLive
<1>. QED BY <1>1, <1>6, StillKeeps DEF Same

LEMMA CleanUpKeeps ==
  ASSUME PortInv, ProgInv, NEW t \in Task, PsCleanUpTask(t), UNCHANGED progVars
  PROVE  ProgInv'
<1>1. /\ state[t] = "DEAD" /\ rsrc_del(rid[t])
      /\ UNCHANGED <<owner, restrict, slaved, queue>>
      /\ \E s \in {"FREED", "REAPED"} : state' = [state EXCEPT ![t] = s]
  BY DEF PsCleanUpTask, portVars, linkVars
<1>2. \A u \in Task : Lives(u)' <=> Lives(u)
  BY <1>1, InvShape DEF Lives
<1>3. UNCHANGED <<pc, port, send_port>>
  BY DEF progVars
<1>4. Ended'
  BY <1>2, <1>3, Programs DEF ProgInv, Ended, ServersLive
<1>5. rid[t] \in Id => rtype[rid[t]] = "TASK"
  <2>1. created \in NBoot..NTasks /\ (t > created => state[t] = "NONE")
    BY DEF PortInv, Table, Shape, Records
  <2>2. t \in 1..created
    BY <1>1, <2>1, PortAssumption DEF Task
  <2>3. t \in Attached
    BY <1>1, <2>2 DEF Attached
  <2>. QED BY <2>3, Programs DEF PortInv, Table, RidsSound
<1>6. \A id \in Id : rtype[id] = "PORT" => rtype'[id] = "PORT"
  BY <1>1, <1>5, InvShape DEF rsrc_del, rsrcVars
<1>. QED BY <1>1, <1>4, <1>6, StillKeeps DEF Same

-----------------------------------------------------------------------------
(* The keys that are typed *)

LEMMA TypedIs ==
  ASSUME NEW s
  PROVE  Typed(s) = [n \in 1..Cardinality(TypedAt(s)) |->
                       LET i == CHOOSE i \in TypedAt(s) : Rank(TypedAt(s), i) = n
                       IN Char(s[i], Shifted(s, i))]
BY DEF Typed, TypedAt, Rank

LEMMA TypedFinite ==
  ASSUME NEW s \in Seq(ScanCodes)
  PROVE  /\ TypedAt(s) \subseteq 1..Len(s) /\ IsFiniteSet(TypedAt(s))
         /\ Cardinality(TypedAt(s)) \in Nat
<1>1. TypedAt(s) \subseteq 1..Len(s)
  BY DEF TypedAt
<1>2. Len(s) \in Nat
  OBVIOUS
<1>3. PICK n \in Nat : n = Len(s)
  BY <1>2
<1>4. IsFiniteSet(1..n)
  BY FS_Interval
<1>. QED BY <1>1, <1>3, <1>4, FS_Subset, FS_CardinalityType

\* No two elements have the same rank.
LEMMA RankLess ==
  ASSUME NEW T \in SUBSET Nat, IsFiniteSet(T), NEW i \in T, NEW j \in T, i < j
  PROVE  Rank(T, i) # Rank(T, j)
<1>. DEFINE A == {l \in T : l =< i}
            B == {l \in T : l =< j}
<1>1. A \subseteq T /\ B \subseteq T /\ A \subseteq B /\ j \in B /\ j \notin A
  <2>1. i \in Nat /\ j \in Nat /\ \A l \in T : l \in Nat
    OBVIOUS
  <2>2. j \in B /\ j \notin A
    BY <2>1
  <2>3. ASSUME NEW l \in A PROVE l \in B
    <3>1. l \in T /\ l \in Nat /\ l =< i
      BY <2>1
    <3>2. l =< j
      BY <2>1, <3>1
    <3>. QED BY <3>1, <3>2
  <2>4. A \subseteq T /\ B \subseteq T
    OBVIOUS
  <2>. HIDE DEF A, B
  <2>. QED BY <2>2, <2>3, <2>4
<1>2. IsFiniteSet(B)
  BY <1>1, FS_Subset
<1>3. A # B
  BY <1>1
<1>. HIDE DEF A, B
<1>4. Cardinality(A) # Cardinality(B)
  BY <1>1, <1>2, <1>3, FS_Subset
<1>. QED BY <1>4 DEF Rank, A, B

LEMMA RankUnique ==
  ASSUME NEW T \in SUBSET Nat, IsFiniteSet(T), NEW i \in T, NEW j \in T, Rank(T, i) = Rank(T, j)
  PROVE  i = j
<1>1. i < j \/ j < i \/ i = j
  OBVIOUS
<1>. QED BY <1>1, RankLess

LEMMA RankChosen ==
  ASSUME NEW T \in SUBSET Nat, IsFiniteSet(T), NEW i \in T
  PROVE  i = CHOOSE j \in T : Rank(T, j) = Rank(T, i)
<1>1. \E j \in T : Rank(T, j) = Rank(T, i)
  <2>. WITNESS i \in T
  <2>. QED OBVIOUS
<1>. DEFINE c == CHOOSE j \in T : Rank(T, j) = Rank(T, i)
<1>2. c \in T /\ Rank(T, c) = Rank(T, i)
  BY <1>1
<1>. HIDE DEF c
<1>3. c = i
  BY <1>2, RankUnique
<1>. QED BY <1>3 DEF c

\* What is typed under the element i of rank n.
LEMMA TypedPoint ==
  ASSUME NEW s \in Seq(ScanCodes), NEW i \in TypedAt(s), NEW n \in 1..Cardinality(TypedAt(s)),
         Rank(TypedAt(s), i) = n
  PROVE  Typed(s)[n] = Char(s[i], Shifted(s, i))
<1>1. TypedAt(s) \in SUBSET Nat /\ IsFiniteSet(TypedAt(s))
  BY TypedFinite
<1>2. i = CHOOSE j \in TypedAt(s) : Rank(TypedAt(s), j) = n
  BY <1>1, RankChosen
<1>. QED BY <1>2, TypedIs

LEMMA TypedLen ==
  ASSUME NEW s \in Seq(ScanCodes), Typed(s) \in Seq(KeyChar)
  PROVE  Len(Typed(s)) = Cardinality(TypedAt(s))
<1>1. DOMAIN Typed(s) = 1..Cardinality(TypedAt(s)) /\ Cardinality(TypedAt(s)) \in Nat
  BY TypedIs, TypedFinite
<1>2. DOMAIN Typed(s) = 1..Len(Typed(s)) /\ Len(Typed(s)) \in Nat
  OBVIOUS
<1>. QED BY <1>1, <1>2

\* The shift is not changed by what comes later.
LEMMA ShiftedAppend ==
  ASSUME NEW s \in Seq(ScanCodes), NEW k \in ScanCodes
  PROVE  /\ \A i \in 1..(Len(s) + 1) : Shifted(Append(s, k), i) = Shifted(s, i)
         /\ Shifted(Append(s, k), Len(s) + 2)
              = \/ k \in {LSHIFT, RSHIFT}
                \/ Shifted(s, Len(s) + 1) /\ k \notin {Break(LSHIFT), Break(RSHIFT)}
<1>. DEFINE a == Append(s, k)
            N == Len(s)
<1>1. /\ N \in Nat /\ a[N + 1] = k
      /\ \A i \in 1..N : a[i] = s[i]
  OBVIOUS
<1>. HIDE DEF a, N
<1>2. ASSUME NEW i \in 1..(N + 1) PROVE Shifted(a, i) = Shifted(s, i)
  BY <1>1 DEF Shifted
<1>3. \/ k \in {LSHIFT, RSHIFT}
      \/ Shifted(s, N + 1) /\ k \notin {Break(LSHIFT), Break(RSHIFT)}
      <=> Shifted(a, N + 2)
  <2>1. ASSUME Shifted(a, N + 2)
        PROVE  \/ k \in {LSHIFT, RSHIFT}
               \/ Shifted(s, N + 1) /\ k \notin {Break(LSHIFT), Break(RSHIFT)}
    <3>1. PICK j \in 1..(N + 1) : /\ a[j] \in {LSHIFT, RSHIFT}
                                  /\ \A l \in (j + 1)..(N + 1) : a[l] \notin {Break(LSHIFT), Break(RSHIFT)}
      BY <1>1, <2>1 DEF Shifted
    <3>2. CASE j = N + 1
      BY <1>1, <3>1, <3>2
    <3>3. CASE j # N + 1
      <4>1. j \in 1..N /\ N + 1 \in (j + 1)..(N + 1)
        BY <1>1, <3>3
      <4>2. k \notin {Break(LSHIFT), Break(RSHIFT)}
        BY <1>1, <3>1, <4>1
      <4>3. s[j] \in {LSHIFT, RSHIFT}
        BY <1>1, <3>1, <4>1
      <4>4. \A l \in (j + 1)..N : s[l] \notin {Break(LSHIFT), Break(RSHIFT)}
        BY <1>1, <3>1, <4>1
      <4>5. (N + 1) - 1 = N
        BY <1>1
      <4>6. Shifted(s, N + 1)
        BY <4>1, <4>3, <4>4, <4>5 DEF Shifted
      <4>. QED BY <4>2, <4>6
    <3>. QED BY <3>2, <3>3
  <2>2. ASSUME k \in {LSHIFT, RSHIFT} PROVE Shifted(a, N + 2)
    <3>1. a[N + 1] \in {LSHIFT, RSHIFT} /\ N + 1 \in 1..(N + 1)
      BY <1>1, <2>2
    <3>2. \A l \in (N + 1 + 1)..(N + 1) : FALSE
      BY <1>1
    <3>3. (N + 2) - 1 = N + 1
      BY <1>1
    <3>. QED BY <3>1, <3>2, <3>3 DEF Shifted
  <2>3. ASSUME Shifted(s, N + 1), k \notin {Break(LSHIFT), Break(RSHIFT)} PROVE Shifted(a, N + 2)
    <3>1. PICK j \in 1..N : /\ s[j] \in {LSHIFT, RSHIFT}
                            /\ \A l \in (j + 1)..N : s[l] \notin {Break(LSHIFT), Break(RSHIFT)}
      BY <1>1, <2>3 DEF Shifted
    <3>2. a[j] \in {LSHIFT, RSHIFT} /\ j \in 1..(N + 1)
      BY <1>1, <3>1
    <3>3. ASSUME NEW l \in (j + 1)..(N + 1) PROVE a[l] \notin {Break(LSHIFT), Break(RSHIFT)}
      <4>1. CASE l = N + 1
        BY <1>1, <2>3, <4>1
      <4>2. CASE l # N + 1
        <5>1. l \in (j + 1)..N /\ l \in 1..N
          BY <1>1, <4>2
        <5>. QED BY <1>1, <3>1, <5>1
      <4>. QED BY <4>1, <4>2
    <3>4. (N + 2) - 1 = N + 1
      BY <1>1
    <3>. QED BY <3>2, <3>3, <3>4 DEF Shifted
  <2>. QED BY <2>1, <2>2, <2>3
<1>4. Shifted(a, N + 2) \in BOOLEAN
  BY DEF Shifted
<1>. QED BY <1>2, <1>3, <1>4 DEF a, N

LEMMA TypedFcn ==
  ASSUME NEW s
  PROVE  Typed(s) = [n \in 1..Cardinality(TypedAt(s)) |-> Typed(s)[n]]
<1>. DEFINE e(n) == LET i == CHOOSE i \in TypedAt(s) : Rank(TypedAt(s), i) = n
                    IN Char(s[i], Shifted(s, i))
            D == 1..Cardinality(TypedAt(s))
<1>1. Typed(s) = [n \in D |-> e(n)]
  BY TypedIs
<1>. HIDE DEF e, D
<1>2. [n \in D |-> Typed(s)[n]] = [n \in D |-> e(n)]
  BY <1>1
<1>. QED BY <1>1, <1>2 DEF D

LEMMA TypedSame ==
  ASSUME NEW s \in Seq(ScanCodes), NEW k \in ScanCodes, ~(k < 59 /\ k \notin {LSHIFT, RSHIFT}),
         Ranked(TypedAt(s))
  PROVE  Typed(Append(s, k)) = Typed(s) /\ TypedAt(Append(s, k)) = TypedAt(s)
<1>. DEFINE a == Append(s, k)
<1>1. /\ a \in Seq(ScanCodes) /\ Len(a) = Len(s) + 1 /\ Len(s) \in Nat /\ a[Len(s) + 1] = k
      /\ \A i \in 1..Len(s) : a[i] = s[i]
  OBVIOUS
<1>2. \A i \in 1..Len(s) : Shifted(a, i) = Shifted(s, i)
  <2>1. \A i \in 1..(Len(s) + 1) : Shifted(a, i) = Shifted(s, i)
    BY ShiftedAppend
  <2>2. \A i \in 1..Len(s) : i \in 1..(Len(s) + 1)
    BY <1>1
  <2>. QED BY <2>1, <2>2
<1>. HIDE DEF a
<1>3. TypedAt(a) = TypedAt(s)
  <2>1. DOMAIN a = 1..(Len(s) + 1) /\ DOMAIN s = 1..Len(s)
    BY <1>1
  <2>2. \A i \in DOMAIN a : i \in DOMAIN s \/ i = Len(s) + 1
    BY <1>1, <2>1
  <2>. QED BY <1>1, <2>1, <2>2 DEF TypedAt
<1>4. ASSUME NEW n \in 1..Cardinality(TypedAt(s)) PROVE Typed(a)[n] = Typed(s)[n]
  <2>1. PICK i \in TypedAt(s) : Rank(TypedAt(s), i) = n
    BY DEF Ranked
  <2>2. Typed(s)[n] = Char(s[i], Shifted(s, i))
    BY <2>1, TypedPoint
  <2>3. Typed(a)[n] = Char(a[i], Shifted(a, i))
    BY <1>1, <1>3, <2>1, TypedPoint
  <2>4. i \in 1..Len(s)
    BY TypedFinite
  <2>. QED BY <1>1, <1>2, <2>2, <2>3, <2>4
<1>5. /\ Typed(s) = [n \in 1..Cardinality(TypedAt(s)) |-> Typed(s)[n]]
      /\ Typed(a) = [n \in 1..Cardinality(TypedAt(s)) |-> Typed(a)[n]]
  BY <1>3, TypedFcn
<1>6. Typed(a) = Typed(s)
  BY <1>4, <1>5
<1>. QED BY <1>3, <1>6 DEF a

LEMMA TypedMore ==
  ASSUME NEW s \in Seq(ScanCodes), NEW k \in ScanCodes, k < 59 /\ k \notin {LSHIFT, RSHIFT},
         Ranked(TypedAt(s)), Typed(s) \in Seq(KeyChar)
  PROVE  /\ Typed(Append(s, k)) = Append(Typed(s), Char(k, Shifted(s, Len(s) + 1)))
         /\ Ranked(TypedAt(Append(s, k)))
<1>. DEFINE a == Append(s, k)
            N == Len(s) + 1
            T == TypedAt(s)
            c == Cardinality(T)
<1>1. /\ a \in Seq(ScanCodes) /\ Len(a) = N /\ N \in Nat /\ a[N] = k /\ N \notin 1..Len(s)
      /\ \A i \in 1..Len(s) : a[i] = s[i]
      /\ DOMAIN a = 1..N /\ DOMAIN s = 1..Len(s) /\ 1..N = 1..Len(s) \cup {N}
  OBVIOUS
<1>2. /\ \A i \in 1..Len(s) : Shifted(a, i) = Shifted(s, i)
      /\ Shifted(a, N) = Shifted(s, N)
  <2>1. \A i \in 1..(Len(s) + 1) : Shifted(a, i) = Shifted(s, i)
    BY ShiftedAppend
  <2>2. N \in 1..(Len(s) + 1) /\ \A i \in 1..Len(s) : i \in 1..(Len(s) + 1)
    BY <1>1
  <2>. QED BY <2>1, <2>2
<1>3. T \subseteq 1..Len(s) /\ IsFiniteSet(T) /\ c \in Nat
  BY TypedFinite
<1>. HIDE DEF a, N
<1>4. TypedAt(a) = T \cup {N}
  BY <1>1 DEF TypedAt
<1>5. N \notin T /\ \A i \in T : i < N /\ i \in Nat
  BY <1>1, <1>3 DEF N
<1>. HIDE DEF T
<1>6. Cardinality(T \cup {N}) = c + 1
  BY <1>3, <1>5, FS_AddElement
<1>. HIDE DEF c
<1>7. ASSUME NEW i \in T PROVE Rank(T \cup {N}, i) = Rank(T, i)
  <2>1. {j \in T \cup {N} : j =< i} = {j \in T : j =< i}
    BY <1>1, <1>5
  <2>. QED BY <2>1 DEF Rank
<1>8. Rank(T \cup {N}, N) = c + 1
  <2>1. {j \in T \cup {N} : j =< N} = T \cup {N}
    BY <1>1, <1>5
  <2>. QED BY <1>6, <2>1 DEF Rank
<1>9. ASSUME NEW n \in 1..c
      PROVE  \E i \in T : Rank(T, i) = n /\ Rank(T \cup {N}, i) = n
  BY <1>7 DEF Ranked, T, c
<1>10. Ranked(T \cup {N})
  <2>1. ASSUME NEW n \in 1..(c + 1) PROVE \E i \in T \cup {N} : Rank(T \cup {N}, i) = n
    <3>1. CASE n = c + 1
      BY <1>8, <3>1
    <3>2. CASE n # c + 1
      <4>1. n \in 1..c
        BY <1>3, <3>2
      <4>. QED BY <1>9, <4>1
    <3>. QED BY <3>1, <3>2
  <2>. QED BY <1>6, <2>1 DEF Ranked
<1>11. Len(Typed(s)) = c /\ DOMAIN Typed(s) = 1..c
  BY TypedLen, TypedIs DEF c, T
<1>12. ASSUME NEW n \in 1..c PROVE Typed(a)[n] = Typed(s)[n]
  <2>1. PICK i \in T : Rank(T, i) = n /\ Rank(T \cup {N}, i) = n
    BY <1>9
  <2>2. Typed(s)[n] = Char(s[i], Shifted(s, i))
    BY <2>1, TypedPoint DEF T, c
  <2>3. n \in 1..Cardinality(TypedAt(a)) /\ i \in TypedAt(a) /\ Rank(TypedAt(a), i) = n
    BY <1>3, <1>4, <1>6, <2>1
  <2>4. Typed(a)[n] = Char(a[i], Shifted(a, i))
    BY <1>1, <2>3, TypedPoint
  <2>. QED BY <1>1, <1>2, <1>3, <2>2, <2>4
<1>13. Typed(a)[c + 1] = Char(k, Shifted(s, N))
  <2>1. c + 1 \in 1..Cardinality(TypedAt(a)) /\ N \in TypedAt(a) /\ Rank(TypedAt(a), N) = c + 1
    BY <1>3, <1>4, <1>6, <1>8
  <2>2. Typed(a)[c + 1] = Char(a[N], Shifted(a, N))
    BY <1>1, <2>1, TypedPoint
  <2>. QED BY <1>1, <1>2, <2>2
<1>14. Typed(a) = [n \in 1..(c + 1) |-> Typed(a)[n]]
  BY <1>4, <1>6, TypedFcn
<1>15. Append(Typed(s), Char(k, Shifted(s, N)))
         = [n \in 1..(c + 1) |-> IF n = c + 1 THEN Char(k, Shifted(s, N)) ELSE Typed(s)[n]]
  <2>. DEFINE q == Typed(s)
              x == Char(k, Shifted(s, N))
  <2>. HIDE DEF q, x
  <2>1. q \in Seq(KeyChar) /\ Len(q) = c
    BY <1>11 DEF q
  <2>2. Append(q, x) = [n \in 1..(Len(q) + 1) |-> IF n = Len(q) + 1 THEN x ELSE q[n]]
    <3>. DEFINE r == Append(q, x)
    <3>1. r \in Seq(KeyChar \cup {x}) /\ Len(r) = Len(q) + 1 /\ r[Len(q) + 1] = x
          /\ \A n \in 1..Len(q) : r[n] = q[n]
      BY <2>1
    <3>. HIDE DEF r
    <3>2. r = [n \in 1..Len(r) |-> r[n]]
      BY <3>1
    <3>3. \A n \in 1..(Len(q) + 1) : r[n] = IF n = Len(q) + 1 THEN x ELSE q[n]
      BY <2>1, <3>1
    <3>. QED BY <3>1, <3>2, <3>3 DEF r
  <2>. QED BY <2>1, <2>2 DEF q, x
<1>16. ASSUME NEW n \in 1..(c + 1)
       PROVE  Typed(a)[n] = IF n = c + 1 THEN Char(k, Shifted(s, N)) ELSE Typed(s)[n]
  <2>1. n = c + 1 \/ n \in 1..c
    BY <1>3
  <2>. QED BY <1>12, <1>13, <2>1
<1>17. Typed(a) = Append(Typed(s), Char(k, Shifted(s, N)))
  BY <1>14, <1>15, <1>16
<1>. QED BY <1>4, <1>10, <1>17 DEF a, N

LEMMA FrontAppend ==
  ASSUME NEW S, NEW q \in Seq(S), NEW x \in S
  PROVE  /\ Front(Append(q, x)) = q /\ Last(Append(q, x)) = x
         /\ Append(q, x) # <<>> /\ Append(q, x) \in Seq(S)
BY DEF Front, Last

-----------------------------------------------------------------------------
(* The keyboard server *)

LEMMA ScanKeeps ==
  ASSUME PortInv, ProgInv, NEW k \in ScanCodes, KeyboardScan(k)
  PROVE  ProgInv'
<1>1. /\ Running(Keyboard) /\ scans' = Append(scans, k) /\ shift' = NextShift(k)
      /\ pc[Keyboard] = "sleep"
      /\ UNCHANGED <<vars, letters, names, request, nh, port, answer, send_port, got>>
      /\ \/ /\ k < 59 /\ k \notin {LSHIFT, RSHIFT}
            /\ pc' = [pc EXCEPT ![Keyboard] = "send"] /\ key' = Char(k, shift)
         \/ /\ ~(k < 59 /\ k \notin {LSHIFT, RSHIFT})
            /\ pc' = [pc EXCEPT ![Keyboard] = "sleep"]
  BY DEF KeyboardScan, Goto
<1>2. UNCHANGED <<rtype, owner, restrict, slaved, queue, state>>
  BY <1>1 DEF vars, rsrcVars, portVars, linkVars
<1>3. /\ ProgTypes /\ Sync /\ Positions /\ Ended /\ Naming /\ Calls /\ Typing /\ Heard
      /\ pc \in [Task -> Label]
      /\ scans \in Seq(ScanCodes) /\ shift \in BOOLEAN
  BY DEF ProgInv, ProgTypes
<1>4. /\ pc'[Keyboard] \in {"sleep", "send"}
      /\ \A t \in Task \ {Keyboard} : pc'[t] = pc[t]
  BY <1>1, <1>3, Programs
<1>5. ProgTypes'
  <2>1. scans' \in Seq(ScanCodes) /\ shift' \in BOOLEAN
    BY <1>1, <1>3 DEF NextShift
  <2>. QED BY <1>1, <1>3, <2>1, Programs DEF ProgTypes, Label
<1>6. Sync' /\ Naming'
  BY <1>1, <1>2, <1>3, NamingFrame DEF Sync
<1>7. Positions'
  <2>1. Belongs'
    BY <1>1, <1>2, <1>3, BelongsFrame DEF Positions, Same
  <2>. QED BY <1>1, <1>3, <1>4, <2>1, Programs DEF Positions, Stages
<1>8. Ended'
  BY <1>1, <1>2, <1>3, <1>4, EndedFrame, Programs DEF Lives, Running
<1>9. Calls'
  BY <1>1, <1>3, <1>4, CallsFrame, Programs
<1>10. /\ shift = Shifted(scans, Len(scans) + 1) /\ Typed(scans) \in Seq(KeyChar)
       /\ Ranked(TypedAt(scans))
       /\ \E t \in Clients : port[t] = send_port /\ port[t] # 0
  BY <1>1, <1>3 DEF Typing
<1>11. (shift = Shifted(scans, Len(scans) + 1))'
  <2>1. Len(scans') = Len(scans) + 1 /\ Len(scans) + 1 + 1 = Len(scans) + 2
    BY <1>1, <1>3
  <2>2. Shifted(scans', Len(scans) + 2)
           = \/ k \in {LSHIFT, RSHIFT}
             \/ Shifted(scans, Len(scans) + 1) /\ k \notin {Break(LSHIFT), Break(RSHIFT)}
    BY <1>1, <1>3, ShiftedAppend
  <2>. QED BY <1>1, <1>10, <2>1, <2>2 DEF NextShift
<1>12. /\ (pc[Keyboard] = "send" => Typed(scans) # <<>> /\ key = Last(Typed(scans)))'
       /\ Typed(scans)' \in Seq(KeyChar) /\ Ranked(TypedAt(scans))'
       /\ Expected' = Expected
  <2>1. CASE k < 59 /\ k \notin {LSHIFT, RSHIFT}
    <3>1. Typed(scans') = Append(Typed(scans), Char(k, shift)) /\ Ranked(TypedAt(scans'))
      BY <1>1, <1>3, <1>10, <2>1, TypedMore
    <3>2. Char(k, shift) \in KeyChar
      BY <1>3 DEF Char, KeyChar
    <3>3. /\ Front(Typed(scans')) = Typed(scans) /\ Last(Typed(scans')) = Char(k, shift)
          /\ Typed(scans') # <<>> /\ Typed(scans') \in Seq(KeyChar)
      BY <1>10, <3>1, <3>2, FrontAppend
    <3>4. pc'[Keyboard] = "send" /\ key' = Char(k, shift)
      BY <1>1, <1>3, <2>1, Programs
    <3>. QED BY <1>1, <3>1, <3>3, <3>4 DEF Expected
  <2>2. CASE ~(k < 59 /\ k \notin {LSHIFT, RSHIFT})
    <3>1. Typed(scans') = Typed(scans) /\ TypedAt(scans') = TypedAt(scans)
      BY <1>1, <1>3, <1>10, <2>2, TypedSame
    <3>2. pc'[Keyboard] = "sleep"
      BY <1>1, <1>3, <2>2, Programs
    <3>. QED BY <1>1, <1>10, <3>1, <3>2 DEF Expected
  <2>. QED BY <2>1, <2>2
<1>13. Typing'
  <2>1. /\ (port[Keyboard] # 0 => \A i \in 1..Len(letters[port[Keyboard]]) :
              \E t \in Clients : port[t] # 0 /\ port[t] = letters[port[Keyboard]][i].from)'
        /\ (\A t \in Clients : /\ port[t] = 0 => got[t] = <<>>
                               /\ port[t] # 0 => \A i \in 1..Len(letters[port[t]]) :
                                                   letters[port[t]][i].data \in KeyChar)'
    BY <1>1, <1>3 DEF Typing
  <2>. QED BY <1>1, <1>4, <1>10, <1>11, <1>12, <2>1 DEF Typing
<1>14. Heard'
  BY <1>1, <1>3, <1>12 DEF Heard
<1>. QED BY <1>3, <1>5, <1>6, <1>7, <1>8, <1>9, <1>13, <1>14 DEF ProgInv

-----------------------------------------------------------------------------
(* Letters that are sent and received *)

LEMMA SentLetter ==
  ASSUME ProgTypes, Sync, NEW t, NEW dst, NEW l \in Letter, Sent(t, dst, l)
  PROVE  /\ Sync' /\ letters' \in [Id -> Seq(Letter)]
         /\ letters'[dst] = Append(letters[dst], l)
         /\ \A i \in Id \ {dst} : letters'[i] = letters[i]
<1>1. letters \in [Id -> Seq(Letter)] /\ dst \in Id
  BY DEF ProgTypes, Sent
<1>2. letters' = [letters EXCEPT ![dst] = Append(@, l)]
  BY DEF Sent
<1>3. /\ letters' \in [Id -> Seq(Letter)]
      /\ letters'[dst] = Append(letters[dst], l)
      /\ \A i \in Id \ {dst} : letters'[i] = letters[i]
  BY <1>1, <1>2
<1>4. Len(letters'[dst]) = Len(letters[dst]) + 1
  BY <1>1, <1>3
<1>. QED BY <1>3, <1>4 DEF Sync, Sent, Kept

LEMMA ReceivedLetter ==
  ASSUME PortInv, ProgTypes, Sync, NEW t \in Task, NEW id, Received(t, id)
  PROVE  /\ Sync' /\ letters' \in [Id -> Seq(Letter)]
         /\ letters[id] \in Seq(Letter) /\ letters[id] # <<>> /\ Head(letters[id]) \in Letter
         /\ letters'[id] = Tail(letters[id])
         /\ \A i \in Id \ {id} : letters'[i] = letters[i]
         /\ id \in Id /\ Kept /\ Lives(t) /\ state' = state
<1>1. Receive(t, id) /\ waiting'[t] = 0 /\ letters' = [letters EXCEPT ![id] = Tail(@)]
  BY DEF Received
<1>2. /\ id \in Id /\ Kept /\ Lives(t) /\ state' = state
      /\ queue[id] # <<>> /\ queue' = [queue EXCEPT ![id] = Tail(@)]
  BY <1>1, ReceiveEffect
<1>3. letters \in [Id -> Seq(Letter)] /\ queue \in [Id -> Seq(SoundMessage)]
  BY InvShape DEF ProgTypes
<1>4. letters[id] \in Seq(Letter) /\ queue[id] \in Seq(SoundMessage) /\ Len(letters[id]) = Len(queue[id])
  BY <1>2, <1>3 DEF Sync
<1>5. letters[id] # <<>>
  BY <1>2, <1>4
<1>6. /\ Head(letters[id]) \in Letter /\ Tail(letters[id]) \in Seq(Letter)
      /\ Len(Tail(letters[id])) = Len(Tail(queue[id]))
  BY <1>2, <1>4, <1>5
<1>7. /\ letters'[id] = Tail(letters[id]) /\ queue'[id] = Tail(queue[id])
      /\ \A i \in Id \ {id} : letters'[i] = letters[i] /\ queue'[i] = queue[i]
  BY <1>1, <1>2, <1>3
<1>8. letters' \in [Id -> Seq(Letter)]
  BY <1>1, <1>2, <1>3, <1>6
<1>9. Sync'
  BY <1>2, <1>6, <1>7 DEF Sync, Kept
<1>. QED BY <1>2, <1>4, <1>5, <1>6, <1>7, <1>8, <1>9

\* A letter to a port that takes it, of the sender's own port, is not refused.
LEMMA SendAccepted ==
  ASSUME Sync, NEW t, NEW src \in Id, NEW dst \in Id, NEW size \in {4, 36},
         rtype[src] = "PORT", owner[src] = t, rtype[dst] = "PORT",
         restrict[dst] = 0 \/ restrict[dst] = src
  PROVE  SendResult(t, src, dst, size) = "OK"
<1>1. IsPort(src) /\ SourceAllowed(t, src) /\ IsPort(dst) /\ ~Restricted(dst, src)
  BY DEF IsPort, IsLive, SourceAllowed, Restricted
<1>2. Target(dst) = dst /\ slaved[dst] = 0
  BY DEF Sync, Target
<1>3. ~(size < 1 \/ size > 4096)
  OBVIOUS
<1>. QED BY <1>1, <1>2, <1>3 DEF SendResult

Data == Int \cup KeyChar

LEMMA DatasAppend ==
  ASSUME NEW q \in Seq(Letter), NEW l \in Letter
  PROVE  Datas(q) \in Seq(Data) /\ Datas(Append(q, l)) = Append(Datas(q), l.data)
<1>1. \A m \in Letter : m.data \in Data
  BY DEF Letter, Data
<1>2. ASSUME NEW r \in Seq(Letter)
      PROVE  /\ Datas(r) \in Seq(Data) /\ Len(Datas(r)) = Len(r)
             /\ \A i \in 1..Len(r) : Datas(r)[i] = r[i].data
  <2>1. DOMAIN r = 1..Len(r) /\ Len(r) \in Nat /\ \A i \in 1..Len(r) : r[i] \in Letter
    BY <1>2
  <2>2. Datas(r) = [i \in 1..Len(r) |-> r[i].data]
    BY <2>1 DEF Datas
  <2>. QED BY <1>1, <2>1, <2>2
<1>3. Append(q, l) \in Seq(Letter) /\ Len(Append(q, l)) = Len(q) + 1 /\ Len(q) \in Nat
  OBVIOUS
<1>4. /\ Append(q, l)[Len(q) + 1] = l
      /\ \A i \in 1..Len(q) : Append(q, l)[i] = q[i]
  OBVIOUS
<1>. DEFINE a == Datas(Append(q, l))
            b == Append(Datas(q), l.data)
<1>5. /\ a \in Seq(Data) /\ Len(a) = Len(q) + 1 /\ a[Len(q) + 1] = l.data
      /\ \A i \in 1..Len(q) : a[i] = q[i].data
  <2>1. PICK r \in Seq(Letter) : r = Append(q, l)
    BY <1>3
  <2>2. Len(q) + 1 \in 1..Len(r) /\ \A i \in 1..Len(q) : i \in 1..Len(r)
    BY <1>3, <2>1
  <2>. QED BY <1>2, <1>3, <1>4, <2>1, <2>2
<1>6. /\ b \in Seq(Data) /\ Len(b) = Len(q) + 1 /\ b[Len(q) + 1] = l.data
      /\ \A i \in 1..Len(q) : b[i] = q[i].data
  BY <1>1, <1>2
<1>. HIDE DEF a, b
<1>7. a = b
  BY <1>3, <1>5, <1>6
<1>. QED BY <1>2, <1>7 DEF a, b

LEMMA AppendConcat ==
  ASSUME NEW S, NEW g \in Seq(S), NEW d \in Seq(S), NEW x \in S
  PROVE  g \o Append(d, x) = Append(g \o d, x)
OBVIOUS

\* What was heard and is queued stays the same when the first letter is heard.
LEMMA HeadConcat ==
  ASSUME NEW S, NEW g \in Seq(S), NEW d \in Seq(S), d # <<>>
  PROVE  Append(g, Head(d)) \o Tail(d) = g \o d
OBVIOUS

LEMMA DatasTail ==
  ASSUME NEW q \in Seq(Letter), q # <<>>
  PROVE  /\ Datas(q) # <<>> /\ Head(Datas(q)) = Head(q).data
         /\ Datas(Tail(q)) = Tail(Datas(q)) /\ Datas(q) \in Seq(Data)
<1>1. \A m \in Letter : m.data \in Data
  BY DEF Letter, Data
<1>2. ASSUME NEW r \in Seq(Letter)
      PROVE  /\ Datas(r) \in Seq(Data) /\ Len(Datas(r)) = Len(r)
             /\ \A i \in 1..Len(r) : Datas(r)[i] = r[i].data
  <2>1. DOMAIN r = 1..Len(r) /\ Len(r) \in Nat /\ \A i \in 1..Len(r) : r[i] \in Letter
    BY <1>2
  <2>2. Datas(r) = [i \in 1..Len(r) |-> r[i].data]
    BY <2>1 DEF Datas
  <2>. QED BY <1>1, <2>1, <2>2
<1>3. Tail(q) \in Seq(Letter) /\ Len(Tail(q)) = Len(q) - 1 /\ Len(q) \in Nat /\ Len(q) > 0
  OBVIOUS
<1>4. \A i \in 1..(Len(q) - 1) : Tail(q)[i] = q[i + 1] /\ i + 1 \in 1..Len(q)
  BY <1>3
<1>. DEFINE a == Datas(Tail(q))
            b == Tail(Datas(q))
<1>5. a \in Seq(Data) /\ Len(a) = Len(q) - 1 /\ \A i \in 1..(Len(q) - 1) : a[i] = q[i + 1].data
  <2>1. PICK r \in Seq(Letter) : r = Tail(q)
    BY <1>3
  <2>2. \A i \in 1..(Len(q) - 1) : i \in 1..Len(r)
    BY <1>3, <2>1
  <2>. QED BY <1>2, <1>3, <1>4, <2>1, <2>2
<1>6. b \in Seq(Data) /\ Len(b) = Len(q) - 1 /\ \A i \in 1..(Len(q) - 1) : b[i] = q[i + 1].data
  <2>1. PICK d \in Seq(Data) : d = Datas(q)
    BY <1>2
  <2>2. Len(d) = Len(q) /\ \A i \in 1..Len(q) : d[i] = q[i].data
    BY <1>2, <2>1
  <2>3. /\ Tail(d) \in Seq(Data) /\ Len(Tail(d)) = Len(q) - 1
        /\ \A i \in 1..(Len(q) - 1) : Tail(d)[i] = d[i + 1]
    BY <1>3, <2>2
  <2>. QED BY <1>4, <2>1, <2>2, <2>3
<1>7. Datas(q) # <<>> /\ Head(Datas(q)) = Head(q).data
  BY <1>2, <1>3
<1>. HIDE DEF a, b
<1>8. a = b
  BY <1>3, <1>5, <1>6
<1>. QED BY <1>2, <1>7, <1>8 DEF a, b

LEMMA InvParts ==
  ASSUME ProgInv
  PROVE  /\ ProgTypes /\ Sync /\ Positions /\ Ended /\ Naming /\ Calls /\ Typing /\ Heard
         /\ pc \in [Task -> Label] /\ letters \in [Id -> Seq(Letter)]
         /\ nh \in [Task -> 0..(RMax - 1)] /\ port \in [Task -> 0..(RMax - 1)]
         /\ answer \in [Task -> Int] /\ got \in [Task -> Seq(KeyChar)]
BY DEF ProgInv, ProgTypes

\* A program goes on.
LEMMA GoesOn ==
  ASSUME pc \in [Task -> Label], NEW t \in Task, NEW from, NEW to \in Label, Goto(t, from, to)
  PROVE  /\ pc' \in [Task -> Label] /\ pc[t] = from /\ pc'[t] = to
         /\ \A u \in Task \ {t} : pc'[u] = pc[u]
BY DEF Goto

LEMMA KeysAreData == ASSUME NEW q \in Seq(KeyChar) PROVE q \in Seq(Data)
BY DEF Data

LEMMA KeyboardSendKeeps ==
  ASSUME PortInv, ProgInv, KeyboardSend
  PROVE  ProgInv'
<1>. DEFINE l == [from |-> port[Keyboard], text |-> "", data |-> key]
<1>1. /\ Goto(Keyboard, "send", "sleep") /\ Send(Keyboard, send_port, 4, l)
      /\ UNCHANGED <<names, request, nh, port, answer, send_port, shift, scans, got>>
  BY DEF KeyboardSend
<1>2. /\ ProgTypes /\ Sync /\ Positions /\ Ended /\ Naming /\ Calls /\ Typing /\ Heard
      /\ pc \in [Task -> Label] /\ letters \in [Id -> Seq(Letter)]
      /\ got \in [Task -> Seq(KeyChar)]
  BY InvParts
<1>3. /\ pc' \in [Task -> Label] /\ pc[Keyboard] = "send" /\ pc'[Keyboard] = "sleep"
      /\ \A t \in Task \ {Keyboard} : pc'[t] = pc[t]
  BY <1>1, <1>2, GoesOn, Programs DEF Label
<1>4. /\ Typed(scans) # <<>> /\ key = Last(Typed(scans)) /\ Typed(scans) \in Seq(KeyChar)
      /\ Ranked(TypedAt(scans)) /\ shift = Shifted(scans, Len(scans) + 1)
  BY <1>2, <1>3 DEF Typing
<1>5. PICK c \in Clients : port[c] = send_port /\ port[c] # 0
  BY <1>2, <1>3 DEF Typing
<1>6. /\ send_port \in Id /\ rtype[send_port] = "PORT" /\ restrict[send_port] = 0
      /\ owner[send_port] = c
      /\ port[Keyboard] \in Id /\ rtype[port[Keyboard]] = "PORT" /\ owner[port[Keyboard]] = Keyboard
      /\ port[Keyboard] # 0 /\ port[Keyboard] # send_port /\ send_port # 1
      /\ \A t \in Callers : /\ send_port # nh[t] /\ (port[t] = send_port => t = c)
                            /\ nh[t] # 0 => nh[t] \in Id
                            /\ port[t] # 0 => port[t] \in Id
  BY <1>2, <1>3, <1>5, Distinct, Programs DEF Positions, Stages
<1>7. Sent(Keyboard, send_port, l) /\ Lives(Keyboard)
  <2>1. SendResult(Keyboard, port[Keyboard], send_port, 4) = "OK"
    BY <1>2, <1>6, SendAccepted
  <2>2. l.from = port[Keyboard]
    OBVIOUS
  <2>. HIDE DEF l
  <2>. QED BY <1>1, <1>2, <2>1, <2>2, SendEffect, Programs
<1>8. key \in KeyChar /\ l \in Letter
  <2>1. key \in KeyChar
    BY <1>4 DEF Last
  <2>. QED BY <2>1, <1>6, Programs DEF Letter
<1>. HIDE DEF l
<1>9. /\ Sync' /\ letters' \in [Id -> Seq(Letter)]
      /\ letters'[send_port] = Append(letters[send_port], l)
      /\ \A i \in Id \ {send_port} : letters'[i] = letters[i]
  BY <1>2, <1>7, <1>8, SentLetter
<1>10. /\ UNCHANGED <<rtype, owner, restrict>>
       /\ \A t \in Task : t # Keyboard => (Lives(t)' <=> Lives(t))
       /\ Lives(Keyboard)' \/ state[c] = "FREED"
  BY <1>6, <1>7 DEF Sent, Kept
<1>11. ProgTypes'
  BY <1>1, <1>2, <1>3, <1>9 DEF ProgTypes
<1>12. Positions'
  <2>1. Belongs'
    BY <1>1, <1>2, <1>10, BelongsFrame DEF Positions, Same
  <2>. QED BY <1>1, <1>2, <1>3, <2>1, Programs DEF Positions, Stages
<1>13. Ended'
  <2>1. /\ \A t \in Clients : Lives(t)' \/ pc'[t] \in {"handle", "read"}
        /\ Lives(Keyboard)' \/ pc'[Keyboard] = "sleep"
        /\ Lives(Namer)'
    BY <1>2, <1>3, <1>10, Programs DEF Ended, ServersLive
  <2>2. Lives(Keyboard)' \/ ~Lives(c)'
    BY <1>10, <1>5, Programs DEF Lives
  <2>. QED BY <1>1, <1>5, <2>1, <2>2 DEF Ended, ServersLive
<1>14. Naming' /\ Calls'
  <2>1. letters'[1] = letters[1] /\ \A t \in Callers : nh[t] # 0 => letters'[nh[t]] = letters[nh[t]]
    <3>1. 1 \in Id \ {send_port} /\ \A t \in Callers : nh[t] # 0 => nh[t] \in Id \ {send_port}
      BY <1>6, Programs
    <3>. QED BY <1>9, <3>1
  <2>. QED BY <1>1, <1>2, <1>3, <2>1, CallsFrame, NamingFrame, Programs
<1>15. Typing'
  <2>1. /\ pc'[Keyboard] = "sleep" /\ \E t \in Clients : (port[t] = send_port /\ port[t] # 0)'
        /\ (shift = Shifted(scans, Len(scans) + 1))'
        /\ Typed(scans)' \in Seq(KeyChar) /\ Ranked(TypedAt(scans))'
        /\ \A t \in Clients : port'[t] = 0 => got'[t] = <<>>
    BY <1>1, <1>2, <1>3, <1>4, <1>5 DEF Typing
  <2>2. letters'[port[Keyboard]] = letters[port[Keyboard]]
    BY <1>6, <1>9
  <2>3. (port[Keyboard] # 0 => \A i \in 1..Len(letters[port[Keyboard]]) :
           \E t \in Clients : port[t] # 0 /\ port[t] = letters[port[Keyboard]][i].from)'
    BY <1>1, <1>2, <2>2 DEF Typing
  <2>4. ASSUME NEW t \in Clients, port[t] # 0, NEW i \in 1..Len(letters'[port[t]])
        PROVE  letters'[port[t]][i].data \in KeyChar
    <3>1. CASE t = c
      <4>1. letters[send_port] \in Seq(Letter) /\ l.data \in KeyChar
        BY <1>2, <1>6, <1>8 DEF l
      <4>2. \A j \in 1..Len(letters[send_port]) : letters[send_port][j].data \in KeyChar
        BY <1>2, <1>5 DEF Typing
      <4>3. i \in 1..Len(Append(letters[send_port], l)) /\ letters'[port[t]] = Append(letters[send_port], l)
        BY <1>5, <1>9, <2>4, <3>1
      <4>. QED BY <1>8, <4>1, <4>2, <4>3
    <3>2. CASE t # c
      <4>1. letters'[port[t]] = letters[port[t]]
        <5>1. t \in Callers /\ port[t] # send_port
          BY <1>6, <3>2, Programs
        <5>2. port[t] \in Id \ {send_port}
          BY <1>6, <2>4, <5>1
        <5>. QED BY <1>9, <5>1, <5>2
      <4>. QED BY <1>2, <2>4, <4>1 DEF Typing
    <3>. QED BY <3>1, <3>2
  <2>5. (\A t \in Clients : port[t] # 0 => \A i \in 1..Len(letters[port[t]]) :
           letters[port[t]][i].data \in KeyChar)'
    BY <1>1, <2>4
  <2>. QED BY <2>1, <2>3, <2>5 DEF Typing
<1>16. Heard'
  <2>1. Expected = Front(Typed(scans)) /\ Expected' = Typed(scans)
    BY <1>1, <1>3 DEF Expected
  <2>2. got[c] \o Datas(letters[send_port]) = Front(Typed(scans))
    BY <1>2, <1>5, <2>1 DEF Heard
  <2>3. got[c] \in Seq(Data) /\ letters[send_port] \in Seq(Letter) /\ l.data = key /\ key \in Data
    <3>1. got[c] \in Seq(Data)
      BY <1>2, KeysAreData, Programs
    <3>2. l.data = key /\ key \in Data
      BY <1>8 DEF l, Data
    <3>. QED BY <1>2, <1>6, <3>1, <3>2
  <2>4. Datas(letters'[send_port]) = Append(Datas(letters[send_port]), key)
        /\ Datas(letters[send_port]) \in Seq(Data)
    BY <1>8, <1>9, <2>3, DatasAppend
  <2>5. got[c] \o Append(Datas(letters[send_port]), key) = Append(Front(Typed(scans)), key)
    <3>1. PICK g \in Seq(Data), d \in Seq(Data) : g = got[c] /\ d = Datas(letters[send_port])
      BY <2>3, <2>4
    <3>2. g \o Append(d, key) = Append(g \o d, key)
      BY <2>3, AppendConcat
    <3>. QED BY <2>2, <3>1, <3>2
  <2>6. Append(Front(Typed(scans)), Last(Typed(scans))) = Typed(scans)
    <3>1. PICK q \in Seq(KeyChar) : q = Typed(scans)
      BY <1>4
    <3>2. q # <<>>
      BY <1>4, <3>1
    <3>. QED BY <3>1, <3>2 DEF Front, Last
  <2>7. got[c] \o Datas(letters'[send_port]) = Typed(scans)
    BY <1>4, <2>4, <2>5, <2>6
  <2>8. ASSUME NEW t \in Clients, port[t] # 0
        PROVE  got[t] \o Datas(letters'[port[t]]) = IF port[t] = send_port THEN Typed(scans) ELSE <<>>
    <3>1. CASE t = c
      BY <1>5, <2>7, <3>1
    <3>2. CASE t # c
      <4>1. letters'[port[t]] = letters[port[t]] /\ port[t] # send_port
        <5>1. t \in Callers /\ port[t] # send_port
          BY <1>6, <3>2, Programs
        <5>2. port[t] \in Id \ {send_port}
          BY <1>6, <2>8, <5>1
        <5>. QED BY <1>9, <5>1, <5>2
      <4>. QED BY <1>2, <2>8, <4>1 DEF Heard
    <3>. QED BY <3>1, <3>2
  <2>. QED BY <1>1, <2>1, <2>8 DEF Heard
<1>. QED BY <1>9, <1>11, <1>12, <1>13, <1>14, <1>15, <1>16 DEF ProgInv

LEMMA TypedNothing == Typed(<<>>) = <<>>
<1>1. TypedAt(<<>>) = {}
  BY DEF TypedAt
<1>2. 1..Cardinality(TypedAt(<<>>)) = {}
  BY <1>1, FS_EmptySet
<1>3. DOMAIN Typed(<<>>) = {} /\ Typed(<<>>) = [n \in {} |-> Typed(<<>>)[n]]
  BY <1>2, TypedFcn
<1>. QED BY <1>3

LEMMA ListenKeeps ==
  ASSUME PortInv, ProgInv, KeyboardListen
  PROVE  ProgInv'
<1>. DEFINE p == port[Keyboard]
            q == letters[port[Keyboard]]
<1>1. CASE pc[Keyboard] = "listen" /\ Sleeps(Keyboard, p)
  BY <1>1, SleepsKeeps, Programs
<1>2. CASE /\ Goto(Keyboard, "listen", "sleep")
           /\ Received(Keyboard, p)
           /\ send_port' = Head(q).from
           /\ UNCHANGED <<names, request, nh, port, answer, shift, key, scans, got>>
  <2>1. /\ ProgTypes /\ Sync /\ Positions /\ Ended /\ Naming /\ Calls /\ Typing /\ Heard
        /\ pc \in [Task -> Label]
    BY InvParts
  <2>2. /\ pc' \in [Task -> Label] /\ pc[Keyboard] = "listen" /\ pc'[Keyboard] = "sleep"
        /\ \A t \in Task \ {Keyboard} : pc'[t] = pc[t]
    BY <1>2, <2>1, GoesOn, Programs DEF Label
  <2>3. /\ Sync' /\ letters' \in [Id -> Seq(Letter)]
        /\ q \in Seq(Letter) /\ q # <<>> /\ Head(q) \in Letter
        /\ letters'[p] = Tail(q) /\ \A i \in Id \ {p} : letters'[i] = letters[i]
        /\ p \in Id /\ Kept /\ Lives(Keyboard) /\ state' = state
    BY <1>2, <2>1, ReceivedLetter, Programs
  <2>4. /\ 1 \in Id \ {p} /\ p # 0
        /\ \A t \in Callers : nh[t] # 0 => nh[t] \in Id \ {p}
        /\ \A t \in Clients : port[t] # 0 => port[t] \in Id \ {p}
    <3>1. p # 0
      BY <2>3, Programs
    <3>2. p # 1 /\ p \in Id
      BY <2>1, <2>3, <3>1, Distinct, Programs
    <3>3. \A t \in Callers : nh[t] # 0 => nh[t] \in Id /\ nh[t] # p
      BY <2>1, <3>1, Distinct, Programs
    <3>4. \A t \in Callers : t # Keyboard /\ port[t] # 0 => port[t] \in Id /\ port[t] # p
      BY <2>1, <3>1, Distinct, Programs
    <3>5. \A t \in Clients : t \in Callers /\ t # Keyboard
      BY Programs
    <3>. QED BY <3>1, <3>2, <3>3, <3>4, <3>5, Programs
  <2>5. PICK c \in Clients : port[c] # 0 /\ port[c] = Head(q).from
    <3>1. 1 \in 1..Len(q) /\ Head(q) = q[1]
      BY <2>3
    <3>. QED BY <2>1, <2>4, <3>1 DEF Typing
  <2>6. ProgTypes'
    <3>1. send_port' \in 0..(RMax - 1)
      BY <1>2, <2>3 DEF Letter
    <3>. QED BY <1>2, <2>1, <2>2, <2>3, <3>1 DEF ProgTypes
  <2>7. Positions'
    <3>1. Belongs'
      BY <1>2, <2>1, <2>3, BelongsFrame DEF Positions, Same, Kept
    <3>. QED BY <1>2, <2>1, <2>2, <3>1, Programs DEF Positions, Stages
  <2>8. Ended'
    <3>1. \A u \in Task : Lives(u)' <=> Lives(u)
      BY <2>3 DEF Lives
    <3>. QED BY <1>2, <2>1, <2>2, <2>3, <3>1, EndedFrame, Programs
  <2>9. Naming' /\ Calls'
    <3>1. letters'[1] = letters[1] /\ \A t \in Callers : nh[t] # 0 => letters'[nh[t]] = letters[nh[t]]
      BY <2>3, <2>4
    <3>. QED BY <1>2, <2>1, <2>2, <3>1, CallsFrame, NamingFrame, Programs
  <2>10. /\ send_port = 0 /\ scans = <<>> /\ shift = Shifted(scans, Len(scans) + 1)
         /\ Typed(scans) \in Seq(KeyChar) /\ Ranked(TypedAt(scans))
    BY <2>1, <2>2 DEF Typing
  <2>11. Typing'
    <3>1. /\ pc'[Keyboard] = "sleep" /\ \E t \in Clients : (port[t] = send_port /\ port[t] # 0)'
          /\ (shift = Shifted(scans, Len(scans) + 1))'
          /\ Typed(scans)' \in Seq(KeyChar) /\ Ranked(TypedAt(scans))'
          /\ \A t \in Clients : port'[t] = 0 => got'[t] = <<>>
      BY <1>2, <2>1, <2>2, <2>5, <2>10 DEF Typing
    <3>2. ASSUME NEW i \in 1..Len(Tail(q))
          PROVE  \E t \in Clients : port[t] # 0 /\ port[t] = Tail(q)[i].from
      <4>1. Tail(q)[i] = q[i + 1] /\ i + 1 \in 1..Len(q)
        BY <2>3
      <4>. QED BY <2>1, <2>4, <4>1 DEF Typing
    <3>3. (port[Keyboard] # 0 => \A i \in 1..Len(letters[port[Keyboard]]) :
             \E t \in Clients : port[t] # 0 /\ port[t] = letters[port[Keyboard]][i].from)'
      BY <1>2, <2>3, <3>2
    <3>4. (\A t \in Clients : port[t] # 0 => \A i \in 1..Len(letters[port[t]]) :
             letters[port[t]][i].data \in KeyChar)'
      BY <1>2, <2>1, <2>3, <2>4 DEF Typing
    <3>. QED BY <3>1, <3>3, <3>4 DEF Typing
  <2>12. Heard'
    <3>1. Expected' = <<>>
      BY <1>2, <2>2, <2>10, TypedNothing DEF Expected
    <3>2. \A t \in Clients : port[t] # 0 => got[t] \o Datas(letters[port[t]]) = <<>>
      BY <2>1, <2>10 DEF Heard
    <3>3. \A t \in Clients : port[t] # 0 => letters'[port[t]] = letters[port[t]]
      BY <2>3, <2>4
    <3>. QED BY <1>2, <3>1, <3>2, <3>3 DEF Heard
  <2>. QED BY <2>3, <2>6, <2>7, <2>8, <2>9, <2>11, <2>12 DEF ProgInv
<1>. QED BY <1>1, <1>2 DEF KeyboardListen

-----------------------------------------------------------------------------
(* Programs that read keys *)

LEMMA ReadKeyKeeps ==
  ASSUME PortInv, ProgInv, NEW c \in Clients, ReadKey(c)
  PROVE  ProgInv'
<1>. DEFINE p == port[c]
            q == letters[port[c]]
<1>1. CASE pc[c] = "read" /\ Sleeps(c, p)
  BY <1>1, SleepsKeeps, Programs
<1>2. CASE /\ pc[c] = "read"
           /\ Received(c, p)
           /\ got' = [got EXCEPT ![c] = Append(@, Head(q).data)]
           /\ UNCHANGED <<pc, names, request, nh, port, answer, send_port, shift, key, scans>>
  <2>1. /\ ProgTypes /\ Sync /\ Positions /\ Ended /\ Naming /\ Calls /\ Typing /\ Heard
        /\ pc \in [Task -> Label] /\ got \in [Task -> Seq(KeyChar)]
    BY InvParts
  <2>2. /\ Sync' /\ letters' \in [Id -> Seq(Letter)]
        /\ q \in Seq(Letter) /\ q # <<>> /\ Head(q) \in Letter
        /\ letters'[p] = Tail(q) /\ \A i \in Id \ {p} : letters'[i] = letters[i]
        /\ p \in Id /\ Kept /\ Lives(c) /\ state' = state
    BY <1>2, <2>1, ReceivedLetter, Programs
  <2>3. /\ 1 \in Id \ {p} /\ p # 0
        /\ \A t \in Callers : nh[t] # 0 => nh[t] \in Id \ {p}
        /\ \A t \in Callers : t # c /\ port[t] # 0 => port[t] \in Id \ {p}
    BY <2>1, <2>2, Distinct, Programs
  <2>4. Head(q).data \in KeyChar
    <3>1. 1 \in 1..Len(q) /\ Head(q) = q[1]
      BY <2>2
    <3>. QED BY <2>1, <2>3, <3>1 DEF Typing
  <2>5. /\ got' \in [Task -> Seq(KeyChar)] /\ got'[c] = Append(got[c], Head(q).data)
        /\ \A t \in Task \ {c} : got'[t] = got[t]
    <3>1. got[c] \in Seq(KeyChar) /\ c \in Task
      BY <2>1, Programs
    <3>. QED BY <1>2, <2>1, <2>4, <3>1
  <2>6. ProgTypes'
    BY <1>2, <2>1, <2>2, <2>5 DEF ProgTypes
  <2>7. Positions'
    BY <1>2, <2>1, <2>2, PositionsFrame DEF Same, Kept
  <2>8. Ended'
    <3>1. \A u \in Task : Lives(u)' <=> Lives(u)
      BY <2>2 DEF Lives
    <3>. QED BY <1>2, <2>1, <2>2, <3>1, EndedFrame, Programs
  <2>9. Naming' /\ Calls'
    <3>1. letters'[1] = letters[1] /\ \A t \in Callers : nh[t] # 0 => letters'[nh[t]] = letters[nh[t]]
      BY <2>2, <2>3
    <3>. QED BY <1>2, <2>1, <3>1, CallsFrame, NamingFrame, Programs
  <2>10. Typing'
    <3>1. /\ (pc[Keyboard] \in {"sleep", "send"} =>
                \E t \in Clients : port[t] = send_port /\ port[t] # 0)'
          /\ (pc[Keyboard] \notin {"sleep", "send"} => send_port = 0 /\ scans = <<>>)'
          /\ (shift = Shifted(scans, Len(scans) + 1))'
          /\ (pc[Keyboard] = "send" => Typed(scans) # <<>> /\ key = Last(Typed(scans)))'
          /\ Typed(scans)' \in Seq(KeyChar) /\ Ranked(TypedAt(scans))'
      BY <1>2, <2>1 DEF Typing
    <3>2. port[Keyboard] # 0 => letters'[port[Keyboard]] = letters[port[Keyboard]]
      BY <2>2, <2>3, Programs
    <3>3. (port[Keyboard] # 0 => \A i \in 1..Len(letters[port[Keyboard]]) :
             \E t \in Clients : port[t] # 0 /\ port[t] = letters[port[Keyboard]][i].from)'
      BY <1>2, <2>1, <3>2 DEF Typing
    <3>4. \A t \in Clients : port'[t] = 0 => got'[t] = <<>>
      BY <1>2, <2>1, <2>3, <2>5, Programs DEF Typing
    <3>5. ASSUME NEW t \in Clients, port[t] # 0, NEW i \in 1..Len(letters'[port[t]])
          PROVE  letters'[port[t]][i].data \in KeyChar
      <4>1. CASE t = c
        <5>1. i \in 1..Len(Tail(q)) /\ letters'[port[t]] = Tail(q)
          BY <2>2, <3>5, <4>1
        <5>2. Tail(q)[i] = q[i + 1] /\ i + 1 \in 1..Len(q)
          BY <2>2, <5>1
        <5>. QED BY <2>1, <2>3, <5>1, <5>2 DEF Typing
      <4>2. CASE t # c
        <5>1. letters'[port[t]] = letters[port[t]]
          BY <2>2, <2>3, <3>5, <4>2, Programs
        <5>. QED BY <2>1, <3>5, <5>1 DEF Typing
      <4>. QED BY <4>1, <4>2
    <3>6. (\A t \in Clients : port[t] # 0 => \A i \in 1..Len(letters[port[t]]) :
             letters[port[t]][i].data \in KeyChar)'
      BY <1>2, <3>5
    <3>. QED BY <3>1, <3>3, <3>4, <3>6 DEF Typing
  <2>11. Heard'
    <3>1. Expected' = Expected
      BY <1>2 DEF Expected
    <3>2. got'[c] \o Datas(letters'[p]) = got[c] \o Datas(q)
      <4>1. got[c] \in Seq(Data)
        BY <2>1, KeysAreData, Programs
      <4>2. PICK g \in Seq(Data), d \in Seq(Data) : g = got[c] /\ d = Datas(q)
        BY <2>2, <4>1, DatasTail
      <4>3. d # <<>> /\ Head(d) = Head(q).data /\ Datas(Tail(q)) = Tail(d)
        BY <2>2, <4>2, DatasTail
      <4>4. Append(g, Head(d)) \o Tail(d) = g \o d
        BY <4>3, HeadConcat
      <4>. QED BY <2>2, <2>5, <4>2, <4>3, <4>4
    <3>3. \A t \in Clients : t # c /\ port[t] # 0 =>
            letters'[port[t]] = letters[port[t]] /\ got'[t] = got[t]
      BY <2>2, <2>3, <2>5, Programs
    <3>. QED BY <1>2, <2>1, <3>1, <3>2, <3>3 DEF Heard
  <2>. QED BY <2>2, <2>6, <2>7, <2>8, <2>9, <2>10, <2>11 DEF ProgInv
<1>. QED BY <1>1, <1>2 DEF ReadKey

-----------------------------------------------------------------------------
(* Ports that programs open, and where keys should go *)

LEMMA OpenPortKeeps ==
  ASSUME PortInv, ProgInv, NEW t \in Callers, OpenPort(t)
  PROVE  ProgInv'
<1>1. /\ ProgTypes /\ Sync /\ Positions /\ Ended /\ Naming /\ Calls /\ Typing /\ Heard
      /\ pc \in [Task -> Label] /\ letters \in [Id -> Seq(Letter)]
      /\ port \in [Task -> 0..(RMax - 1)]
  BY InvParts
<1>2. /\ port' = [port EXCEPT ![t] = NewId] /\ port_create(t, 0) /\ t \in Task
      /\ UNCHANGED <<letters, names, request, nh, answer, send_port, shift, key, scans, got>>
  BY Programs DEF OpenPort
<1>3. PICK new \in Id : new = NewId
  BY <1>1, <1>2, CreateEffect
<1>4. /\ rtype[new] # "PORT" /\ rtype'[new] = "PORT" /\ owner'[new] = t /\ restrict'[new] = 0
      /\ \A id \in Id \ {new} : Same(id)
      /\ queue' = queue /\ slaved' = slaved /\ state' = state /\ queue[new] = <<>>
  BY <1>1, <1>2, <1>3, CreateEffect
<1>5. /\ port' \in [Task -> 0..(RMax - 1)] /\ port'[t] = new /\ new # 0
      /\ \A u \in Task \ {t} : port'[u] = port[u]
  BY <1>1, <1>2, <1>3, Programs
<1>6. letters[new] = <<>>
  <2>1. Len(letters[new]) = 0 /\ letters[new] \in Seq(Letter)
    BY <1>1, <1>4 DEF Sync
  <2>. QED BY <2>1
<1>7. /\ pc[t] = "open" /\ port[t] = 0
      /\ \/ t \in Clients /\ pc'[t] = "attach"
         \/ t = Keyboard /\ pc'[t] = "handle"
      /\ pc' \in [Task -> Label] /\ \A u \in Task \ {t} : pc'[u] = pc[u]
  <2>1. CASE t \in Clients /\ Goto(t, "open", "attach")
    <3>1. /\ pc' \in [Task -> Label] /\ pc[t] = "open" /\ pc'[t] = "attach"
          /\ \A u \in Task \ {t} : pc'[u] = pc[u]
      BY <2>1, <1>1, <1>2, GoesOn DEF Label
    <3>2. port[t] = 0
      BY <1>1, <2>1, <3>1 DEF Positions, Stages
    <3>. QED BY <2>1, <3>1, <3>2
  <2>2. CASE t = Keyboard /\ Goto(t, "open", "handle")
    <3>1. /\ pc' \in [Task -> Label] /\ pc[t] = "open" /\ pc'[t] = "handle"
          /\ \A u \in Task \ {t} : pc'[u] = pc[u]
      BY <2>2, <1>1, <1>2, GoesOn DEF Label
    <3>2. port[t] = 0
      BY <1>1, <2>2, <3>1 DEF Positions, Stages
    <3>. QED BY <2>2, <3>1, <3>2
  <2>. QED BY <2>1, <2>2 DEF OpenPort
<1>8. ProgTypes' /\ Sync'
  BY <1>1, <1>2, <1>4, <1>5, <1>7 DEF ProgTypes, Sync
<1>9. Positions'
  <2>1. \A id \in Id : rtype[id] = "PORT" => Same(id)
    BY <1>4
  <2>2. Owns(t, new, 0)'
    BY <1>3, <1>4 DEF Owns, IsPort, IsLive
  <2>3. \A u, id, r : Owns(u, id, r) => Owns(u, id, r)'
    BY <2>1 DEF Same, Owns, IsPort, IsLive
  <2>4. Belongs'
    <3>1. Owns(Namer, 1, 0)' /\ \A u \in Callers : (nh[u] # 0 => Owns(u, nh[u], 1))'
      <4>1. Owns(Namer, 1, 0)'
        BY <1>1, <2>3 DEF Positions, Belongs
      <4>2. ASSUME NEW u \in Callers, nh'[u] # 0 PROVE Owns(u, nh[u], 1)'
        <5>1. nh' = nh /\ Owns(u, nh[u], 1)
          BY <1>1, <1>2, <4>2 DEF Positions, Belongs
        <5>. QED BY <2>3, <5>1 DEF Owns, IsPort, IsLive
      <4>. QED BY <4>1, <4>2
    <3>2. ASSUME NEW u \in Callers, port'[u] # 0 PROVE Owns(u, port[u], 0)'
      <4>1. CASE u = t
        BY <1>5, <2>2, <4>1 DEF Owns, IsPort, IsLive
      <4>2. CASE u # t
        <5>1. port'[u] = port[u] /\ Owns(u, port[u], 0)
          BY <1>1, <1>5, <3>2, <4>2, Programs DEF Positions, Belongs
        <5>. QED BY <2>3, <5>1 DEF Owns, IsPort, IsLive
      <4>. QED BY <4>1, <4>2
    <3>. QED BY <3>1, <3>2 DEF Belongs
  <2>. QED BY <1>1, <1>2, <1>5, <1>7, <2>4, Programs DEF Positions, Stages
<1>10. Ended'
  <2>1. Lives(t) /\ \A u \in Task : Lives(u)' <=> Lives(u)
    BY <1>2, <1>4 DEF Lives, port_create, Running
  <2>. QED BY <1>1, <1>2, <1>5, <1>7, <2>1, EndedFrame
<1>11. Naming' /\ Calls'
  <2>1. port'[Keyboard] = port[Keyboard] \/ (port[Keyboard] = 0 /\ pc[Keyboard] # "answer")
    BY <1>5, <1>7, Programs
  <2>2. /\ pc'[Namer] = "serve" <=> pc[Namer] = "serve"
        /\ \A u \in Callers : pc'[u] = "answer" <=> pc[u] = "answer"
    BY <1>7, Programs
  <2>. QED BY <1>1, <1>2, <2>1, <2>2, CallsFrame, NamingFrame
<1>12. /\ send_port = 0 \/ \E c \in Clients : port[c] = send_port /\ port[c] # 0
       /\ pc'[Keyboard] \in {"sleep", "send"} <=> pc[Keyboard] \in {"sleep", "send"}
       /\ pc'[Keyboard] = "send" <=> pc[Keyboard] = "send"
  BY <1>1, <1>7, Programs DEF Typing
<1>13. send_port # new
  BY <1>1, <1>4, <1>5, <1>12, Distinct, Programs
<1>14. got[t] = <<>> \/ t = Keyboard
  BY <1>1, <1>7 DEF Typing
<1>15. Typing'
  <2>1. \A c \in Clients : port[c] # 0 => port'[c] = port[c] /\ c \in Callers
    BY <1>5, <1>7, Programs
  <2>2. (pc[Keyboard] \in {"sleep", "send"} => \E c \in Clients : port[c] = send_port /\ port[c] # 0)'
    BY <1>1, <1>2, <1>12, <2>1 DEF Typing
  <2>3. /\ (pc[Keyboard] \notin {"sleep", "send"} => send_port = 0 /\ scans = <<>>)'
        /\ (shift = Shifted(scans, Len(scans) + 1))'
        /\ (pc[Keyboard] = "send" => Typed(scans) # <<>> /\ key = Last(Typed(scans)))'
        /\ Typed(scans)' \in Seq(KeyChar) /\ Ranked(TypedAt(scans))'
    <3>1. key' = key /\ scans' = scans /\ shift' = shift /\ send_port' = send_port
      BY <1>2
    <3>. QED BY <1>1, <1>12, <3>1 DEF Typing
  <2>4. (port[Keyboard] # 0 => \A i \in 1..Len(letters[port[Keyboard]]) :
           \E c \in Clients : port[c] # 0 /\ port[c] = letters[port[Keyboard]][i].from)'
    <3>1. CASE t = Keyboard
      BY <1>2, <1>5, <1>6, <3>1
    <3>2. CASE t # Keyboard
      <4>1. port'[Keyboard] = port[Keyboard] /\ letters' = letters
        BY <1>2, <1>5, <3>2, Programs
      <4>2. port[Keyboard] # 0 => \A i \in 1..Len(letters[port[Keyboard]]) :
              \E c \in Clients : port[c] # 0 /\ port[c] = letters[port[Keyboard]][i].from
        BY <1>1 DEF Typing
      <4>3. ASSUME NEW i, \E c \in Clients : port[c] # 0 /\ port[c] = letters[port[Keyboard]][i].from
            PROVE  \E c \in Clients : port'[c] # 0 /\ port'[c] = letters[port[Keyboard]][i].from
        BY <2>1, <4>3
      <4>. QED BY <4>1, <4>2, <4>3
    <3>. QED BY <3>1, <3>2
  <2>5. ASSUME NEW c \in Clients
        PROVE  /\ port'[c] = 0 => got'[c] = <<>>
               /\ port'[c] # 0 => \A i \in 1..Len(letters'[port'[c]]) : letters'[port'[c]][i].data \in KeyChar
    <3>1. CASE c = t
      BY <1>2, <1>5, <1>6, <3>1
    <3>2. CASE c # t
      <4>1. port'[c] = port[c] /\ letters' = letters /\ got' = got
        BY <1>2, <1>5, <3>2, Programs
      <4>. QED BY <1>1, <4>1 DEF Typing
    <3>. QED BY <3>1, <3>2
  <2>6. (\A c \in Clients : /\ port[c] = 0 => got[c] = <<>>
                            /\ port[c] # 0 => \A i \in 1..Len(letters[port[c]]) :
                                                letters[port[c]][i].data \in KeyChar)'
    BY <2>5
  <2>. QED BY <2>2, <2>3, <2>4, <2>6 DEF Typing
<1>16. Heard'
  <2>1. Expected' = Expected
    BY <1>2, <1>12 DEF Expected
  <2>2. ASSUME NEW c \in Clients, port'[c] # 0
        PROVE  got'[c] \o Datas(letters'[port'[c]]) = IF port'[c] = send_port' THEN Expected' ELSE <<>>
    <3>1. CASE c = t
      <4>1. got[c] = <<>> /\ Datas(<<>>) = <<>>
        BY <1>14, <3>1, Programs DEF Datas
      <4>. QED BY <1>2, <1>5, <1>6, <1>13, <3>1, <4>1
    <3>2. CASE c # t
      <4>1. port'[c] = port[c] /\ letters' = letters /\ got' = got
        BY <1>2, <1>5, <3>2, Programs
      <4>. QED BY <1>1, <1>2, <2>1, <2>2, <4>1 DEF Heard
    <3>. QED BY <3>1, <3>2
  <2>. QED BY <2>2 DEF Heard
<1>. QED BY <1>8, <1>9, <1>10, <1>11, <1>15, <1>16 DEF ProgInv

LEMMA AttachKeeps ==
  ASSUME PortInv, ProgInv, NEW t \in Clients, Attach(t)
  PROVE  ProgInv'
<1>. DEFINE l == [from |-> port[t], text |-> "", data |-> 15]
<1>1. /\ ProgTypes /\ Sync /\ Positions /\ Ended /\ Naming /\ Calls /\ Typing /\ Heard
      /\ pc \in [Task -> Label] /\ letters \in [Id -> Seq(Letter)]
      /\ port \in [Task -> 0..(RMax - 1)]
  BY InvParts
<1>2. /\ Goto(t, "attach", "read") /\ Send(t, answer[t], 4, l) /\ t \in Task /\ t \in Callers
      /\ UNCHANGED <<names, request, nh, port, answer, send_port, shift, key, scans, got>>
  BY Programs DEF Attach
<1>3. /\ pc' \in [Task -> Label] /\ pc[t] = "attach" /\ pc'[t] = "read"
      /\ \A u \in Task \ {t} : pc'[u] = pc[u]
  BY <1>1, <1>2, GoesOn DEF Label
<1>4. port[t] # 0
  BY <1>1, <1>3 DEF Positions, Stages
<1>5. l \in Letter /\ l.from = port[t]
  <2>1. port[t] \in 0..(RMax - 1)
    BY <1>1, <1>2
  <2>. QED BY <2>1 DEF Letter
<1>. HIDE DEF l
<1>6. /\ Lives(t)
      /\ \/ Sent(t, answer[t], l)
         \/ UNCHANGED <<letters, vars>>
  BY <1>1, <1>2, SendEffect
<1>7. PICK p \in 0..(RMax - 1) : p = port[Keyboard]
  BY <1>1, Programs
<1>8. /\ \A u \in Callers : nh[u] # 0 => nh[u] \in Id \ {p}
      /\ \A u \in Clients : port[u] # 0 => port[u] \in Id \ {p}
      /\ 1 \in Id \ {p}
  <2>1. \A u \in Callers : nh[u] # 0 => nh[u] \in Id /\ nh[u] # p
    BY <1>1, <1>7, Distinct, Programs
  <2>2. \A u \in Callers : u # Keyboard /\ port[u] # 0 => port[u] \in Id /\ port[u] # p
    BY <1>1, <1>7, Distinct, Programs
  <2>3. \A u \in Clients : u \in Callers /\ u # Keyboard
    BY Programs
  <2>4. 1 \in Id /\ 1 # p
    BY <1>1, <1>7, Distinct, Programs
  <2>. QED BY <2>1, <2>2, <2>3, <2>4
\* What the letter changes, if it is sent.
<1>9. /\ Sync' /\ letters' \in [Id -> Seq(Letter)] /\ Kept
      /\ \A i \in Id \ {p} : letters'[i] = letters[i]
      /\ \/ letters' = letters
         \/ p \in Id /\ letters'[p] = Append(letters[p], l)
      /\ \A u \in Task : u # t => (Lives(u)' <=> Lives(u))
  <2>1. CASE Sent(t, answer[t], l)
    <3>1. PICK d \in Id : d = answer[t]
      BY <2>1 DEF Sent
    <3>2. d = p
      <4>1. d > 0
        BY <3>1 DEF Id
      <4>. QED BY <1>1, <1>2, <1>7, <3>1, <4>1 DEF Naming, AnswerIs
    <3>3. Sent(t, p, l)
      BY <2>1, <3>1, <3>2
    <3>4. /\ Sync' /\ letters' \in [Id -> Seq(Letter)]
          /\ letters'[p] = Append(letters[p], l)
          /\ \A i \in Id \ {p} : letters'[i] = letters[i]
      BY <1>1, <1>5, <3>3, SentLetter
    <3>. QED BY <3>1, <3>2, <3>3, <3>4 DEF Sent
  <2>2. CASE UNCHANGED <<letters, vars>>
    <3>1. UNCHANGED <<letters, rtype, owner, restrict, slaved, queue, state>>
      BY <2>2 DEF vars, rsrcVars, portVars, linkVars
    <3>. QED BY <1>1, <3>1 DEF Sync, Kept, Lives
  <2>. QED BY <1>6, <2>1, <2>2
<1>10. ProgTypes'
  BY <1>1, <1>2, <1>3, <1>9 DEF ProgTypes
<1>11. Positions'
  <2>1. Belongs'
    BY <1>1, <1>2, <1>9, BelongsFrame DEF Positions, Same, Kept
  <2>. QED BY <1>1, <1>2, <1>3, <2>1, Programs DEF Positions, Stages
<1>12. Ended'
  <2>1. /\ \A u \in Clients : Lives(u)' \/ pc'[u] \in {"handle", "read"}
        /\ Lives(Keyboard)' \/ pc'[Keyboard] = "sleep"
        /\ Lives(Namer)' /\ (Lives(Keyboard)' <=> Lives(Keyboard))
        /\ \A u \in Clients : ~Lives(u) => ~Lives(u)'
    BY <1>1, <1>2, <1>3, <1>6, <1>9, Programs DEF Ended, ServersLive
  <2>. QED BY <1>1, <1>2, <2>1 DEF Ended, ServersLive
<1>13. /\ Naming' /\ Calls'
  <2>1. letters'[1] = letters[1] /\ \A u \in Callers : nh[u] # 0 => letters'[nh[u]] = letters[nh[u]]
    BY <1>8, <1>9
  <2>. QED BY <1>1, <1>2, <1>3, <2>1, CallsFrame, NamingFrame, Programs
<1>14. /\ pc'[Keyboard] = pc[Keyboard]
       /\ \A u \in Clients : port[u] # 0 => letters'[port[u]] = letters[port[u]]
  BY <1>3, <1>8, <1>9, Programs
<1>15. Typing'
  <2>1. /\ (pc[Keyboard] \in {"sleep", "send"} => \E u \in Clients : port[u] = send_port /\ port[u] # 0)'
        /\ (pc[Keyboard] \notin {"sleep", "send"} => send_port = 0 /\ scans = <<>>)'
        /\ (shift = Shifted(scans, Len(scans) + 1))'
        /\ (pc[Keyboard] = "send" => Typed(scans) # <<>> /\ key = Last(Typed(scans)))'
        /\ Typed(scans)' \in Seq(KeyChar) /\ Ranked(TypedAt(scans))'
        /\ \A u \in Clients : port'[u] = 0 => got'[u] = <<>>
    BY <1>1, <1>2, <1>14 DEF Typing
  <2>2. ASSUME p # 0, NEW i \in 1..Len(letters'[p])
        PROVE  \E u \in Clients : port[u] # 0 /\ port[u] = letters'[p][i].from
    <3>1. CASE letters' = letters
      BY <1>1, <1>7, <2>2, <3>1 DEF Typing
    <3>2. CASE p \in Id /\ letters'[p] = Append(letters[p], l)
      <4>1. letters[p] \in Seq(Letter) /\ i \in 1..(Len(letters[p]) + 1)
        BY <1>1, <2>2, <3>2
      <4>2. CASE i \in 1..Len(letters[p])
        <5>1. letters'[p][i] = letters[p][i]
          BY <3>2, <4>1, <4>2
        <5>. QED BY <1>1, <1>7, <2>2, <4>2, <5>1 DEF Typing
      <4>3. CASE i = Len(letters[p]) + 1
        <5>1. letters'[p][i] = l
          BY <3>2, <4>1, <4>3
        <5>. QED BY <1>4, <1>5, <5>1
      <4>. QED BY <4>1, <4>2, <4>3
    <3>. QED BY <1>9, <3>1, <3>2
  <2>3. (port[Keyboard] # 0 => \A i \in 1..Len(letters[port[Keyboard]]) :
           \E u \in Clients : port[u] # 0 /\ port[u] = letters[port[Keyboard]][i].from)'
    BY <1>2, <1>7, <2>2
  <2>4. (\A u \in Clients : port[u] # 0 => \A i \in 1..Len(letters[port[u]]) :
           letters[port[u]][i].data \in KeyChar)'
    BY <1>1, <1>2, <1>14 DEF Typing
  <2>. QED BY <2>1, <2>3, <2>4 DEF Typing
<1>16. Heard'
  BY <1>1, <1>2, <1>14, HeardFrame
<1>. QED BY <1>9, <1>10, <1>11, <1>12, <1>13, <1>15, <1>16 DEF ProgInv

-----------------------------------------------------------------------------
(* Calls of the name server *)

InServer ==
  /\ \A i \in 1..Len(letters[1]) : \E t \in Callers : Calling(t) /\ Request(t, letters[1][i])
  /\ \A i, j \in 1..Len(letters[1]) : letters[1][i].from = letters[1][j].from => i = j
  /\ pc[Namer] = "serve" => \E t \in Callers : Calling(t) /\ Request(t, request)

InCall(t) ==
  /\ Calling(t) => OnePlace(t)
  /\ nh[t] # 0 /\ ~Calling(t) => NoPlace(t)
  /\ nh[t] # 0 => \A i \in 1..Len(letters[nh[t]]) : AnswerIs(t, letters[nh[t]][i].data)

LEMMA CallsParts == Calls => InServer /\ \A t \in Callers : InCall(t)
BY DEF Calls, InServer, InCall

LEMMA CallsWhole ==
  ASSUME InServer', \A t \in Callers : InCall(t)'
  PROVE  Calls'
BY DEF Calls, InServer, InCall

\* The call of a program that has no part in a step.
LEMMA InCallFrame ==
  ASSUME Stages, NEW u \in Callers, InCall(u),
         nh'[u] = nh[u], pc'[u] = "answer" <=> pc[u] = "answer",
         port'[Keyboard] = port[Keyboard],
         nh[u] # 0 => /\ letters'[nh[u]] = letters[nh[u]]
                      /\ Question(u)' <=> Question(u)
                      /\ Served(u)' <=> Served(u)
  PROVE  InCall(u)'
<1>1. CASE nh[u] = 0
  BY <1>1 DEF Stages, InCall, Calling
<1>2. CASE nh[u] # 0
  <2>1. (Calling(u)' => OnePlace(u)') /\ (~Calling(u)' => NoPlace(u)')
    BY <1>2 DEF InCall, Calling, OnePlace, NoPlace
  <2>2. (\A i \in 1..Len(letters[nh[u]]) : AnswerIs(u, letters[nh[u]][i].data))'
    BY <1>2 DEF InCall, AnswerIs
  <2>. QED BY <1>2, <2>1, <2>2 DEF InCall
<1>. QED BY <1>1, <1>2

LEMMA NewHandleKeeps ==
  ASSUME PortInv, ProgInv, NEW t \in Callers, namer_newhandle(t)
  PROVE  ProgInv'
<1>1. /\ ProgTypes /\ Sync /\ Positions /\ Ended /\ Naming /\ Calls /\ Typing /\ Heard
      /\ pc \in [Task -> Label] /\ letters \in [Id -> Seq(Letter)]
      /\ nh \in [Task -> 0..(RMax - 1)]
  BY InvParts
<1>2. /\ nh' = [nh EXCEPT ![t] = NewId] /\ port_create(t, 1) /\ t \in Task
      /\ Goto(t, "handle", "ask")
      /\ UNCHANGED <<letters, names, request, port, answer, send_port, shift, key, scans, got>>
  BY Programs DEF namer_newhandle
<1>3. PICK new \in Id : new = NewId
  BY <1>1, <1>2, CreateEffect
<1>4. /\ rtype[new] # "PORT" /\ rtype'[new] = "PORT" /\ owner'[new] = t /\ restrict'[new] = 1
      /\ \A id \in Id \ {new} : Same(id)
      /\ queue' = queue /\ slaved' = slaved /\ state' = state /\ queue[new] = <<>>
  BY <1>1, <1>2, <1>3, CreateEffect
<1>5. /\ nh' \in [Task -> 0..(RMax - 1)] /\ nh'[t] = new /\ new # 0
      /\ \A u \in Task \ {t} : nh'[u] = nh[u]
  BY <1>1, <1>2, <1>3, Programs
<1>6. letters[new] = <<>>
  <2>1. Len(letters[new]) = 0 /\ letters[new] \in Seq(Letter)
    BY <1>1, <1>4 DEF Sync
  <2>. QED BY <2>1
<1>7. /\ pc' \in [Task -> Label] /\ pc[t] = "handle" /\ pc'[t] = "ask"
      /\ \A u \in Task \ {t} : pc'[u] = pc[u]
  BY <1>1, <1>2, GoesOn DEF Label
<1>8. ProgTypes' /\ Sync'
  BY <1>1, <1>2, <1>4, <1>5, <1>7 DEF ProgTypes, Sync
<1>9. Positions'
  <2>1. \A id \in Id : rtype[id] = "PORT" => Same(id)
    BY <1>4
  <2>2. Owns(t, new, 1)'
    BY <1>3, <1>4 DEF Owns, IsPort, IsLive
  <2>3. \A u, id, r : Owns(u, id, r) => Owns(u, id, r)'
    BY <2>1 DEF Same, Owns, IsPort, IsLive
  <2>4. Belongs'
    <3>1. Owns(Namer, 1, 0)'
      BY <1>1, <2>3 DEF Positions, Belongs
    <3>2. ASSUME NEW u \in Callers, port'[u] # 0 PROVE Owns(u, port[u], 0)'
      <4>1. port' = port /\ Owns(u, port[u], 0)
        BY <1>1, <1>2, <3>2 DEF Positions, Belongs
      <4>. QED BY <2>3, <4>1 DEF Owns, IsPort, IsLive
    <3>3. ASSUME NEW u \in Callers, nh'[u] # 0 PROVE Owns(u, nh[u], 1)'
      <4>1. CASE u = t
        BY <1>5, <2>2, <4>1 DEF Owns, IsPort, IsLive
      <4>2. CASE u # t
        <5>1. nh'[u] = nh[u] /\ Owns(u, nh[u], 1)
          BY <1>1, <1>5, <3>3, <4>2, Programs DEF Positions, Belongs
        <5>. QED BY <2>3, <5>1 DEF Owns, IsPort, IsLive
      <4>. QED BY <4>1, <4>2
    <3>. QED BY <3>1, <3>2, <3>3 DEF Belongs
  <2>. QED BY <1>1, <1>2, <1>5, <1>7, <2>4, Programs DEF Positions, Stages
<1>10. Ended'
  <2>1. Lives(t) /\ \A u \in Task : Lives(u)' <=> Lives(u)
    BY <1>2, <1>4 DEF Lives, port_create, Running
  <2>. QED BY <1>1, <1>2, <1>5, <1>7, <2>1, EndedFrame
<1>11. \A u \in Callers : nh[u] # 0 => nh[u] # new
  BY <1>1, <1>4, Distinct
<1>12. \A u \in Callers : pc[u] = "answer" => nh[u] # 0 /\ u # t /\ pc'[u] = "answer" /\ nh'[u] = nh[u]
  BY <1>1, <1>5, <1>7, Distinct, Programs
<1>13. InServer
  BY <1>1, CallsParts
<1>14. InServer'
  <2>1. \A u \in Callers : \A l : Calling(u) /\ Request(u, l) => (Calling(u) /\ Request(u, l))'
    BY <1>2, <1>12 DEF Calling, Request, Number
  <2>2. pc'[Namer] = pc[Namer]
    BY <1>7, Programs
  <2>3. (\A i \in 1..Len(letters[1]) : \E u \in Callers : Calling(u) /\ Request(u, letters[1][i]))'
    BY <1>2, <1>13, <2>1 DEF InServer, Request
  <2>4. (pc[Namer] = "serve" => \E u \in Callers : Calling(u) /\ Request(u, request))'
    BY <1>2, <1>13, <2>1, <2>2 DEF InServer, Request
  <2>. QED BY <1>2, <1>13, <2>3, <2>4 DEF InServer
<1>15. InCall(t)'
  <2>1. ~Question(t)'
    BY <1>2, <1>5, <1>11, <1>12, <1>13 DEF Question, InServer, Request, Calling
  <2>2. ~Served(t)'
    BY <1>2, <1>5, <1>7, <1>11, <1>12, <1>13, Programs DEF Served, InServer, Request, Calling
  <2>3. letters'[nh'[t]] = <<>> /\ ~Calling(t)'
    BY <1>2, <1>5, <1>6, <1>7 DEF Calling
  <2>. QED BY <2>1, <2>2, <2>3 DEF InCall, NoPlace
<1>16. ASSUME NEW u \in Callers, u # t PROVE InCall(u)'
  <2>1. nh'[u] = nh[u] /\ pc'[u] = pc[u] /\ pc'[Namer] = pc[Namer] /\ letters' = letters
    BY <1>2, <1>5, <1>7, <1>16, Programs
  <2>2. (Question(u)' <=> Question(u)) /\ (Served(u)' <=> Served(u))
    BY <1>2, <2>1 DEF Question, Served
  <2>. QED BY <1>1, <1>2, <2>1, <2>2, CallsParts, InCallFrame DEF Positions
<1>17. Calls'
  BY <1>14, <1>15, <1>16, CallsWhole
<1>18. Naming' /\ Typing' /\ Heard'
  <2>1. /\ pc'[Keyboard] \in {"sleep", "send"} <=> pc[Keyboard] \in {"sleep", "send"}
        /\ pc'[Keyboard] = "send" <=> pc[Keyboard] = "send"
    BY <1>7, Programs
  <2>. QED BY <1>1, <1>2, <2>1, NamingFrame, TypingFrame, HeardFrame
<1>. QED BY <1>8, <1>9, <1>10, <1>17, <1>18 DEF ProgInv

LEMMA AskKeeps ==
  ASSUME PortInv, ProgInv, NEW t \in Callers, NamerAsk(t)
  PROVE  ProgInv'
<1>. DEFINE l == [from |-> nh[t], text |-> "keyboard", data |-> Number(t)]
<1>1. /\ ProgTypes /\ Sync /\ Positions /\ Ended /\ Naming /\ Calls /\ Typing /\ Heard
      /\ pc \in [Task -> Label] /\ letters \in [Id -> Seq(Letter)]
      /\ nh \in [Task -> 0..(RMax - 1)] /\ port \in [Task -> 0..(RMax - 1)]
  BY InvParts
<1>2. /\ Goto(t, "ask", "answer") /\ Send(t, 1, 36, l) /\ t \in Task
      /\ UNCHANGED <<names, request, nh, port, answer, send_port, shift, key, scans, got>>
  BY Programs DEF NamerAsk
<1>3. /\ pc' \in [Task -> Label] /\ pc[t] = "ask" /\ pc'[t] = "answer"
      /\ \A u \in Task \ {t} : pc'[u] = pc[u]
  BY <1>1, <1>2, GoesOn DEF Label
<1>4. nh[t] # 0
  BY <1>1, <1>3 DEF Positions, Stages
<1>5. l \in Letter /\ l.from = nh[t] /\ Request(t, l)
  <2>1. Number(t) \in Int
    BY <1>1, <1>2 DEF Number
  <2>2. nh[t] \in 0..(RMax - 1)
    BY <1>1, <1>2
  <2>. QED BY <2>1, <2>2 DEF Letter, Request
<1>. HIDE DEF l
<1>6. /\ nh[t] \in Id /\ rtype[nh[t]] = "PORT" /\ owner[nh[t]] = t
      /\ rtype[1] = "PORT" /\ owner[1] = Namer /\ restrict[1] = 0 /\ 1 \in Id
      /\ \A u \in Callers : u # t /\ nh[u] # 0 => nh[u] # nh[t]
      /\ \A u \in Callers : nh[u] # 0 => nh[u] \in Id \ {1}
      /\ \A u \in Callers : port[u] # 0 => port[u] \in Id \ {1}
  BY <1>1, <1>4, Distinct, Programs
<1>7. Sent(t, 1, l) /\ Lives(t)
  <2>1. SendResult(t, nh[t], 1, 36) = "OK"
    BY <1>1, <1>6, SendAccepted
  <2>. QED BY <1>1, <1>2, <1>5, <2>1, SendEffect
<1>8. /\ Sync' /\ letters' \in [Id -> Seq(Letter)]
      /\ letters'[1] = Append(letters[1], l)
      /\ \A i \in Id \ {1} : letters'[i] = letters[i]
  BY <1>1, <1>5, <1>7, SentLetter
<1>9. /\ Kept /\ \A u \in Task : Lives(u)' <=> Lives(u)
  <2>1. Lives(Namer)
    BY <1>1 DEF Ended, ServersLive
  <2>2. /\ \A u \in Task : u # t => (Lives(u)' <=> Lives(u))
        /\ Lives(t)' \/ state[Namer] = "FREED"
    BY <1>6, <1>7 DEF Sent
  <2>. QED BY <1>7, <2>1, <2>2 DEF Sent, Lives
<1>10. ProgTypes'
  BY <1>1, <1>2, <1>3, <1>8 DEF ProgTypes
<1>11. Positions'
  <2>1. Belongs'
    BY <1>1, <1>2, <1>9, BelongsFrame DEF Positions, Same, Kept
  <2>. QED BY <1>1, <1>2, <1>3, <2>1, Programs DEF Positions, Stages
<1>12. Ended'
  BY <1>1, <1>2, <1>3, <1>7, <1>9, EndedFrame
<1>13. PICK q \in Seq(Letter) : q = letters[1]
  BY <1>1, <1>6
<1>14. /\ Len(q) \in Nat /\ Len(letters'[1]) = Len(q) + 1
       /\ letters'[1][Len(q) + 1] = l
       /\ \A i \in 1..Len(q) : letters'[1][i] = q[i]
  BY <1>5, <1>8, <1>13
<1>15. InServer /\ NoPlace(t) /\ \A u \in Callers : InCall(u)
  BY <1>1, <1>3, <1>4, CallsParts DEF InCall, Calling
<1>16. InServer'
  <2>1. \A u \in Callers : \A m : Calling(u) /\ Request(u, m) => (Calling(u) /\ Request(u, m))'
    BY <1>2, <1>3, Programs DEF Calling, Request, Number
  <2>2. Calling(t)' /\ l.from = nh'[t] /\ l.text = "keyboard" /\ l.data = Number(t)'
    BY <1>2, <1>3, <1>5 DEF Calling, Request, Number
  <2>3. ASSUME NEW i \in 1..Len(letters'[1])
        PROVE  \E u \in Callers : (Calling(u))' /\ letters'[1][i].from = nh'[u]
                   /\ letters'[1][i].text = "keyboard" /\ letters'[1][i].data = Number(u)'
    <3>1. i \in 1..Len(q) \/ i = Len(q) + 1
      BY <1>14, <2>3
    <3>2. CASE i \in 1..Len(q)
      <4>1. letters'[1][i] = q[i] /\ \E u \in Callers : Calling(u) /\ Request(u, q[i])
        BY <1>13, <1>14, <1>15, <3>2 DEF InServer
      <4>. QED BY <2>1, <4>1 DEF Request
    <3>3. CASE i = Len(q) + 1
      BY <1>14, <2>2, <3>3
    <3>. QED BY <3>1, <3>2, <3>3
  <2>4. \A i, j \in 1..Len(letters'[1]) : letters'[1][i].from = letters'[1][j].from => i = j
    <3>1. \A i \in 1..Len(q) : q[i].from # nh[t]
      BY <1>13, <1>15 DEF NoPlace, Question
    <3>2. \A i, j \in 1..Len(q) : q[i].from = q[j].from => i = j
      BY <1>13, <1>15 DEF InServer
    <3>3. \A i \in 1..Len(letters'[1]) : i \in 1..Len(q) \/ i = Len(q) + 1
      BY <1>14
    <3>. QED BY <1>5, <1>14, <3>1, <3>2, <3>3
  <2>5. (pc[Namer] = "serve" => \E u \in Callers : Calling(u) /\ Request(u, request))'
    <3>1. pc'[Namer] = pc[Namer] /\ request' = request
      BY <1>2, <1>3, Programs
    <3>. QED BY <1>15, <2>1, <3>1 DEF InServer, Request
  <2>. QED BY <2>3, <2>4, <2>5 DEF InServer, Request
<1>17. letters'[nh[t]] = letters[nh[t]] /\ pc'[Namer] = pc[Namer]
  BY <1>3, <1>6, <1>8, Programs
<1>18. InCall(t)'
  <2>1. Question(t)'
    <3>1. Len(q) + 1 \in 1..Len(letters'[1]) /\ letters'[1][Len(q) + 1].from = nh'[t]
      BY <1>2, <1>5, <1>14
    <3>. QED BY <3>1 DEF Question
  <2>2. ~Served(t)' /\ letters'[nh'[t]] = <<>>
    BY <1>2, <1>15, <1>17 DEF NoPlace, Served
  <2>3. Calling(t)'
    BY <1>3 DEF Calling
  <2>. QED BY <2>1, <2>2, <2>3 DEF InCall, OnePlace
<1>19. ASSUME NEW u \in Callers, u # t PROVE InCall(u)'
  <2>1. nh' = nh /\ port' = port /\ pc'[u] = pc[u]
    BY <1>2, <1>3, <1>19, Programs
  <2>2. ASSUME nh[u] # 0
        PROVE  /\ letters'[nh[u]] = letters[nh[u]]
               /\ (Question(u)' <=> Question(u)) /\ (Served(u)' <=> Served(u))
    <3>1. letters'[nh[u]] = letters[nh[u]] /\ l.from # nh[u]
      BY <1>5, <1>6, <1>8, <1>19, <2>2
    <3>2. Served(u)' <=> Served(u)
      BY <1>2, <1>17 DEF Served
    <3>3. \A i \in 1..Len(letters'[1]) : i \in 1..Len(q) \/ i = Len(q) + 1
      BY <1>14
    <3>4. \A i \in 1..Len(q) : i \in 1..Len(letters'[1])
      BY <1>14
    <3>5. Question(u)' <=> Question(u)
      BY <1>13, <1>14, <2>1, <3>1, <3>3, <3>4 DEF Question
    <3>. QED BY <3>1, <3>2, <3>5
  <2>. QED BY <1>1, <1>15, <2>1, <2>2, InCallFrame DEF Positions
<1>20. Calls'
  BY <1>16, <1>18, <1>19, CallsWhole
<1>21. Naming' /\ Typing' /\ Heard'
  <2>1. /\ pc'[Keyboard] \in {"sleep", "send"} <=> pc[Keyboard] \in {"sleep", "send"}
        /\ pc'[Keyboard] = "send" <=> pc[Keyboard] = "send"
    BY <1>3, Programs
  <2>2. \A u \in Callers : port[u] # 0 => letters'[port[u]] = letters[port[u]]
    BY <1>6, <1>8
  <2>. QED BY <1>1, <1>2, <2>1, <2>2, NamingFrame, TypingFrame, HeardFrame, Programs
<1>. QED BY <1>8, <1>10, <1>11, <1>12, <1>20, <1>21 DEF ProgInv

LEMMA AnswerKeeps ==
  ASSUME PortInv, ProgInv, NEW t \in Callers, NamerAnswer(t)
  PROVE  ProgInv'
<1>. DEFINE h == nh[t]
            q == letters[nh[t]]
<1>1. CASE pc[t] = "answer" /\ Sleeps(t, h)
  BY <1>1, SleepsKeeps, Programs
<1>2. CASE /\ Goto(t, "answer", "delete")
           /\ Received(t, h)
           /\ answer' = [answer EXCEPT ![t] = Head(q).data]
           /\ UNCHANGED <<names, request, nh, port, send_port, shift, key, scans, got>>
  <2>1. /\ ProgTypes /\ Sync /\ Positions /\ Ended /\ Naming /\ Calls /\ Typing /\ Heard
        /\ pc \in [Task -> Label] /\ answer \in [Task -> Int] /\ t \in Task
    BY InvParts, Programs
  <2>2. /\ pc' \in [Task -> Label] /\ pc[t] = "answer" /\ pc'[t] = "delete"
        /\ \A u \in Task \ {t} : pc'[u] = pc[u]
    BY <1>2, <2>1, GoesOn DEF Label
  <2>3. /\ Sync' /\ letters' \in [Id -> Seq(Letter)]
        /\ q \in Seq(Letter) /\ q # <<>> /\ Head(q) \in Letter
        /\ letters'[h] = Tail(q) /\ \A i \in Id \ {h} : letters'[i] = letters[i]
        /\ h \in Id /\ Kept /\ Lives(t) /\ state' = state
    BY <1>2, <2>1, ReceivedLetter
  <2>4. /\ h # 0 /\ 1 \in Id \ {h}
        /\ \A u \in Callers : u # t /\ nh[u] # 0 => nh[u] \in Id \ {h}
        /\ \A u \in Callers : port[u] # 0 => port[u] \in Id \ {h}
    <3>1. h # 0 /\ h # 1
      BY <2>1, <2>2, Distinct
    <3>2. \A u \in Callers : u # t /\ nh[u] # 0 => nh[u] \in Id /\ nh[u] # h
      BY <2>1, <3>1, Distinct
    <3>3. \A u \in Callers : port[u] # 0 => port[u] \in Id /\ port[u] # h
      BY <2>1, <3>1, Distinct
    <3>. QED BY <3>1, <3>2, <3>3, Programs
  <2>5. InServer /\ \A u \in Callers : InCall(u)
    BY <2>1, CallsParts
  <2>6. /\ ~Question(t) /\ ~Served(t) /\ Len(q) = 1 /\ AnswerIs(t, Head(q).data)
    <3>1. 1 \in 1..Len(q) /\ Head(q) = q[1]
      BY <2>3
    <3>2. AnswerIs(t, q[1].data)
      BY <2>4, <2>5, <3>1 DEF InCall
    <3>. QED BY <2>2, <2>3, <2>5, <3>1, <3>2 DEF InCall, Calling, OnePlace
  <2>7. /\ answer' \in [Task -> Int] /\ answer'[t] = Head(q).data
        /\ \A u \in Task \ {t} : answer'[u] = answer[u]
    BY <1>2, <2>1, <2>6 DEF AnswerIs
  <2>8. ProgTypes'
    BY <1>2, <2>1, <2>2, <2>3, <2>7 DEF ProgTypes
  <2>9. Positions'
    <3>1. Belongs'
      BY <1>2, <2>1, <2>3, BelongsFrame DEF Positions, Same, Kept
    <3>. QED BY <1>2, <2>1, <2>2, <3>1, Programs DEF Positions, Stages
  <2>10. Ended'
    <3>1. \A u \in Task : Lives(u)' <=> Lives(u)
      BY <2>3 DEF Lives
    <3>. QED BY <1>2, <2>1, <2>2, <2>3, <3>1, EndedFrame
  <2>11. Naming'
    <3>1. \A u \in Callers : AnswerIs(u, answer'[u])
      BY <2>1, <2>6, <2>7, Programs DEF Naming
    <3>. QED BY <1>2, <2>1, <3>1 DEF Naming, AnswerIs
  <2>12. letters'[1] = letters[1] /\ pc'[Namer] = pc[Namer]
    BY <2>2, <2>3, <2>4, Programs
  <2>13. /\ \A u \in Callers : Question(u)' <=> Question(u)
         /\ \A u \in Callers : Served(u)' <=> Served(u)
    BY <1>2, <2>12 DEF Question, Served
  <2>14. InServer'
    <3>1. \A i \in 1..Len(letters[1]) : letters[1][i].from # nh[t]
      BY <2>6 DEF Question
    <3>2. \A u \in Callers : \A m : u # t /\ Calling(u) /\ Request(u, m) => (Calling(u) /\ Request(u, m))'
      BY <1>2, <2>2, Programs DEF Calling, Request, Number
    <3>3. (\A i \in 1..Len(letters[1]) : \E u \in Callers : Calling(u) /\ Request(u, letters[1][i]))'
      <4>1. ASSUME NEW i \in 1..Len(letters[1])
            PROVE  \E u \in Callers : u # t /\ Calling(u) /\ Request(u, letters[1][i])
        BY <2>5, <3>1 DEF InServer, Request
      <4>. QED BY <2>12, <3>2, <4>1 DEF Request
    <3>4. (pc[Namer] = "serve" => \E u \in Callers : Calling(u) /\ Request(u, request))'
      <4>1. pc[Namer] = "serve" => \E u \in Callers : u # t /\ Calling(u) /\ Request(u, request)
        BY <2>5, <2>6 DEF InServer, Served, Request
      <4>. QED BY <1>2, <2>12, <3>2, <4>1 DEF Request
    <3>. QED BY <2>5, <2>12, <3>3, <3>4 DEF InServer
  <2>15. InCall(t)'
    <3>1. Tail(q) = <<>>
      <4>1. PICK r \in Seq(Letter) : r = q /\ Len(r) = 1
        BY <2>3, <2>6
      <4>2. Tail(r) \in Seq(Letter) /\ Len(Tail(r)) = 0
        BY <4>1
      <4>3. \A e \in Seq(Letter) : Len(e) = 0 => e = <<>>
        OBVIOUS
      <4>. QED BY <4>1, <4>2, <4>3
    <3>2. ~Question(t)' /\ ~Served(t)' /\ letters'[nh'[t]] = <<>> /\ ~Calling(t)'
      BY <1>2, <2>2, <2>3, <2>6, <2>13, <3>1 DEF Calling
    <3>. QED BY <3>2 DEF InCall, NoPlace
  <2>16. ASSUME NEW u \in Callers, u # t PROVE InCall(u)'
    <3>1. nh' = nh /\ port' = port /\ pc'[u] = pc[u]
      BY <1>2, <2>2, <2>16, Programs
    <3>2. nh[u] # 0 => letters'[nh[u]] = letters[nh[u]]
      BY <2>3, <2>4, <2>16
    <3>. QED BY <2>1, <2>5, <2>13, <3>1, <3>2, InCallFrame DEF Positions
  <2>17. Calls'
    BY <2>14, <2>15, <2>16, CallsWhole
  <2>18. Typing' /\ Heard'
    <3>1. /\ pc'[Keyboard] \in {"sleep", "send"} <=> pc[Keyboard] \in {"sleep", "send"}
          /\ pc'[Keyboard] = "send" <=> pc[Keyboard] = "send"
      BY <2>2, Programs
    <3>2. \A u \in Callers : port[u] # 0 => letters'[port[u]] = letters[port[u]]
      BY <2>3, <2>4
    <3>. QED BY <1>2, <2>1, <3>1, <3>2, TypingFrame, HeardFrame, Programs
  <2>. QED BY <2>3, <2>8, <2>9, <2>10, <2>11, <2>17, <2>18 DEF ProgInv
<1>. QED BY <1>1, <1>2 DEF NamerAnswer

LEMMA DelHandleKeeps ==
  ASSUME PortInv, ProgInv, NEW t \in Callers, namer_delhandle(t)
  PROVE  ProgInv'
<1>. DEFINE h == nh[t]
<1>1. /\ ProgTypes /\ Sync /\ Positions /\ Ended /\ Naming /\ Calls /\ Typing /\ Heard
      /\ pc \in [Task -> Label] /\ letters \in [Id -> Seq(Letter)]
      /\ nh \in [Task -> 0..(RMax - 1)]
  BY InvParts
<1>2. /\ port_destroy(t, h) /\ t \in Task
      /\ nh' = [nh EXCEPT ![t] = 0]
      /\ letters' = [letters EXCEPT ![h] = <<>>]
      /\ UNCHANGED <<names, request, port, answer, send_port, shift, key, scans, got>>
  BY Programs DEF namer_delhandle
<1>3. /\ h \in Id /\ \A i \in Id \ {h} : Same(i)
      /\ queue' = [queue EXCEPT ![h] = <<>>] /\ slaved' = slaved /\ state' = state
  BY <1>1, <1>2, DestroyEffect
<1>4. /\ pc[t] = "delete" /\ pc' \in [Task -> Label] /\ \A u \in Task \ {t} : pc'[u] = pc[u]
      /\ \/ t \in Clients /\ pc'[t] = "open"
         \/ t = Keyboard /\ pc'[t] = "listen"
  <2>1. CASE t \in Clients /\ Goto(t, "delete", "open")
    BY <2>1, <1>1, <1>2, GoesOn DEF Label
  <2>2. CASE t = Keyboard /\ Goto(t, "delete", "listen")
    BY <2>2, <1>1, <1>2, GoesOn DEF Label
  <2>. QED BY <2>1, <2>2 DEF namer_delhandle
<1>5. /\ h # 0 /\ 1 \in Id \ {h}
      /\ \A u \in Callers : u # t /\ nh[u] # 0 => nh[u] \in Id \ {h}
      /\ \A u \in Callers : port[u] # 0 => port[u] \in Id \ {h}
  <2>1. h # 0 /\ h # 1
    BY <1>1, <1>3, Distinct, Programs
  <2>2. \A u \in Callers : u # t /\ nh[u] # 0 => nh[u] \in Id /\ nh[u] # h
    BY <1>1, <2>1, Distinct
  <2>3. \A u \in Callers : port[u] # 0 => port[u] \in Id /\ port[u] # h
    BY <1>1, <2>1, Distinct
  <2>. QED BY <2>1, <2>2, <2>3, Programs
<1>6. InServer /\ NoPlace(t) /\ \A u \in Callers : InCall(u)
  BY <1>1, <1>4, <1>5, CallsParts DEF InCall, Calling
<1>7. letters' = letters
  BY <1>1, <1>2, <1>6 DEF NoPlace
<1>8. /\ nh' \in [Task -> 0..(RMax - 1)] /\ nh'[t] = 0
      /\ \A u \in Task \ {t} : nh'[u] = nh[u]
  BY <1>1, <1>2, Programs
<1>9. Sync'
  <2>1. queue \in [Id -> Seq(SoundMessage)]
    BY InvShape
  <2>2. \A i \in Id : Len(letters'[i]) = Len(queue'[i])
    <3>1. letters'[h] = <<>> /\ queue'[h] = <<>>
      BY <1>1, <1>2, <1>3, <2>1
    <3>2. \A i \in Id \ {h} : letters'[i] = letters[i] /\ queue'[i] = queue[i]
      BY <1>3, <1>7, <2>1
    <3>. QED BY <1>1, <3>1, <3>2 DEF Sync
  <2>. QED BY <1>1, <1>3, <2>2 DEF Sync
<1>10. ProgTypes'
  BY <1>1, <1>2, <1>4, <1>7, <1>8 DEF ProgTypes
<1>11. Positions'
  <2>1. \A u, i, r : i # h /\ Owns(u, i, r) => Owns(u, i, r)'
    BY <1>3 DEF Same, Owns, IsPort, IsLive
  <2>2. Owns(Namer, 1, 0)'
    BY <1>1, <1>5, <2>1 DEF Positions, Belongs
  <2>3. ASSUME NEW u \in Callers, port'[u] # 0 PROVE Owns(u, port[u], 0)'
    <3>1. port' = port /\ Owns(u, port[u], 0) /\ port[u] # h
      BY <1>1, <1>2, <1>5, <2>3 DEF Positions, Belongs
    <3>. QED BY <2>1, <3>1 DEF Owns, IsPort, IsLive
  <2>4. ASSUME NEW u \in Callers, nh'[u] # 0 PROVE Owns(u, nh[u], 1)'
    <3>1. u # t /\ nh'[u] = nh[u]
      BY <1>8, <2>4, Programs
    <3>2. Owns(u, nh[u], 1) /\ nh[u] # h
      BY <1>1, <1>5, <2>4, <3>1 DEF Positions, Belongs
    <3>. QED BY <2>1, <3>1, <3>2 DEF Owns, IsPort, IsLive
  <2>5. Belongs'
    BY <2>2, <2>3, <2>4 DEF Belongs
  <2>. QED BY <1>1, <1>2, <1>4, <1>8, <2>5, Programs DEF Positions, Stages
<1>12. Ended'
  <2>1. Lives(t) /\ \A u \in Task : Lives(u)' <=> Lives(u)
    BY <1>2, <1>3 DEF Lives, port_destroy, Running
  <2>. QED BY <1>1, <1>2, <1>4, <2>1, EndedFrame
<1>13. pc'[Namer] = pc[Namer]
  BY <1>4, Programs
<1>14. InServer'
  <2>1. \A u \in Callers : \A m : Calling(u) /\ Request(u, m) => (Calling(u) /\ Request(u, m))'
    BY <1>2, <1>4, <1>8, Programs DEF Calling, Request, Number
  <2>2. (\A i \in 1..Len(letters[1]) : \E u \in Callers : Calling(u) /\ Request(u, letters[1][i]))'
    BY <1>6, <1>7, <2>1 DEF InServer, Request
  <2>3. (pc[Namer] = "serve" => \E u \in Callers : Calling(u) /\ Request(u, request))'
    BY <1>2, <1>6, <1>13, <2>1 DEF InServer, Request
  <2>. QED BY <1>6, <1>7, <2>2, <2>3 DEF InServer
<1>15. InCall(t)'
  BY <1>4, <1>8 DEF InCall, Calling
<1>16. ASSUME NEW u \in Callers, u # t PROVE InCall(u)'
  <2>1. nh'[u] = nh[u] /\ port' = port /\ pc'[u] = pc[u] /\ letters' = letters /\ request' = request
    BY <1>2, <1>4, <1>7, <1>8, <1>16, Programs
  <2>2. (Question(u)' <=> Question(u)) /\ (Served(u)' <=> Served(u))
    BY <1>13, <2>1 DEF Question, Served
  <2>. QED BY <1>1, <1>6, <2>1, <2>2, InCallFrame DEF Positions
<1>17. Calls'
  BY <1>14, <1>15, <1>16, CallsWhole
<1>18. Naming' /\ Typing' /\ Heard'
  <2>1. /\ pc'[Keyboard] \in {"sleep", "send"} <=> pc[Keyboard] \in {"sleep", "send"}
        /\ pc'[Keyboard] = "send" <=> pc[Keyboard] = "send"
    BY <1>4, Programs
  <2>. QED BY <1>1, <1>2, <1>7, <2>1, NamingFrame, TypingFrame, HeardFrame
<1>. QED BY <1>9, <1>10, <1>11, <1>12, <1>17, <1>18 DEF ProgInv

LEMMA NamerReceiveKeeps ==
  ASSUME PortInv, ProgInv, NamerReceive
  PROVE  ProgInv'
<1>1. CASE pc[Namer] = "receive" /\ Sleeps(Namer, 1)
  BY <1>1, SleepsKeeps, Programs
<1>2. CASE /\ Goto(Namer, "receive", "serve")
           /\ Received(Namer, 1)
           /\ request' = Head(letters[1])
           /\ UNCHANGED <<names, nh, port, answer, send_port, shift, key, scans, got>>
  <2>1. /\ ProgTypes /\ Sync /\ Positions /\ Ended /\ Naming /\ Calls /\ Typing /\ Heard
        /\ pc \in [Task -> Label]
    BY InvParts
  <2>2. /\ pc' \in [Task -> Label] /\ pc[Namer] = "receive" /\ pc'[Namer] = "serve"
        /\ \A u \in Task \ {Namer} : pc'[u] = pc[u]
    BY <1>2, <2>1, GoesOn, Programs DEF Label
  <2>3. /\ Sync' /\ letters' \in [Id -> Seq(Letter)]
        /\ letters[1] \in Seq(Letter) /\ letters[1] # <<>> /\ Head(letters[1]) \in Letter
        /\ letters'[1] = Tail(letters[1]) /\ \A i \in Id \ {1} : letters'[i] = letters[i]
        /\ Kept /\ Lives(Namer) /\ state' = state
    BY <1>2, <2>1, ReceivedLetter, Programs
  <2>4. PICK q \in Seq(Letter) : q = letters[1]
    BY <2>3
  <2>5. /\ q # <<>> /\ request' = q[1] /\ 1 \in 1..Len(q) /\ letters'[1] = Tail(q)
        /\ Len(Tail(q)) = Len(q) - 1 /\ Len(q) \in Nat
        /\ \A i \in 1..Len(Tail(q)) : Tail(q)[i] = q[i + 1] /\ i + 1 \in 1..Len(q)
    <3>1. q # <<>> /\ request' = Head(q) /\ letters'[1] = Tail(q)
      BY <1>2, <2>3, <2>4
    <3>. QED BY <3>1
  <2>6. InServer /\ \A u \in Callers : InCall(u)
    BY <2>1, CallsParts
  <2>7. PICK t \in Callers : Calling(t) /\ Request(t, q[1])
    BY <2>4, <2>5, <2>6 DEF InServer
  <2>8. /\ nh[t] # 0 /\ \A u \in Callers : u # t /\ nh[u] # 0 => nh[u] # nh[t]
        /\ \A u \in Callers : nh[u] # 0 => nh[u] \in Id \ {1}
        /\ \A u \in Callers : port[u] # 0 => port[u] \in Id \ {1}
    BY <2>1, <2>7, Distinct DEF Calling
  <2>9. \A i \in 1..Len(Tail(q)) : Tail(q)[i].from # q[1].from
    <3>1. \A i, j \in 1..Len(q) : q[i].from = q[j].from => i = j
      BY <2>4, <2>6 DEF InServer
    <3>. QED BY <2>5, <3>1
  <2>10. ProgTypes'
    BY <1>2, <2>1, <2>2, <2>3 DEF ProgTypes
  <2>11. Positions'
    <3>1. Belongs'
      BY <1>2, <2>1, <2>3, BelongsFrame DEF Positions, Same, Kept
    <3>. QED BY <1>2, <2>1, <2>2, <3>1, Programs DEF Positions, Stages
  <2>12. Ended'
    <3>1. \A u \in Task : Lives(u)' <=> Lives(u)
      BY <2>3 DEF Lives
    <3>. QED BY <1>2, <2>1, <2>2, <2>3, <3>1, EndedFrame, Programs
  <2>13. \A u \in Callers : pc'[u] = pc[u]
    BY <2>2, Programs
  <2>14. InServer'
    <3>1. \A u \in Callers : \A m : Calling(u) /\ Request(u, m) => (Calling(u) /\ Request(u, m))'
      BY <1>2, <2>13 DEF Calling, Request, Number
    <3>2. ASSUME NEW i \in 1..Len(letters'[1])
          PROVE  \E u \in Callers : Calling(u)' /\ letters'[1][i].from = nh'[u]
                   /\ letters'[1][i].text = "keyboard" /\ letters'[1][i].data = Number(u)'
      <4>1. letters'[1][i] = q[i + 1] /\ i + 1 \in 1..Len(q)
        BY <2>5, <3>2
      <4>2. \E u \in Callers : Calling(u) /\ Request(u, q[i + 1])
        BY <2>4, <2>6, <4>1 DEF InServer
      <4>. QED BY <3>1, <4>1, <4>2 DEF Request
    <3>3. \A i, j \in 1..Len(letters'[1]) : letters'[1][i].from = letters'[1][j].from => i = j
      <4>1. \A i, j \in 1..Len(q) : q[i].from = q[j].from => i = j
        BY <2>4, <2>6 DEF InServer
      <4>2. ASSUME NEW i \in 1..Len(Tail(q)), NEW j \in 1..Len(Tail(q)), Tail(q)[i].from = Tail(q)[j].from
            PROVE  i = j
        <5>1. i + 1 = j + 1
          BY <2>5, <4>1, <4>2
        <5>. QED BY <5>1
      <4>. QED BY <2>5, <4>2
    <3>4. \E u \in Callers : (Calling(u) /\ Request(u, request))'
      BY <2>5, <2>7, <3>1 DEF Request
    <3>. QED BY <3>2, <3>3, <3>4 DEF InServer, Request
  <2>15. InCall(t)'
    <3>1. ~Question(t)'
      BY <1>2, <2>5, <2>7, <2>9 DEF Question, Request
    <3>2. Served(t)' /\ Calling(t)'
      BY <1>2, <2>2, <2>5, <2>7, <2>13 DEF Served, Request, Calling
    <3>3. letters[nh[t]] = <<>>
      <4>1. Question(t)
        BY <2>4, <2>5, <2>7 DEF Question, Request
      <4>. QED BY <2>6, <2>7, <4>1 DEF InCall, OnePlace
    <3>4. letters'[nh'[t]] = <<>>
      BY <1>2, <2>3, <2>8, <3>3
    <3>. QED BY <3>1, <3>2, <3>4 DEF InCall, OnePlace
  <2>16. ASSUME NEW u \in Callers, u # t PROVE InCall(u)'
    <3>1. nh' = nh /\ port' = port /\ pc'[u] = pc[u]
      BY <1>2, <2>13
    <3>2. ASSUME nh[u] # 0
          PROVE  /\ letters'[nh[u]] = letters[nh[u]]
                 /\ (Question(u)' <=> Question(u)) /\ (Served(u)' <=> Served(u))
      <4>1. letters'[nh[u]] = letters[nh[u]] /\ q[1].from # nh[u]
        BY <2>3, <2>7, <2>8, <2>16, <3>2 DEF Request
      <4>2. ~Served(u) /\ ~Served(u)'
        BY <2>2, <2>5, <3>1, <4>1, Programs DEF Served
      <4>3. Question(u)' => Question(u)
        BY <2>4, <2>5, <3>1 DEF Question
      <4>4. ASSUME NEW i \in 1..Len(q), q[i].from = nh[u]
            PROVE  i - 1 \in 1..Len(Tail(q)) /\ Tail(q)[i - 1] = q[i]
        <5>1. i # 1
          BY <4>1, <4>4
        <5>2. i - 1 \in 1..Len(Tail(q)) /\ (i - 1) + 1 = i
          BY <2>5, <5>1
        <5>. QED BY <2>5, <5>2
      <4>5. Question(u) => Question(u)'
        <5>1. ASSUME Question(u) PROVE \E i \in 1..Len(letters'[1]) : letters'[1][i].from = nh'[u]
          <6>1. PICK i \in 1..Len(q) : q[i].from = nh[u]
            BY <2>4, <5>1 DEF Question
          <6>2. i - 1 \in 1..Len(Tail(q)) /\ Tail(q)[i - 1].from = nh[u]
            BY <4>4, <6>1
          <6>. QED BY <2>5, <3>1, <6>2
        <5>. QED BY <5>1 DEF Question
      <4>. QED BY <4>1, <4>2, <4>3, <4>5
    <3>. QED BY <2>1, <2>6, <3>1, <3>2, InCallFrame DEF Positions
  <2>17. Calls'
    BY <2>14, <2>15, <2>16, CallsWhole
  <2>18. Naming' /\ Typing' /\ Heard'
    <3>1. pc'[Keyboard] = pc[Keyboard]
      BY <2>13, Programs
    <3>2. \A u \in Callers : port[u] # 0 => letters'[port[u]] = letters[port[u]]
      BY <2>3, <2>8
    <3>. QED BY <1>2, <2>1, <3>1, <3>2, NamingFrame, TypingFrame, HeardFrame, Programs
  <2>. QED BY <2>3, <2>10, <2>11, <2>12, <2>17, <2>18 DEF ProgInv
<1>. QED BY <1>1, <1>2 DEF NamerReceive

\* A set of numbers that is not empty has a least one.
LEMMA LeastNumber ==
  ASSUME NEW T, T \subseteq Nat, T # {}
  PROVE  \E x \in T : \A y \in T : x =< y
<1>1. PICK x \in T : \A y \in T : <<y, x>> \notin OpToRel(<, Nat)
  BY NatLessThanWellFounded, WFMin
<1>2. ASSUME NEW y \in T PROVE ~(y < x)
  <2>1. y < x => <<y, x>> \in OpToRel(<, Nat)
    BY DEF OpToRel
  <2>. QED BY <1>1, <2>1, Zenon
<1>3. \A y \in T : x =< y
  BY <1>2
<1>. QED BY <1>3

\* What the name server does for a call.
LEMMA ServeEffect ==
  ASSUME ProgTypes, Stages, Naming, Serve,
         NEW t \in Callers, Calling(t), Request(t, request)
  PROVE  /\ names' \in Seq(Name)
         /\ \A i \in 1..Len(names') : names'[i].text = "keyboard" =>
              names'[i].port = port[Keyboard] /\ port[Keyboard] # 0
         /\ \E d \in Int : AnswerIs(t, d) /\ Reply(d)
<1>1. /\ names \in Seq(Name) /\ port \in [Task -> 0..(RMax - 1)]
      /\ request.text = "keyboard" /\ request.data = Number(t)
      /\ \A i \in 1..Len(names) : names[i].text = "keyboard" =>
           names[i].port = port[Keyboard] /\ port[Keyboard] # 0
      /\ Len(names) \in Nat /\ DOMAIN names = 1..Len(names)
  <2>1. names \in Seq(Name) /\ port \in [Task -> 0..(RMax - 1)]
    BY DEF ProgTypes
  <2>2. Len(names) \in Nat /\ DOMAIN names = 1..Len(names)
    BY <2>1
  <2>. QED BY <2>1, <2>2 DEF Naming, Request
<1>2. CASE /\ request.data # 0
           /\ port_register(request.data, request.text)
           /\ Reply(RegisterResult(request.data))
  <2>1. t = Keyboard /\ request.data = port[Keyboard] /\ port[Keyboard] # 0
    BY <1>1, <1>2, Programs DEF Number
  <2>2. RegisterResult(request.data) \in {0, -1, -3}
    BY DEF RegisterResult, Err
  <2>3. RegisterResult(request.data) \in Int /\ AnswerIs(t, RegisterResult(request.data))
    BY <2>2 DEF AnswerIs
  <2>4. CASE names' = names
    BY <1>1, <1>2, <2>3, <2>4
  <2>5. CASE names' = Append(names, [text |-> request.text, port |-> request.data])
    <3>1. PICK n \in Seq(Name), e \in Name :
            n = names /\ e = [text |-> request.text, port |-> request.data]
      <4>1. [text |-> request.text, port |-> request.data] \in Name
        BY <1>1, <2>1, Programs DEF Name
      <4>. QED BY <1>1, <4>1
    <3>2. /\ Append(n, e) \in Seq(Name) /\ Len(Append(n, e)) = Len(n) + 1
          /\ Append(n, e)[Len(n) + 1] = e /\ \A i \in 1..Len(n) : Append(n, e)[i] = n[i]
      OBVIOUS
    <3>3. e.port = port[Keyboard]
      BY <2>1, <3>1
    <3>4. \A i \in 1..(Len(n) + 1) : i \in 1..Len(n) \/ i = Len(n) + 1
      BY <1>1, <3>1
    <3>5. names' = Append(n, e)
      BY <2>5, <3>1
    <3>6. \A i \in 1..Len(names') : names'[i].text = "keyboard" =>
            names'[i].port = port[Keyboard] /\ port[Keyboard] # 0
      BY <1>1, <2>1, <3>1, <3>2, <3>3, <3>4, <3>5
    <3>. QED BY <1>2, <2>3, <3>2, <3>5, <3>6
  <2>. QED BY <1>2, <2>4, <2>5 DEF port_register
<1>3. CASE /\ request.data = 0
           /\ Reply(port_find(request.text))
           /\ UNCHANGED names
  <2>1. t \in Clients
    BY <1>1, <1>3, Programs DEF Number, Stages, Calling
  <2>2. port_find("keyboard") \in Int /\ (port_find("keyboard") = 0 \/ port_find("keyboard") = port[Keyboard])
    <3>. DEFINE found == {i \in DOMAIN names : names[i].text = "keyboard"}
    <3>1. CASE found = {}
      BY <3>1 DEF port_find
    <3>2. CASE found # {}
      <4>1. found \subseteq Nat
        BY <1>1
      <4>2. PICK m \in found : \A j \in found : m =< j
        BY <3>2, <4>1, LeastNumber
      <4>. DEFINE c == CHOOSE i \in found : \A j \in found : i =< j
      <4>3. c \in found
        BY <4>2
      <4>4. port_find("keyboard") = names[c].port
        BY <3>2 DEF port_find
      <4>5. names[c].port = port[Keyboard]
        BY <1>1, <4>3
      <4>. HIDE DEF c
      <4>. QED BY <1>1, <4>4, <4>5, Programs
    <3>. QED BY <3>1, <3>2
  <2>3. AnswerIs(t, port_find("keyboard"))
    BY <2>1, <2>2 DEF AnswerIs
  <2>. QED BY <1>1, <1>3, <2>2, <2>3
<1>. QED BY <1>2, <1>3 DEF Serve

LEMMA NamerReplyKeeps ==
  ASSUME PortInv, ProgInv, NamerReply
  PROVE  ProgInv'
<1>1. /\ ProgTypes /\ Sync /\ Positions /\ Ended /\ Naming /\ Calls /\ Typing /\ Heard
      /\ pc \in [Task -> Label] /\ letters \in [Id -> Seq(Letter)]
      /\ Stages /\ InServer /\ \A u \in Callers : InCall(u)
  BY InvParts, CallsParts DEF Positions
<1>2. /\ Goto(Namer, "serve", "receive") /\ Serve /\ request' = NoLetter
      /\ UNCHANGED <<nh, port, answer, send_port, shift, key, scans, got>>
  BY DEF NamerReply
<1>3. /\ pc' \in [Task -> Label] /\ pc[Namer] = "serve" /\ pc'[Namer] = "receive"
      /\ \A u \in Task \ {Namer} : pc'[u] = pc[u]
  BY <1>1, <1>2, GoesOn, Programs DEF Label
<1>4. PICK t \in Callers : Calling(t) /\ Request(t, request)
  BY <1>1, <1>3 DEF InServer
<1>5. /\ names' \in Seq(Name)
      /\ \A i \in 1..Len(names') : names'[i].text = "keyboard" =>
           names'[i].port = port[Keyboard] /\ port[Keyboard] # 0
      /\ \E d \in Int : AnswerIs(t, d) /\ Reply(d)
  BY <1>1, <1>2, <1>4, ServeEffect
<1>6. PICK d \in Int : AnswerIs(t, d) /\ Reply(d)
  BY <1>5
<1>7. PICK l \in Letter : l = [from |-> 1, text |-> "", data |-> d]
  BY Programs DEF Letter
<1>8. PICK h \in Id : h = nh[t]
  BY <1>1, <1>4, Distinct DEF Calling
<1>9. /\ rtype[h] = "PORT" /\ owner[h] = t /\ restrict[h] = 1 /\ h # 0 /\ 1 \in Id \ {h}
      /\ rtype[1] = "PORT" /\ owner[1] = Namer
      /\ \A u \in Callers : u # t /\ nh[u] # 0 => nh[u] \in Id \ {h}
      /\ \A u \in Callers : port[u] # 0 => port[u] \in Id \ {h}
  <2>1. h # 0 /\ h # 1
    BY <1>1, <1>8, Distinct, Programs
  <2>2. \A u \in Callers : u # t /\ nh[u] # 0 => nh[u] \in Id /\ nh[u] # h
    BY <1>1, <1>8, <2>1, Distinct
  <2>3. \A u \in Callers : port[u] # 0 => port[u] \in Id /\ port[u] # h
    BY <1>1, <1>8, <2>1, Distinct
  <2>. QED BY <1>1, <1>8, <2>1, <2>2, <2>3, Distinct, Programs
<1>10. Sent(Namer, h, l)
  <2>1. Send(Namer, h, 4, l)
    BY <1>4, <1>6, <1>7, <1>8 DEF Reply, Request
  <2>2. SendResult(Namer, 1, h, 4) = "OK" /\ l.from = 1
    BY <1>1, <1>7, <1>9, SendAccepted, Programs
  <2>. QED BY <1>1, <2>1, <2>2, SendEffect, Programs
<1>11. /\ Sync' /\ letters' \in [Id -> Seq(Letter)]
       /\ letters'[h] = Append(letters[h], l)
       /\ \A i \in Id \ {h} : letters'[i] = letters[i]
  BY <1>1, <1>10, SentLetter
<1>12. Kept /\ \A u \in Task : Lives(u)' <=> Lives(u)
  <2>1. Lives(Namer) /\ Lives(t)
    BY <1>1, <1>4, Programs DEF Ended, ServersLive, Calling
  <2>2. /\ \A u \in Task : u # Namer => (Lives(u)' <=> Lives(u))
        /\ Lives(Namer)' \/ state[t] = "FREED"
    BY <1>9, <1>10 DEF Sent
  <2>. QED BY <1>10, <2>1, <2>2 DEF Sent, Lives
<1>13. ProgTypes'
  <2>1. NoLetter \in Letter
    <3>1. PICK n \in 0..(RMax - 1) : n = 0
      BY Programs
    <3>2. n \in Int \cup KeyChar
      BY <3>1
    <3>3. [from |-> n, text |-> "", data |-> n] \in Letter
      BY <3>2 DEF Letter
    <3>. QED BY <3>1, <3>3 DEF NoLetter
  <2>. QED BY <1>1, <1>2, <1>3, <1>5, <1>11, <2>1 DEF ProgTypes
<1>14. Positions'
  <2>1. Belongs'
    BY <1>1, <1>2, <1>12, BelongsFrame DEF Positions, Same, Kept
  <2>. QED BY <1>1, <1>2, <1>3, <2>1, Programs DEF Positions, Stages
<1>15. Ended'
  <2>1. Lives(Namer)
    BY <1>1 DEF Ended, ServersLive
  <2>. QED BY <1>1, <1>2, <1>3, <1>12, <2>1, EndedFrame, Programs
<1>16. Naming'
  <2>1. \A u \in Callers : AnswerIs(u, answer[u])
    BY <1>1 DEF Naming
  <2>. QED BY <1>2, <1>5, <2>1 DEF Naming, AnswerIs
<1>17. letters'[1] = letters[1] /\ \A u \in Callers : pc'[u] = pc[u]
  BY <1>3, <1>9, <1>11, Programs
<1>18. InServer'
  <2>1. \A u \in Callers : \A m : Calling(u) /\ Request(u, m) => (Calling(u) /\ Request(u, m))'
    BY <1>2, <1>17 DEF Calling, Request, Number
  <2>2. (\A i \in 1..Len(letters[1]) : \E u \in Callers : Calling(u) /\ Request(u, letters[1][i]))'
    BY <1>1, <1>17, <2>1 DEF InServer, Request
  <2>. QED BY <1>1, <1>3, <1>17, <2>2 DEF InServer
<1>19. Served(t) /\ ~Question(t) /\ letters[h] = <<>>
  <2>1. Served(t)
    BY <1>3, <1>4 DEF Served, Request
  <2>. QED BY <1>1, <1>4, <1>8, <2>1 DEF InCall, OnePlace
<1>20. \A u \in Callers : (Question(u)' <=> Question(u)) /\ ~Served(u)'
  BY <1>2, <1>3, <1>17 DEF Question, Served
<1>21. InCall(t)'
  <2>1. letters'[h] = <<l>>
    BY <1>11, <1>19
  <2>2. letters'[nh'[t]] = <<l>> /\ Len(<<l>>) = 1 /\ \A i \in 1..Len(<<l>>) : <<l>>[i] = l
    BY <1>2, <1>8, <2>1
  <2>3. AnswerIs(t, l.data)'
    BY <1>2, <1>6, <1>7 DEF AnswerIs
  <2>4. (\A i \in 1..Len(letters[nh[t]]) : AnswerIs(t, letters[nh[t]][i].data))'
    BY <2>2, <2>3 DEF AnswerIs
  <2>. QED BY <1>4, <1>17, <1>19, <1>20, <2>2, <2>4 DEF InCall, OnePlace, Calling
<1>22. ASSUME NEW u \in Callers, u # t PROVE InCall(u)'
  <2>1. nh' = nh /\ port' = port /\ pc'[u] = pc[u]
    BY <1>2, <1>17
  <2>2. ASSUME nh[u] # 0
        PROVE  /\ letters'[nh[u]] = letters[nh[u]]
               /\ (Question(u)' <=> Question(u)) /\ (Served(u)' <=> Served(u))
    <3>1. letters'[nh[u]] = letters[nh[u]] /\ nh[u] # nh[t]
      BY <1>8, <1>9, <1>11, <1>22, <2>2
    <3>2. ~Served(u)
      BY <1>4, <3>1 DEF Served, Request
    <3>. QED BY <1>20, <3>1, <3>2
  <2>. QED BY <1>1, <2>1, <2>2, InCallFrame
<1>23. Calls'
  BY <1>18, <1>21, <1>22, CallsWhole
<1>24. Typing' /\ Heard'
  <2>1. pc'[Keyboard] = pc[Keyboard]
    BY <1>17, Programs
  <2>2. \A u \in Callers : port[u] # 0 => letters'[port[u]] = letters[port[u]]
    BY <1>9, <1>11
  <2>. QED BY <1>1, <1>2, <2>1, <2>2, TypingFrame, HeardFrame, Programs
<1>. QED BY <1>11, <1>13, <1>14, <1>15, <1>16, <1>23, <1>24 DEF ProgInv

-----------------------------------------------------------------------------
(* Every behaviour *)

LEMMA ProgInit ==
  ASSUME ServicesInit
  PROVE  ProgInv
<1>1. /\ Init
      /\ pc = [t \in Task |-> IF t = Namer THEN "receive" ELSE IF t \in Clients THEN "handle" ELSE "open"]
      /\ letters = [id \in Id |-> <<>>]
      /\ names = <<[text |-> "namer", port |-> 1]>>
      /\ request = NoLetter
      /\ nh = [t \in Task |-> 0] /\ port = [t \in Task |-> 0] /\ answer = [t \in Task |-> 0]
      /\ send_port = 0 /\ shift = FALSE
      /\ scans = <<>> /\ got = [t \in Task |-> <<>>]
  BY DEF ServicesInit
<1>2. /\ rtype[1] = "PORT" /\ owner[1] = 1 /\ \A id \in Id : slaved[id] = 0 /\ queue[id] = <<>>
      /\ restrict[1] = 0 /\ \A t \in Task : state[t] = "READY"
  <2>1. \A t \in Task : t =< NBoot
    BY ServicesAssumption DEF Task
  <2>. QED BY <1>1, <2>1, Programs DEF Init
<1>3. /\ pc[Namer] = "receive" /\ pc[Keyboard] = "open"
      /\ \A t \in Clients : pc[t] = "handle"
      /\ \A t \in Task : pc[t] \in {"receive", "handle", "open"}
      /\ \A t \in Task : nh[t] = 0 /\ port[t] = 0 /\ answer[t] = 0 /\ got[t] = <<>>
      /\ \A id \in Id : letters[id] = <<>>
  BY <1>1, Programs
<1>4. ProgTypes
  <2>1. request \in Letter
    <3>1. PICK n \in 0..(RMax - 1) : n = 0
      BY Programs
    <3>2. n \in Int \cup KeyChar
      BY <3>1
    <3>3. [from |-> n, text |-> "", data |-> n] \in Letter
      BY <3>2 DEF Letter
    <3>. QED BY <1>1, <3>1, <3>3 DEF NoLetter
  <2>2. names \in Seq(Name)
    <3>1. [text |-> "namer", port |-> 1] \in Name
      BY Programs DEF Name
    <3>. QED BY <1>1, <3>1
  <2>3. /\ nh \in [Task -> 0..(RMax - 1)] /\ port \in [Task -> 0..(RMax - 1)]
        /\ answer \in [Task -> Int] /\ send_port \in 0..(RMax - 1) /\ shift \in BOOLEAN
    <3>1. PICK n \in 0..(RMax - 1) : n = 0
      BY Programs
    <3>2. [t \in Task |-> n] \in [Task -> 0..(RMax - 1)]
      OBVIOUS
    <3>3. answer \in [Task -> Int]
      BY <1>1
    <3>. QED BY <1>1, <3>1, <3>2, <3>3
  <2>4. /\ scans \in Seq(ScanCodes) /\ got \in [Task -> Seq(KeyChar)]
        /\ letters \in [Id -> Seq(Letter)]
    BY <1>1
  <2>5. pc \in [Task -> Label]
    BY <1>1 DEF Label
  <2>. QED BY <2>1, <2>2, <2>3, <2>4, <2>5 DEF ProgTypes
<1>5. Sync
  BY <1>2, <1>3 DEF Sync
<1>6. Positions
  <2>1. Belongs
    BY <1>2, <1>3, Programs DEF Belongs, Owns, IsPort, IsLive
  <2>. QED BY <1>3, <2>1, Programs DEF Positions, Stages
<1>7. Ended
  BY <1>2, Programs DEF Ended, ServersLive, Lives
<1>8. Naming
  <2>1. Len(names) = 1 /\ names[1].text = "namer"
    BY <1>1
  <2>2. \A i \in 1..Len(names) : names[i].text # "keyboard"
    BY <2>1
  <2>3. \A t \in Callers : answer[t] = 0
    BY <1>3, Programs
  <2>4. \A t \in Callers : AnswerIs(t, answer[t])
    BY <2>3 DEF AnswerIs
  <2>. QED BY <2>2, <2>4 DEF Naming
<1>9. Calls
  BY <1>3, Programs DEF Calls, Calling
<1>10. Typed(scans) = <<>> /\ TypedAt(scans) = {}
  BY <1>1, TypedNothing DEF TypedAt
<1>11. Typing
  <2>1. shift = Shifted(scans, Len(scans) + 1)
    <3>1. Len(scans) = 0 /\ shift = FALSE
      BY <1>1
    <3>2. 1..((Len(scans) + 1) - 1) = {}
      BY <3>1
    <3>. QED BY <3>1, <3>2 DEF Shifted
  <2>2. Ranked(TypedAt(scans))
    <3>1. 1..Cardinality(TypedAt(scans)) = {}
      BY <1>10, FS_EmptySet
    <3>. QED BY <3>1 DEF Ranked
  <2>3. Typed(scans) \in Seq(KeyChar)
    BY <1>10
  <2>. QED BY <1>1, <1>3, <2>1, <2>2, <2>3, Programs DEF Typing
<1>12. Heard
  BY <1>3, Programs DEF Heard
<1>. QED BY <1>4, <1>5, <1>6, <1>7, <1>8, <1>9, <1>11, <1>12 DEF ProgInv

LEMMA ServicesInvInit == ServicesInit => PortInv /\ ProgInv
<1>. SUFFICES ASSUME ServicesInit PROVE PortInv /\ ProgInv
  OBVIOUS
<1>1. PortInv
  BY InvInit DEF ServicesInit
<1>. QED BY <1>1, ProgInit

LEMMA ServicesInvNext == PortInv /\ ProgInv /\ [ServicesNext]_serviceVars => PortInv' /\ ProgInv'
<1>. SUFFICES ASSUME PortInv, ProgInv, [ServicesNext]_serviceVars PROVE PortInv' /\ ProgInv'
  OBVIOUS
<1>1. CASE UNCHANGED serviceVars
  <2>1. UNCHANGED <<vars, progVars>>
    BY <1>1 DEF serviceVars
  <2>2. UNCHANGED <<rtype, owner, restrict, slaved, queue, state, pc, port, send_port>>
    BY <2>1 DEF vars, rsrcVars, portVars, linkVars, progVars
  <2>3. PortInv'
    BY <2>1, InvNext
  <2>4. Ended'
    BY <2>2 DEF ProgInv, Ended, ServersLive, Lives
  <2>. QED BY <2>1, <2>2, <2>3, <2>4, StillKeeps DEF Same
<1>2. CASE ServicesNext
  <2>1. PortInv'
    BY <1>2, PortStep, InvNext
  <2>2. ASSUME NEW t \in Task, Step(t) PROVE ProgInv'
    BY <2>2, NamerReceiveKeeps, NamerReplyKeeps, OpenPortKeeps, NewHandleKeeps, AskKeeps,
       AnswerKeeps, DelHandleKeeps, AttachKeeps, ReadKeyKeeps, ListenKeeps, KeyboardSendKeeps
       DEF Step
  <2>3. ASSUME NEW t \in Clients, Exit(t) PROVE ProgInv'
    BY <2>3, ExitKeeps
  <2>4. ASSUME NEW k \in ScanCodes, KeyboardScan(k) PROVE ProgInv'
    BY <2>4, ScanKeeps
  <2>5. ASSUME NEW t \in Task, PsCleanUpTask(t), UNCHANGED progVars PROVE ProgInv'
    BY <2>5, CleanUpKeeps
  <2>. QED BY <1>2, <2>1, <2>2, <2>3, <2>4, <2>5 DEF ServicesNext
<1>. QED BY <1>1, <1>2

LEMMA ServicesInvAlways == ServicesSpec => [](PortInv /\ ProgInv)
BY ServicesInvInit, ServicesInvNext, PTL DEF ServicesSpec

\* Where a call is, in numbers.
LEMMA CallsMean ==
  ASSUME ProgTypes, Positions, Naming, Calls
  PROVE  CallsSound
<1>1. letters[1] \in Seq(Letter) /\ DOMAIN letters[1] = 1..Len(letters[1])
  <2>1. letters[1] \in Seq(Letter)
    BY Programs DEF ProgTypes
  <2>. QED BY <2>1
<1>2. ASSUME NEW t \in Callers, nh[t] # 0
      PROVE  Cardinality(Asked(t)) + (IF Served(t) THEN 1 ELSE 0) + Len(letters[nh[t]])
               = IF Calling(t) THEN 1 ELSE 0
  <2>1. Cardinality(Asked(t)) = IF Question(t) THEN 1 ELSE 0
    <3>1. CASE Question(t)
      <4>1. PICK i \in 1..Len(letters[1]) : letters[1][i].from = nh[t]
        BY <3>1 DEF Question
      <4>2. Asked(t) = {i}
        BY <1>1, <4>1 DEF Asked, Calls
      <4>. QED BY <3>1, <4>2, FS_Singleton
    <3>2. CASE ~Question(t)
      <4>1. Asked(t) = {}
        BY <1>1, <3>2 DEF Asked, Question
      <4>. QED BY <3>2, <4>1, FS_EmptySet
    <3>. QED BY <3>1, <3>2
  <2>2. Len(<<>>) = 0
    OBVIOUS
  <2>3. (Calling(t) => OnePlace(t)) /\ (~Calling(t) => NoPlace(t))
    BY <1>2 DEF Calls
  <2>4. CASE Calling(t)
    <3>1. OnePlace(t)
      BY <2>3, <2>4
    <3>2. \/ Question(t) /\ ~Served(t) /\ Len(letters[nh[t]]) = 0
          \/ ~Question(t) /\ Served(t) /\ Len(letters[nh[t]]) = 0
          \/ ~Question(t) /\ ~Served(t) /\ Len(letters[nh[t]]) = 1
      BY <2>2, <3>1 DEF OnePlace
    <3>3. CASE Question(t)
      <4>1. Cardinality(Asked(t)) = 1 /\ ~Served(t) /\ Len(letters[nh[t]]) = 0
        BY <2>1, <3>2, <3>3
      <4>. QED BY <2>4, <4>1
    <3>4. CASE ~Question(t)
      <4>1. /\ Cardinality(Asked(t)) = 0
            /\ (Served(t) /\ Len(letters[nh[t]]) = 0) \/ (~Served(t) /\ Len(letters[nh[t]]) = 1)
        BY <2>1, <3>2, <3>4
      <4>2. CASE Served(t)
        <5>1. Len(letters[nh[t]]) = 0
          BY <4>1, <4>2
        <5>. QED BY <2>4, <4>1, <4>2, <5>1
      <4>3. CASE ~Served(t)
        <5>1. Len(letters[nh[t]]) = 1
          BY <4>1, <4>3
        <5>. QED BY <2>4, <4>1, <4>3, <5>1
      <4>. QED BY <4>2, <4>3
    <3>. QED BY <3>3, <3>4
  <2>5. CASE ~Calling(t)
    <3>1. NoPlace(t)
      BY <2>3, <2>5
    <3>. QED BY <2>1, <2>2, <2>5, <3>1 DEF NoPlace
  <2>. QED BY <2>4, <2>5
<1>3. ASSUME NEW t \in Callers, NEW data, AnswerIs(t, data)
      PROVE  AnswerRight(t, data)
  <2>1. data > 0 => t \in Clients /\ data = port[Keyboard]
    BY <1>3 DEF AnswerIs
  <2>2. data > 0 => port[Keyboard] # 0
    BY <1>3, <2>1 DEF AnswerIs
  <2>3. port[Keyboard] # 0 => IsPort(port[Keyboard]) /\ owner[port[Keyboard]] = Keyboard
    BY Programs DEF Positions, Belongs, Owns
  <2>. QED BY <2>1, <2>2, <2>3 DEF AnswerRight
<1>4. ASSUME NEW t \in Callers, nh[t] # 0, NEW i \in DOMAIN letters[nh[t]]
      PROVE  AnswerRight(t, letters[nh[t]][i].data)
  <2>1. letters[nh[t]] \in Seq(Letter)
    BY <1>4, Distinct DEF ProgTypes
  <2>2. i \in 1..Len(letters[nh[t]])
    BY <1>4, <2>1
  <2>. QED BY <1>3, <1>4, <2>2 DEF Calls
<1>5. \A t \in Callers : AnswerRight(t, answer[t])
  BY <1>3 DEF Naming
<1>6. \A i \in DOMAIN letters[1] : \E t \in Callers : nh[t] = letters[1][i].from
  BY <1>1 DEF Calls, Request
<1>. QED BY <1>2, <1>4, <1>5, <1>6 DEF CallsSound

\* A call of the name server is in one place from its question to its answer, and
\* the answer is to that question (namer.c:50-87, lib/namer.c:19-45).
THEOREM CallsAlwaysSound == ServicesSpec => []CallsSound
<1>1. ProgInv => CallsSound
  BY CallsMean DEF ProgInv
<1>. QED BY <1>1, ServicesInvAlways, PTL

\* The name server never ends, and the keyboard server only by a key for a program
\* that has ended (port.c:183).
THEOREM ServersAlwaysLive == ServicesSpec => []ServersLive
<1>1. ProgInv => ServersLive
  BY DEF ProgInv, Ended
<1>. QED BY <1>1, ServicesInvAlways, PTL

\* The program that the keyboard serves gets what is typed, once and in order, and
\* nobody else gets any (keyboard.c:52-99, lib/keyboard.c:37-41, port.c:209-248).
THEOREM KeysAlwaysInOrder == ServicesSpec => []KeysInOrder
<1>1. ProgInv => KeysInOrder
  BY HeardMeans DEF ProgInv
<1>. QED BY <1>1, ServicesInvAlways, PTL
=============================================================================
