--------------------------- MODULE FsDaemonProofs ---------------------------
(***************************************************************************)
(* For any number of processes that run the daemon, any number of clients  *)
(* and any changes of the file: who is reached by the path, what a client  *)
(* is told, and why a daemon ends.                                         *)
(***************************************************************************)
EXTENDS FsDaemon, SequenceTheorems, TLAPS

(* The labels of a daemon, and of those the ones after bind.               *)
Serving == {"announce", "loop", "fdset", "select", "accept", "stat", "send", "closing"}
Labels  == {"off", "bind", "bind_anyway", "listen", "unlink", "hung"} \cup Serving
States  == {"idle", "queued", "refused", "answered", "reset", "gone"}

Types ==
  /\ pc \in [Daemons -> Labels]
  /\ running \in [Daemons -> BOOLEAN]
  /\ serving \in [Daemons -> Clients \cup {NoOne}]
  /\ size \in [Daemons -> Sizes \cup {Missing}]
  /\ path \in Daemons \cup {NoOne}
  /\ queue \in [Daemons -> Seq(Clients)]
  /\ client \in [Clients -> States]
  /\ file \in Sizes \cup {Missing}
  /\ starts \in [Daemons -> Nat]
  /\ since \in [Clients -> SUBSET (Sizes \cup {Missing})]
  /\ overlap \in BOOLEAN
  /\ reason \in SUBSET Daemons

(* A daemon goes to accept only for a connection that is there.            *)
AcceptReady == \A d \in Daemons : pc[d] = "accept" => queue[d] # <<>>

Shape == Types /\ AcceptReady

(* Without an overlap one daemon at most has begun and not ended; the path *)
(* is free while it binds, and its own from then on.                       *)
Alone ==
  ~overlap => \A d, e \in Daemons : pc[d] # "off" /\ pc[e] # "off" => d = e
PathOwned ==
  ~overlap => \A d \in Daemons : /\ pc[d] = "bind" => path = NoOne
                                 /\ pc[d] \in Serving \cup {"listen"} => path = d

(* The flag is only clear, and the way out only taken, for a reason.       *)
WayOut ==
  \A d \in Daemons : /\ pc[d] # "off" /\ ~running[d] => d \in reason
                     /\ pc[d] \in {"closing", "unlink"} => d \in reason

PathInv == Shape /\ Alone /\ PathOwned /\ WayOut

(* A daemon only holds clients that have connected.                        *)
QueuesKnown ==
  \A d \in Daemons : \A j \in 1 .. Len(queue[d]) : client[queue[d][j]] # "idle"
ServesKnown ==
  \A d \in Daemons : pc[d] \in {"stat", "send"} =>
                     serving[d] \in Clients /\ client[serving[d]] # "idle"

(* The file as it is now is one that every waiting client has seen.        *)
SinceCurrent == \A c \in Clients : client[c] = "queued" => file \in since[c]

RecentInv == Shape /\ QueuesKnown /\ ServesKnown /\ SinceCurrent /\ AnswerIsRecent

-----------------------------------------------------------------------------
LEMMA InitShape == Init => Shape
<1> SUFFICES ASSUME Init PROVE Shape
  OBVIOUS
<1>1. /\ pc \in [Daemons -> Labels] /\ client \in [Clients -> States]
      /\ \A d \in Daemons : pc[d] # "accept"
  BY DEF Init, Labels, States
<1>2. queue \in [Daemons -> Seq(Clients)]
  BY EmptySeq DEF Init
<1>3. /\ running \in [Daemons -> BOOLEAN] /\ overlap \in BOOLEAN
      /\ reason \in SUBSET Daemons /\ since \in [Clients -> SUBSET (Sizes \cup {Missing})]
  BY DEF Init
<1>4. /\ serving \in [Daemons -> Clients \cup {NoOne}] /\ starts \in [Daemons -> Nat]
      /\ size \in [Daemons -> Sizes \cup {Missing}]
      /\ path \in Daemons \cup {NoOne} /\ file \in Sizes \cup {Missing}
  BY DEF Init
<1> QED BY <1>1, <1>2, <1>3, <1>4 DEF Shape, Types, AcceptReady

(* What the end of a wait does to the clients.                             *)
LEMMA EndWaitTypes ==
  ASSUME Types, NEW S, NEW state \in States, EndWait(S, state)
  PROVE  /\ client' \in [Clients -> States]
         /\ since' \in [Clients -> SUBSET (Sizes \cup {Missing})]
BY DEF Types, EndWait

LEMMA AnswersTypes ==
  ASSUME Types, NEW d \in Daemons, NEW state \in States, AnswersWith(d, state)
  PROVE  Types'
<1>1. /\ client' \in [Clients -> States]
      /\ since' \in [Clients -> SUBSET (Sizes \cup {Missing})]
  BY EndWaitTypes DEF AnswersWith
<1>2. /\ pc' = [pc EXCEPT ![d] = "loop"]
      /\ serving' = [serving EXCEPT ![d] = NoOne] /\ size' = [size EXCEPT ![d] = Missing]
      /\ UNCHANGED <<running, path, queue, file, starts, overlap, reason>>
  BY DEF AnswersWith, AfterSend, Goto
<1> QED BY <1>1, <1>2 DEF Types, Labels, Serving

(* A start only moves the label and the path, and forgets the reasons.     *)
LEMMA StartIs ==
  ASSUME NEW d \in Daemons, Start(d)
  PROVE  \E label \in {"bind", "bind_anyway"} :
           /\ pc[d] = "off" /\ pc' = [pc EXCEPT ![d] = label]
           /\ path' \in {path, NoOne} /\ (label = "bind" => path' = NoOne)
           /\ starts' = [starts EXCEPT ![d] = @ + 1]
           /\ running' = [running EXCEPT ![d] = TRUE]
           /\ overlap' = (overlap \/ \E e \in Daemons \ {d} : pc[e] # "off")
           /\ reason' = reason \ {d}
           /\ UNCHANGED <<serving, size, queue, clients, file>>
<1>1. CASE RemoveOld /\ Goto(d, "bind")
  BY <1>1 DEF Start, RemoveOld, Goto
<1>2. CASE UNCHANGED path /\ Goto(d, "bind_anyway")
  BY <1>2 DEF Start, Goto
<1> QED BY <1>1, <1>2 DEF Start

LEMMA NextTypes == Shape /\ [Next]_vars => Types'
<1> SUFFICES ASSUME Types, AcceptReady, [Next]_vars PROVE Types'
  BY DEF Shape
<1>1. ASSUME NEW d \in Daemons, Start(d) PROVE Types'
  <2>1. PICK label \in {"bind", "bind_anyway"} :
          /\ pc' = [pc EXCEPT ![d] = label] /\ path' \in {path, NoOne}
          /\ starts' = [starts EXCEPT ![d] = @ + 1]
          /\ running' = [running EXCEPT ![d] = TRUE]
          /\ overlap' = (overlap \/ \E e \in Daemons \ {d} : pc[e] # "off")
          /\ reason' = reason \ {d}
          /\ UNCHANGED <<serving, size, queue, client, since, file>>
    BY <1>1, StartIs DEF clients
  <2>2. pc' \in [Daemons -> Labels] /\ running' \in [Daemons -> BOOLEAN]
    BY <2>1 DEF Types, Labels
  <2>3. starts' \in [Daemons -> Nat] /\ path' \in Daemons \cup {NoOne} /\ overlap' \in BOOLEAN
    BY <2>1 DEF Types
  <2>4. reason' \in SUBSET Daemons
    BY <2>1 DEF Types
  <2> QED BY <2>1, <2>2, <2>3, <2>4 DEF Types
<1>2. ASSUME NEW d \in Daemons, DaemonStep(d) PROVE Types'
  <2>1. CASE Bind(d)
    BY <2>1 DEF Types, Bind, MakePath, Goto, clients, Labels
  <2>2. CASE Listen(d)
    BY <2>2 DEF Types, Listen, Goto, clients, Labels, Serving
  <2>3. CASE LoopTest(d)
    BY <2>3 DEF Types, LoopTest, Goto, clients, Labels, Serving
  <2>4. CASE Select(d)
    BY <2>4 DEF Types, Select, Goto, clients, Labels, Serving
  <2>5. CASE Accept(d)
    <3>1. queue[d] \in Seq(Clients) /\ queue[d] # <<>>
      BY <2>5 DEF Accept, AcceptReady, Types
    <3>2. Head(queue[d]) \in Clients /\ Tail(queue[d]) \in Seq(Clients)
      BY <3>1, HeadTailProperties
    <3> QED BY <2>5, <3>2 DEF Types, Accept, Goto, clients, Labels, Serving
  <2>6. CASE Stat(d)
    BY <2>6 DEF Types, Stat, get_file_size, Goto, clients, Labels, Serving
  <2>7. CASE SendAnswer(d)
    BY <2>7, AnswersTypes DEF SendAnswer, States
  <2>8. CASE CloseSocket(d)
    BY <2>8, EndWaitTypes DEF Types, CloseSocket, Goto, Labels, States
  <2>9. CASE Unlink(d)
    BY <2>9 DEF Types, Unlink, Goto, clients, Labels
  <2> QED
    BY <1>2, <2>1, <2>2, <2>3, <2>4, <2>5, <2>6, <2>7, <2>8, <2>9 DEF DaemonStep
<1>3. ASSUME NEW d \in Daemons, AcceptFails(d) PROVE Types'
  BY <1>3 DEF Types, AcceptFails, Goto, clients, Labels, Serving
<1>a. ASSUME NEW d \in Daemons, SetupFails(d) \/ SelectFails(d) PROVE Types'
  BY <1>a DEF Types, SetupFails, SelectFails, Goto, clients, Labels, Serving
<1>b. ASSUME NEW d \in Daemons, PrivilegesFail(d) PROVE Types'
  BY <1>b, EndWaitTypes DEF Types, PrivilegesFail, Goto, Labels, States
<1>c. ASSUME NEW d \in Daemons, SendFails(d) PROVE Types'
  BY <1>c, AnswersTypes DEF SendFails, States
<1>4. ASSUME NEW d \in Daemons, Signal(d) PROVE Types'
  BY <1>4 DEF Types, Signal, Goto, clients, Labels, Serving
<1>5. ASSUME NEW d \in Daemons, Kill(d) PROVE Types'
  BY <1>5, EndWaitTypes DEF Types, Kill, Goto, Labels, States
<1>6. ASSUME NEW c \in Clients, Connect(c) PROVE Types'
  <2>1. CASE path # NoOne /\ Listening(path)
    <3>1. path \in Daemons /\ queue[path] \in Seq(Clients)
      BY <2>1 DEF Types
    <3>2. Append(queue[path], c) \in Seq(Clients)
      BY <3>1, AppendProperties
    <3>3. queue' \in [Daemons -> Seq(Clients)]
      BY <1>6, <2>1, <3>1, <3>2 DEF Types, Connect
    <3>4. client' \in [Clients -> States]
      BY <1>6, <2>1 DEF Types, Connect, States
    <3>5. since' \in [Clients -> SUBSET (Sizes \cup {Missing})]
      <4>1. since' = [since EXCEPT ![c] = {file}]
        BY <1>6, <2>1 DEF Connect
      <4>2. {file} \in SUBSET (Sizes \cup {Missing})
        BY DEF Types
      <4> QED BY <4>1, <4>2 DEF Types
    <3> QED BY <1>6, <3>3, <3>4, <3>5 DEF Types, Connect
  <2>2. CASE ~(path # NoOne /\ Listening(path))
    BY <1>6, <2>2 DEF Types, Connect, States
  <2> QED BY <2>1, <2>2
<1>7. ASSUME NEW c \in Clients, Leave(c) PROVE Types'
  BY <1>7, EndWaitTypes DEF Types, Leave, States
<1>8. CASE FileChanges
  BY <1>8 DEF Types, FileChanges
<1>9. CASE UNCHANGED vars
  BY <1>9 DEF Types, vars
<1> QED
  BY <1>1, <1>2, <1>3, <1>4, <1>5, <1>6, <1>7, <1>8, <1>9, <1>a, <1>b, <1>c DEF Next

(* Only a daemon itself, or a kill, takes connections off its queue.       *)
LEMMA NextAcceptReady == Shape /\ [Next]_vars => AcceptReady'
<1> SUFFICES ASSUME Types, AcceptReady, [Next]_vars, NEW e \in Daemons, pc'[e] = "accept"
             PROVE  queue'[e] # <<>>
  BY DEF Shape, AcceptReady
<1>1. ASSUME NEW d \in Daemons, Start(d) PROVE queue'[e] # <<>>
  BY <1>1, StartIs DEF Types, AcceptReady
<1>2. ASSUME NEW d \in Daemons, DaemonStep(d) PROVE queue'[e] # <<>>
  <2>1. CASE Bind(d)
    BY <2>1 DEF Types, AcceptReady, Bind, Goto
  <2>2. CASE Listen(d)
    BY <2>2 DEF Types, AcceptReady, Listen, Goto
  <2>3. CASE LoopTest(d)
    BY <2>3 DEF Types, AcceptReady, LoopTest, Goto
  <2>4. CASE Select(d)
    BY <2>4 DEF Types, AcceptReady, Select, Goto
  <2>5. CASE Accept(d)
    BY <2>5 DEF Types, AcceptReady, Accept, Goto
  <2>6. CASE Stat(d)
    BY <2>6 DEF Types, AcceptReady, Stat, Goto
  <2>7. CASE SendAnswer(d)
    BY <2>7 DEF Types, AcceptReady, SendAnswer, AnswersWith, AfterSend, Goto
  <2>8. CASE CloseSocket(d)
    BY <2>8 DEF Types, AcceptReady, CloseSocket, Goto
  <2>9. CASE Unlink(d)
    BY <2>9 DEF Types, AcceptReady, Unlink, Goto
  <2> QED
    BY <1>2, <2>1, <2>2, <2>3, <2>4, <2>5, <2>6, <2>7, <2>8, <2>9 DEF DaemonStep
<1>3. ASSUME NEW d \in Daemons, AcceptFails(d) PROVE queue'[e] # <<>>
  BY <1>3 DEF Types, AcceptReady, AcceptFails, Goto
<1>a. ASSUME NEW d \in Daemons, SetupFails(d) \/ SelectFails(d) PROVE queue'[e] # <<>>
  BY <1>a DEF Types, AcceptReady, SetupFails, SelectFails, Goto
<1>b. ASSUME NEW d \in Daemons, PrivilegesFail(d) PROVE queue'[e] # <<>>
  BY <1>b DEF Types, AcceptReady, PrivilegesFail, Goto
<1>c. ASSUME NEW d \in Daemons, SendFails(d) PROVE queue'[e] # <<>>
  BY <1>c DEF Types, AcceptReady, SendFails, AnswersWith, AfterSend, Goto
<1>4. ASSUME NEW d \in Daemons, Signal(d) PROVE queue'[e] # <<>>
  BY <1>4 DEF Types, AcceptReady, Signal, Goto
<1>5. ASSUME NEW d \in Daemons, Kill(d) PROVE queue'[e] # <<>>
  BY <1>5 DEF Types, AcceptReady, Kill, Goto
<1>6. ASSUME NEW c \in Clients, Connect(c) PROVE queue'[e] # <<>>
  <2>1. queue[e] # <<>> /\ queue \in [Daemons -> Seq(Clients)]
    BY <1>6 DEF Types, AcceptReady, Connect
  <2>2. CASE queue' = [queue EXCEPT ![path] = Append(@, c)]
    BY <2>1, <2>2, AppendProperties
  <2> QED BY <1>6, <2>1, <2>2 DEF Connect
<1>7. ASSUME NEW c \in Clients, Leave(c) PROVE queue'[e] # <<>>
  BY <1>7 DEF AcceptReady, Leave
<1>8. CASE FileChanges
  BY <1>8 DEF AcceptReady, FileChanges
<1>9. CASE UNCHANGED vars
  BY <1>9 DEF AcceptReady, vars
<1> QED
  BY <1>1, <1>2, <1>3, <1>4, <1>5, <1>6, <1>7, <1>8, <1>9, <1>a, <1>b, <1>c DEF Next

LEMMA NextShape == Shape /\ [Next]_vars => Shape'
BY NextTypes, NextAcceptReady DEF Shape
-----------------------------------------------------------------------------
LEMMA InitPath == Init => PathInv
BY InitShape DEF Init, PathInv, Alone, PathOwned, WayOut, Serving

(* A step that moves only the label of d, and no label into bind or out of *)
(* off, keeps the path where it belongs.                                   *)
LEMMA MovesOn ==
  ASSUME PathInv, NEW d \in Daemons, NEW label \in Labels, Goto(d, label),
         pc[d] # "off", label # "bind",
         label \in Serving \cup {"listen"} => pc[d] \in Serving \cup {"listen"},
         reason' = reason \/ reason' = reason \cup {d},
         label \in {"closing", "unlink"} => d \in reason',
         UNCHANGED <<running, path, overlap>>
  PROVE  Alone' /\ PathOwned' /\ WayOut'
<1> USE DEF PathInv, Shape, Types, Goto
<1>1. Alone'
  BY DEF Alone
<1>2. PathOwned'
  BY DEF PathOwned
<1>3. WayOut'
  BY DEF WayOut
<1> QED BY <1>1, <1>2, <1>3

LEMMA NextPath == PathInv /\ [Next]_vars => PathInv'
<1> SUFFICES ASSUME PathInv, [Next]_vars PROVE Alone' /\ PathOwned' /\ WayOut'
  BY NextShape DEF PathInv
<1> USE DEF Goto, Labels, Serving
<1>1. ASSUME NEW d \in Daemons, Start(d) PROVE Alone' /\ PathOwned' /\ WayOut'
  <2>1. PICK label \in {"bind", "bind_anyway"} :
          /\ pc[d] = "off" /\ pc' = [pc EXCEPT ![d] = label]
          /\ path' \in {path, NoOne} /\ (label = "bind" => path' = NoOne)
          /\ running' = [running EXCEPT ![d] = TRUE]
          /\ overlap' = (overlap \/ \E e \in Daemons \ {d} : pc[e] # "off")
          /\ reason' = reason \ {d}
    BY <1>1, StartIs
  <2>2. /\ pc \in [Daemons -> Labels] /\ running \in [Daemons -> BOOLEAN]
        /\ overlap \in BOOLEAN /\ WayOut
    BY DEF PathInv, Shape, Types
  <2>3. /\ ~overlap' => \A e \in Daemons \ {d} : pc'[e] = "off"
        /\ pc'[d] = label
    BY <2>1, <2>2
  <2>4. Alone'
    BY <2>3 DEF Alone
  <2>5. PathOwned'
    <3> SUFFICES ASSUME ~overlap', NEW e \in Daemons
                 PROVE  /\ pc'[e] = "bind" => path' = NoOne
                        /\ pc'[e] \in Serving \cup {"listen"} => path' = e
      BY DEF PathOwned
    <3>1. CASE e = d
      <4>1. pc'[e] = label /\ label \notin Serving \cup {"listen"}
        BY <2>3, <3>1
      <4> QED BY <2>1, <4>1
    <3>2. CASE e # d
      <4>1. pc'[e] = "off"
        BY <2>3, <3>2
      <4> QED BY <4>1
    <3> QED BY <3>1, <3>2
  <2>6. WayOut'
    BY <2>1, <2>2 DEF WayOut
  <2> QED BY <2>4, <2>5, <2>6
<1>2. ASSUME NEW d \in Daemons, DaemonStep(d) PROVE Alone' /\ PathOwned' /\ WayOut'
  <2>1. CASE Bind(d)
    <3>a. /\ pc \in [Daemons -> Labels] /\ pc[d] # "off" /\ overlap' = overlap
          /\ pc' = [pc EXCEPT ![d] = "listen"] \/ pc' = [pc EXCEPT ![d] = "off"]
      BY <2>1 DEF PathInv, Shape, Types, Bind
    <3>b. \A e \in Daemons : pc'[e] # "off" => pc[e] # "off"
      BY <3>a
    <3>1. Alone'
      BY <3>a, <3>b DEF PathInv, Alone
    <3>2. PathOwned'
      <4>1. ASSUME ~overlap' PROVE \A e \in Daemons \ {d} : pc'[e] = "off"
        BY <3>a, <4>1 DEF PathInv, Alone
      <4>2. CASE MakePath(d) /\ Goto(d, "listen")
        <5>1. pc'[d] = "listen" /\ path' = d
          BY <3>a, <4>2 DEF MakePath
        <5> QED BY <4>1, <5>1 DEF PathOwned
      <4>3. CASE Goto(d, "off")
        <5>1. pc'[d] = "off"
          BY <3>a, <4>3
        <5> QED BY <4>1, <5>1 DEF PathOwned
      <4> QED BY <2>1, <4>2, <4>3 DEF Bind
    <3>3. WayOut'
      BY <2>1, <3>a DEF PathInv, WayOut, Bind
    <3> QED BY <3>1, <3>2, <3>3
  <2>2. CASE Listen(d)
    BY <2>2, MovesOn DEF Listen
  <2>3. CASE LoopTest(d)
    <3>1. ~running[d] => d \in reason
      BY <2>3 DEF LoopTest, PathInv, WayOut
    <3> QED BY <2>3, <3>1, MovesOn DEF LoopTest
  <2>4. CASE Select(d)
    BY <2>4, MovesOn DEF Select
  <2>5. CASE Accept(d)
    BY <2>5, MovesOn DEF Accept
  <2>6. CASE Stat(d)
    BY <2>6, MovesOn DEF Stat
  <2>7. CASE SendAnswer(d)
    BY <2>7, MovesOn DEF SendAnswer, AnswersWith, AfterSend
  <2>8. CASE CloseSocket(d)
    <3>1. d \in reason
      BY <2>8 DEF CloseSocket, PathInv, WayOut
    <3> QED BY <2>8, <3>1, MovesOn DEF CloseSocket
  <2>9. CASE Unlink(d)
    <3> USE <2>9 DEF PathInv, Shape, Types, Unlink
    <3>1. Alone'
      BY DEF Alone
    <3>2. PathOwned'
      BY DEF Alone, PathOwned
    <3>3. WayOut'
      BY DEF WayOut
    <3> QED BY <3>1, <3>2, <3>3
  <2> QED
    BY <1>2, <2>1, <2>2, <2>3, <2>4, <2>5, <2>6, <2>7, <2>8, <2>9 DEF DaemonStep
<1>3. ASSUME NEW d \in Daemons, AcceptFails(d) PROVE Alone' /\ PathOwned' /\ WayOut'
  BY <1>3, MovesOn DEF AcceptFails
<1>a. ASSUME NEW d \in Daemons, SetupFails(d) \/ PrivilegesFail(d) \/ SelectFails(d)
      PROVE  Alone' /\ PathOwned' /\ WayOut'
  <2>1. CASE SetupFails(d)
    BY <2>1, MovesOn DEF SetupFails
  <2>2. CASE PrivilegesFail(d)
    BY <2>2, MovesOn DEF PrivilegesFail
  <2>3. CASE SelectFails(d)
    BY <2>3, MovesOn DEF SelectFails
  <2> QED BY <1>a, <2>1, <2>2, <2>3
<1>b. ASSUME NEW d \in Daemons, SendFails(d) PROVE Alone' /\ PathOwned' /\ WayOut'
  BY <1>b, MovesOn DEF SendFails, AnswersWith, AfterSend
<1>4. ASSUME NEW d \in Daemons, Signal(d) PROVE Alone' /\ PathOwned' /\ WayOut'
  <2>1. /\ pc[d] # "off" /\ running' = [running EXCEPT ![d] = FALSE]
        /\ reason' = reason \cup {d}
        /\ UNCHANGED <<path, overlap>>
    BY <1>4 DEF Signal, Alive
  <2>2. PICK label \in {pc[d], "loop", "hung"} :
          /\ pc' = [pc EXCEPT ![d] = label]
          /\ label = "loop" => pc[d] \in {"loop", "select"}
    BY <1>4 DEF Signal
  <2>3. /\ pc \in [Daemons -> Labels] /\ running \in [Daemons -> BOOLEAN]
        /\ Alone /\ PathOwned /\ WayOut
    BY DEF PathInv, Shape, Types
  <2>4. Alone'
    BY <2>1, <2>2, <2>3 DEF Alone
  <2>5. PathOwned'
    BY <2>1, <2>2, <2>3 DEF PathOwned
  <2>6. WayOut'
    BY <2>1, <2>2, <2>3 DEF WayOut
  <2> QED BY <2>4, <2>5, <2>6
<1>5. ASSUME NEW d \in Daemons, Kill(d) PROVE Alone' /\ PathOwned' /\ WayOut'
  <2>1. /\ pc' = [pc EXCEPT ![d] = "off"] /\ reason' = reason \cup {d}
        /\ UNCHANGED <<running, path, overlap>>
    BY <1>5 DEF Kill
  <2>2. /\ pc \in [Daemons -> Labels] /\ Alone /\ PathOwned /\ WayOut
    BY DEF PathInv, Shape, Types
  <2>3. Alone'
    BY <2>1, <2>2 DEF Alone
  <2>4. PathOwned'
    BY <2>1, <2>2 DEF PathOwned
  <2>5. WayOut'
    BY <2>1, <2>2 DEF WayOut
  <2> QED BY <2>3, <2>4, <2>5
<1>6. CASE UNCHANGED <<pc, running, path, overlap, reason>>
  BY <1>6 DEF PathInv, Alone, PathOwned, WayOut
<1>7. ASSUME NEW c \in Clients, Connect(c) \/ Leave(c)
      PROVE  UNCHANGED <<pc, running, path, overlap, reason>>
  BY <1>7 DEF Connect, Leave
<1>8. CASE FileChanges \/ UNCHANGED vars
  BY <1>6, <1>8 DEF FileChanges, vars
<1> QED BY <1>1, <1>2, <1>3, <1>4, <1>5, <1>6, <1>7, <1>8, <1>a, <1>b DEF Next

(* While no two daemons are alive at once, the path names the socket of    *)
(* the daemon that serves: whatever the daemons before it left behind.     *)
THEOREM ReachedByPathHolds == DaemonSpec => []ReachedByPath
<1>1. PathInv => ReachedByPath
  BY DEF PathInv, PathOwned, ReachedByPath, Listening, Serving
<1> QED BY <1>1, InitPath, NextPath, PTL DEF DaemonSpec

(* Where a daemon leaves for off.                                          *)
LEMMA StopStep ==
  ASSUME PathInv, [Next]_vars, NEW d \in Daemons, pc[d] # "off", pc'[d] = "off"
  PROVE  d \in reason' \/ pc[d] = "bind_anyway" \/ (pc[d] = "bind" /\ overlap)
<1> USE DEF Goto, PathInv, Shape, Types
<1>1. ASSUME NEW e \in Daemons, Start(e) PROVE FALSE
  BY <1>1 DEF Start
<1>2. ASSUME NEW e \in Daemons, DaemonStep(e)
      PROVE  d \in reason' \/ pc[d] = "bind_anyway" \/ (pc[d] = "bind" /\ overlap)
  <2>1. CASE Bind(e)
    BY <2>1 DEF Bind, PathOwned
  <2>2. CASE Listen(e) \/ LoopTest(e)
    BY <2>2 DEF Listen, LoopTest
  <2>3. CASE Select(e) \/ Accept(e) \/ Stat(e)
    BY <2>3 DEF Select, Accept, Stat
  <2>4. CASE SendAnswer(e) \/ CloseSocket(e)
    BY <2>4 DEF SendAnswer, AnswersWith, AfterSend, CloseSocket
  <2>5. CASE Unlink(e)
    BY <2>5 DEF Unlink, WayOut
  <2> QED BY <1>2, <2>1, <2>2, <2>3, <2>4, <2>5 DEF DaemonStep
<1>3. ASSUME NEW e \in Daemons, AcceptFails(e) \/ Signal(e) PROVE FALSE
  BY <1>3 DEF AcceptFails, Signal
<1>a. ASSUME NEW e \in Daemons, SendFails(e) \/ SelectFails(e) PROVE FALSE
  BY <1>a DEF SendFails, AnswersWith, AfterSend, SelectFails
<1>4. ASSUME NEW e \in Daemons, Kill(e) \/ SetupFails(e) \/ PrivilegesFail(e)
      PROVE  d \in reason'
  BY <1>4 DEF Kill, SetupFails, PrivilegesFail
<1>5. ASSUME NEW c \in Clients, Connect(c) \/ Leave(c) PROVE FALSE
  BY <1>5 DEF Connect, Leave
<1>6. CASE FileChanges \/ UNCHANGED vars
  BY <1>6 DEF FileChanges, vars
<1> QED BY <1>1, <1>2, <1>3, <1>4, <1>5, <1>6, <1>a DEF Next

(* A daemon ends because of a signal or a kill, because a call failed that *)
(* it cannot do without, or because another one that started at the same   *)
(* time has the path: no client, no failed accept or send and no missing   *)
(* file ends it, and no file left behind keeps it from starting, unless    *)
(* unlink fails.                                                           *)
THEOREM StopsForAReasonHolds == DaemonSpec => StopsForAReason
<1>1. PathInv /\ [Next]_vars =>
        [\A d \in Daemons : pc[d] # "off" /\ pc'[d] = "off" =>
           \/ d \in reason' \/ pc[d] = "bind_anyway"
           \/ (pc[d] = "bind" /\ overlap)]_vars
  BY StopStep
<1> QED BY <1>1, InitPath, NextPath, PTL DEF DaemonSpec, StopsForAReason
-----------------------------------------------------------------------------
LEMMA InitRecent == Init => RecentInv
BY InitShape DEF Init, RecentInv, QueuesKnown, ServesKnown, SinceCurrent, AnswerIsRecent

(* What a step may do to the clients without disturbing the invariant:     *)
(* nobody forgets, and who still waits has seen what it had seen.          *)
Remembered ==
  \A c \in Clients : /\ client'[c] = "idle" => client[c] = "idle"
                     /\ client'[c] = "queued" =>
                          client[c] = "queued" /\ since[c] \subseteq since'[c]

LEMMA EndWaitRemembers ==
  ASSUME NEW S, NEW state \in {"answered", "reset", "gone"}, EndWait(S, state)
  PROVE  Remembered
BY DEF EndWait, Remembered

LEMMA SameRemembers == UNCHANGED clients => Remembered
BY DEF clients, Remembered

(* Steps that leave the file alone and give no daemon anything new.        *)
LEMMA NothingNew ==
  ASSUME RecentInv, Types', Remembered, UNCHANGED file,
         \A d \in Daemons :
           /\ queue'[d] = queue[d] \/ queue'[d] = <<>>
           /\ \/ pc'[d] = pc[d] /\ serving'[d] = serving[d] /\ size'[d] = size[d]
              \/ pc'[d] \notin {"stat", "send"}
  PROVE  QueuesKnown' /\ ServesKnown' /\ SinceCurrent' /\ AnswerIsRecent'
<1> USE DEF RecentInv, Remembered
<1>1. QueuesKnown'
  <2> SUFFICES ASSUME NEW d \in Daemons, NEW j \in 1 .. Len(queue'[d])
               PROVE  client'[queue'[d][j]] # "idle"
    BY DEF QueuesKnown
  <2>1. CASE queue'[d] = queue[d]
    <3>1. queue[d] \in Seq(Clients) /\ j \in 1 .. Len(queue[d])
      BY <2>1 DEF Shape, Types
    <3>2. queue[d][j] \in Clients
      BY <3>1, ElementOfSeq
    <3> QED BY <2>1, <3>1, <3>2 DEF QueuesKnown
  <2>2. CASE queue'[d] = <<>>
    BY <2>2
  <2> QED BY <2>1, <2>2
<1>2. ServesKnown'
  BY DEF ServesKnown
<1>3. SinceCurrent'
  BY DEF SinceCurrent
<1>4. AnswerIsRecent'
  BY DEF AnswerIsRecent, ServesKnown
<1> QED BY <1>1, <1>2, <1>3, <1>4

LEMMA AnswersKeeps ==
  ASSUME RecentInv, Types', NEW d \in Daemons, NEW state \in {"answered", "reset"},
         AnswersWith(d, state)
  PROVE  QueuesKnown' /\ ServesKnown' /\ SinceCurrent' /\ AnswerIsRecent'
<1>1. Remembered
  BY EndWaitRemembers DEF AnswersWith
<1> QED BY <1>1, NothingNew DEF AnswersWith, AfterSend, Goto, RecentInv, Shape, Types

LEMMA AcceptKeeps ==
  ASSUME RecentInv, NEW d \in Daemons, Accept(d)
  PROVE  QueuesKnown' /\ ServesKnown' /\ SinceCurrent' /\ AnswerIsRecent'
<1> DEFINE q == queue[d]
<1>1. q \in Seq(Clients) /\ q # <<>> /\ Len(q) \in Nat
  BY LenProperties DEF Accept, RecentInv, Shape, AcceptReady, Types
<1>2. /\ Head(q) = q[1] /\ q[1] \in Clients /\ 1 \in 1 .. Len(q)
      /\ Len(Tail(q)) = Len(q) - 1
      /\ \A j \in 1 .. Len(Tail(q)) : Tail(q)[j] = q[j + 1]
  BY <1>1, HeadTailProperties, ElementOfSeq
<1>3. \A j \in 1 .. Len(q) : client[q[j]] # "idle"
  BY DEF RecentInv, QueuesKnown
<1>4. QueuesKnown'
  <2> SUFFICES ASSUME NEW e \in Daemons, NEW j \in 1 .. Len(queue'[e])
               PROVE  client'[queue'[e][j]] # "idle"
    BY DEF QueuesKnown
  <2>1. CASE e # d
    BY <2>1 DEF Accept, RecentInv, QueuesKnown, Shape, Types, clients
  <2>2. CASE e = d
    <3>1. queue'[e] = Tail(q)
      BY <2>2 DEF Accept, RecentInv, Shape, Types
    <3>2. j + 1 \in 1 .. Len(q) /\ queue'[e][j] = q[j + 1]
      BY <1>1, <1>2, <3>1
    <3> QED BY <1>3, <3>2 DEF Accept, clients
  <2> QED BY <2>1, <2>2
<1> HIDE DEF q
<1>5. /\ serving' = [serving EXCEPT ![d] = q[1]] /\ pc' = [pc EXCEPT ![d] = "stat"]
      /\ UNCHANGED <<size, client, since, file>>
  BY <1>2 DEF Accept, Goto, clients, q
<1>6. /\ pc \in [Daemons -> Labels]
      /\ serving \in [Daemons -> Clients \cup {NoOne}]
  BY DEF RecentInv, Shape, Types
<1>7. ServesKnown'
  BY <1>2, <1>3, <1>5, <1>6 DEF RecentInv, ServesKnown
<1>8. SinceCurrent' /\ AnswerIsRecent'
  BY <1>5, <1>6 DEF RecentInv, SinceCurrent, AnswerIsRecent
<1> QED BY <1>4, <1>7, <1>8

(* The size is the file's own, which each waiting client has seen.         *)
LEMMA StatKeeps ==
  ASSUME RecentInv, NEW d \in Daemons, Stat(d)
  PROVE  QueuesKnown' /\ ServesKnown' /\ SinceCurrent' /\ AnswerIsRecent'
<1>1. /\ pc[d] = "stat" /\ pc' = [pc EXCEPT ![d] = "send"]
      /\ size' = [size EXCEPT ![d] = file]
      /\ UNCHANGED <<serving, queue, client, since, file>>
  BY DEF Stat, Goto, get_file_size, clients
<1>2. QueuesKnown' /\ SinceCurrent'
  BY <1>1 DEF RecentInv, QueuesKnown, SinceCurrent
<1>3. ServesKnown'
  BY <1>1 DEF RecentInv, Shape, Types, ServesKnown
<1>4. AnswerIsRecent'
  BY <1>1 DEF RecentInv, Shape, Types, AnswerIsRecent, ServesKnown, SinceCurrent
<1> QED BY <1>2, <1>3, <1>4

LEMMA ConnectKeeps ==
  ASSUME RecentInv, NEW c \in Clients, Connect(c)
  PROVE  QueuesKnown' /\ ServesKnown' /\ SinceCurrent' /\ AnswerIsRecent'
<1>1. CASE path # NoOne /\ Listening(path)
  <2>1. /\ client[c] = "idle" /\ path \in Daemons
        /\ queue' = [queue EXCEPT ![path] = Append(@, c)]
        /\ client' = [client EXCEPT ![c] = "queued"]
        /\ since' = [since EXCEPT ![c] = {file}]
        /\ UNCHANGED <<pc, serving, size, file>>
    BY <1>1 DEF Connect, RecentInv, Shape, Types
  <2>2. client \in [Clients -> States] /\ since \in [Clients -> SUBSET (Sizes \cup {Missing})]
    BY DEF RecentInv, Shape, Types
  <2>3. QueuesKnown'
    <3> SUFFICES ASSUME NEW e \in Daemons, NEW j \in 1 .. Len(queue'[e])
                 PROVE  client'[queue'[e][j]] # "idle"
      BY DEF QueuesKnown
    <3>1. queue[e] \in Seq(Clients) /\ Len(queue[e]) \in Nat
      BY LenProperties DEF RecentInv, Shape, Types
    <3>2. \/ j \in 1 .. Len(queue[e]) /\ queue'[e][j] = queue[e][j]
          \/ queue'[e][j] = c
      BY <2>1, <3>1, AppendProperties DEF RecentInv, Shape, Types
    <3>3. j \in 1 .. Len(queue[e]) => queue[e][j] \in Clients /\ client[queue[e][j]] # "idle"
      BY <3>1, ElementOfSeq DEF RecentInv, QueuesKnown
    <3> QED BY <2>1, <2>2, <3>2, <3>3
  <2>4. ServesKnown' /\ SinceCurrent' /\ AnswerIsRecent'
    BY <2>1, <2>2 DEF RecentInv, ServesKnown, SinceCurrent, AnswerIsRecent
  <2> QED BY <2>3, <2>4
<1>2. CASE ~(path # NoOne /\ Listening(path))
  <2>1. Remembered /\ UNCHANGED <<pc, queue, serving, size, file>>
    BY <1>2 DEF Connect, Remembered, RecentInv, Shape, Types
  <2> QED BY <2>1, NothingNew, NextTypes DEF RecentInv, Next
<1> QED BY <1>1, <1>2

LEMMA FileChangesKeeps ==
  ASSUME RecentInv, FileChanges
  PROVE  QueuesKnown' /\ ServesKnown' /\ SinceCurrent' /\ AnswerIsRecent'
<1>1. QueuesKnown' /\ ServesKnown'
  BY DEF FileChanges, RecentInv, QueuesKnown, ServesKnown
<1>2. SinceCurrent'
  BY DEF FileChanges, SinceCurrent
<1>3. AnswerIsRecent'
  BY DEF FileChanges, RecentInv, AnswerIsRecent, ServesKnown
<1> QED BY <1>1, <1>2, <1>3

LEMMA NextRecent == RecentInv /\ [Next]_vars => RecentInv'
<1> SUFFICES ASSUME RecentInv, [Next]_vars
             PROVE  QueuesKnown' /\ ServesKnown' /\ SinceCurrent' /\ AnswerIsRecent'
  BY NextShape DEF RecentInv
<1> DEFINE Kept == QueuesKnown' /\ ServesKnown' /\ SinceCurrent' /\ AnswerIsRecent'
<1>t. Types'
  BY NextTypes DEF RecentInv
<1>p. pc \in [Daemons -> Labels] /\ queue \in [Daemons -> Seq(Clients)]
  BY DEF RecentInv, Shape, Types
<1>1. ASSUME NEW d \in Daemons, Start(d) PROVE Kept
  BY <1>1, <1>t, <1>p, NothingNew, SameRemembers DEF Start, Goto
<1>2. ASSUME NEW d \in Daemons, DaemonStep(d) PROVE Kept
  <2>1. CASE Bind(d) \/ Listen(d) \/ LoopTest(d) \/ Select(d)
    <3>1. /\ UNCHANGED <<serving, size, queue, clients, file>>
          /\ \E label \in Labels \ {"stat", "send"} : pc' = [pc EXCEPT ![d] = label]
      BY <2>1 DEF Bind, Listen, LoopTest, Select, Goto, Labels, Serving
    <3> QED BY <3>1, <1>t, <1>p, NothingNew, SameRemembers
  <2>2. CASE Accept(d)
    BY <2>2, AcceptKeeps
  <2>3. CASE Stat(d)
    BY <2>3, StatKeeps
  <2>4. CASE SendAnswer(d)
    BY <2>4, <1>t, AnswersKeeps DEF SendAnswer
  <2>5. CASE CloseSocket(d)
    <3>1. Remembered
      BY <2>5, EndWaitRemembers DEF CloseSocket
    <3> QED BY <2>5, <3>1, <1>t, <1>p, NothingNew DEF CloseSocket, Goto
  <2>6. CASE Unlink(d)
    BY <2>6, <1>t, <1>p, NothingNew, SameRemembers DEF Unlink, Goto
  <2> QED BY <1>2, <2>1, <2>2, <2>3, <2>4, <2>5, <2>6 DEF DaemonStep
<1>3. ASSUME NEW d \in Daemons, AcceptFails(d) PROVE Kept
  BY <1>3, <1>t, <1>p, NothingNew, SameRemembers DEF AcceptFails, Goto
<1>a. ASSUME NEW d \in Daemons, SetupFails(d) \/ SelectFails(d) PROVE Kept
  BY <1>a, <1>t, <1>p, NothingNew, SameRemembers DEF SetupFails, SelectFails, Goto
<1>b. ASSUME NEW d \in Daemons, PrivilegesFail(d) PROVE Kept
  <2>1. Remembered
    BY <1>b, EndWaitRemembers DEF PrivilegesFail
  <2> QED BY <1>b, <2>1, <1>t, <1>p, NothingNew DEF PrivilegesFail, Goto
<1>c. ASSUME NEW d \in Daemons, SendFails(d) PROVE Kept
  BY <1>c, <1>t, AnswersKeeps DEF SendFails
<1>4. ASSUME NEW d \in Daemons, Signal(d) PROVE Kept
  BY <1>4, <1>t, <1>p, NothingNew, SameRemembers DEF Signal, Goto
<1>5. ASSUME NEW d \in Daemons, Kill(d) PROVE Kept
  <2>1. Remembered
    BY <1>5, EndWaitRemembers DEF Kill
  <2> QED BY <1>5, <2>1, <1>t, <1>p, NothingNew DEF Kill, Goto, RecentInv, Shape, Types
<1>6. ASSUME NEW c \in Clients, Connect(c) PROVE Kept
  BY <1>6, ConnectKeeps
<1>7. ASSUME NEW c \in Clients, Leave(c) PROVE Kept
  <2>1. Remembered
    BY <1>7, EndWaitRemembers DEF Leave
  <2> QED BY <1>7, <2>1, <1>t, NothingNew DEF Leave
<1>8. CASE FileChanges
  BY <1>8, FileChangesKeeps
<1>9. CASE UNCHANGED vars
  BY <1>9, <1>t, NothingNew, SameRemembers DEF vars, clients
<1> QED
  BY <1>1, <1>2, <1>3, <1>4, <1>5, <1>6, <1>7, <1>8, <1>9, <1>a, <1>b, <1>c DEF Next

(* What is about to be sent to a client that still waits is a size the     *)
(* file had since the client connected, or that there was none: however    *)
(* the file changes and whichever daemons come and go.                     *)
THEOREM AnswerIsRecentHolds == DaemonSpec => []AnswerIsRecent
BY InitRecent, NextRecent, PTL DEF DaemonSpec, RecentInv
=============================================================================
