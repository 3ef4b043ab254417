--------------------------- MODULE WebServerProofs ---------------------------
(***************************************************************************)
(* For any number of clients, any requests, buffers and faults: what the   *)
(* web server holds for its clients stays whole, it loses no edge, and it  *)
(* answers each request once and rightly.                                  *)
(***************************************************************************)
EXTENDS WebServer, Induction, SequenceTheorems

(* The labels while an event of a client is handled, and those after the   *)
(* header has been sent.                                                   *)
Body     == {"sendfile", "listing", "error", "close"}
Handling == {"recv", "header", "overflow"} \cup Body
Sockets  == Clients \cup {Listener}
Events   == [who : Sockets, hup : BOOLEAN]

(* No two events of a batch are of the same socket, the first one is that  *)
(* of the client at hand, and those of clients are of open ones.           *)
Distinct(list)    == \A i, j \in 1 .. Len(list) : list[i] = list[j] => i = j
DistinctWho(list) == \A i, j \in 1 .. Len(list) : list[i].who = list[j].who => i = j
Reports(list, x)  == \E j \in 1 .. Len(list) : list[j].who = x

BatchShape ==
  /\ pc = "wait" => batch = <<>>
  /\ pc \in Handling \cup {"batch"} => batch # <<>>
  /\ pc \in Handling => cur \in mem /\ batch[1].who = cur
  /\ DistinctWho(batch)
  /\ \A c \in Clients : Reports(batch, c) => c \in mem

(* The lists of the kernel have no entry twice.  Whoever is on the ready   *)
(* list is registered, and whoever waits to be accepted is not open yet.   *)
ListsShape ==
  /\ Distinct(ready) /\ Distinct(backlog)
  /\ \A c \in Clients :
       /\ Contains(ready, c) => c \in interest
       /\ Contains(backlog, c) => c \notin fds
       /\ c \in fds \/ Contains(backlog, c) => line[c] \notin {"none", "closed"}

Owned == fds = interest /\ fds = mem

IntactInv == WebTypeOK /\ Owned /\ BatchShape /\ ListsShape

EdgeKept == \A c \in Clients : c \in interest /\ Readable(c) =>
                              Contains(ready, c) \/ Reports(batch, c)

EdgeInv == IntactInv /\ EdgeKept

(* What was received is part of what was sent.                             *)
Counted == \A c \in Clients : buffer_len[c] + inq[c] + unsent[c] <= ask[c].total

(* Who has an answer is the client at hand or was closed, and who has none *)
(* has nothing to read.                                                    *)
AnsweredOnce ==
  /\ answers \in [Clients -> Seq({"200", "400", "4xx"})]
  /\ \A c \in Clients :
       /\ answers[c] # <<>> => line[c] = "closed" \/ (cur = c /\ pc \in Body \cup {"dead"})
       /\ answers[c] = <<>> => got[c] = 0 /\ outq[c] = 0

(* What is known of the request at each step of the handler.               *)
Fits(c) == ask[c].need <= BufSize
Phases ==
  /\ pc = "header" => buffer_len[cur] >= ask[cur].need
  /\ pc = "overflow" => buffer_len[cur] = BufSize /\ ~Fits(cur)
  /\ pc \in {"sendfile", "listing", "error"} /\ Delivers(cur) => answers[cur] # <<>>
  /\ pc = "sendfile" => ask[cur].kind = "file" /\ Fits(cur) /\ got[cur] + outq[cur] <= offset
  /\ pc = "listing" => ask[cur].kind = "listing" /\ Fits(cur) /\ got[cur] + outq[cur] = 0
  /\ pc = "error" => (ask[cur].kind = "refused" \/ ~Fits(cur)) /\ got[cur] + outq[cur] = 0

AnswerInv == IntactInv /\ Counted /\ AnsweredOnce /\ Phases /\ AnswersRight
-----------------------------------------------------------------------------
(* The filter of a list: what it computes, by induction over the list.     *)
OnlyIs(list, K, n, r) ==
  /\ \A j \in 1 .. Len(r) : r[j] \in K /\ \E m \in 1 .. n : list[m] = r[j]
  /\ \A m \in 1 .. n : list[m] \in K => \E j \in 1 .. Len(r) : r[j] = list[m]
  /\ Distinct(list) => Distinct(r)

LEMMA OnlyStep ==
  ASSUME NEW S, NEW list \in Seq(S), NEW K, NEW n \in Nat, n < Len(list), NEW r \in Seq(S),
         OnlyIs(list, K, n, r)
  PROVE  LET q == IF list[n + 1] \in K THEN Append(r, list[n + 1]) ELSE r
         IN  q \in Seq(S) /\ OnlyIs(list, K, n + 1, q)
<1> DEFINE x == list[n + 1]
           q == Append(r, x)
<1>1. Len(list) \in Nat /\ n + 1 \in 1 .. Len(list) /\ x \in S
  BY LenProperties, ElementOfSeq
<1>2. CASE x \notin K
  <2>1. \A m \in 1 .. (n + 1) : m \in 1 .. n \/ m = n + 1
    OBVIOUS
  <2>2. \A m \in 1 .. n : m \in 1 .. (n + 1)
    OBVIOUS
  <2> QED BY <1>2, <2>1, <2>2 DEF OnlyIs
<1>3. CASE x \in K
  <2>1. /\ q \in Seq(S) /\ Len(r) \in Nat /\ Len(q) = Len(r) + 1
        /\ \A j \in 1 .. Len(r) : q[j] = r[j]
        /\ q[Len(r) + 1] = x
    BY <1>1, LenProperties, AppendProperties
  <2> HIDE DEF q
  <2>2. \A j \in 1 .. Len(q) : j \in 1 .. Len(r) \/ j = Len(r) + 1
    BY <2>1
  <2>3. \A j \in 1 .. Len(q) : q[j] \in K /\ \E m \in 1 .. (n + 1) : list[m] = q[j]
    <3> SUFFICES ASSUME NEW j \in 1 .. Len(q)
                 PROVE  q[j] \in K /\ \E m \in 1 .. (n + 1) : list[m] = q[j]
      OBVIOUS
    <3>1. CASE j \in 1 .. Len(r)
      <4>1. q[j] = r[j] /\ r[j] \in K
        BY <3>1, <2>1 DEF OnlyIs
      <4>2. PICK m \in 1 .. n : list[m] = r[j]
        BY <3>1 DEF OnlyIs
      <4>3. m \in 1 .. (n + 1)
        OBVIOUS
      <4> QED BY <4>1, <4>2, <4>3
    <3>2. CASE j = Len(r) + 1
      <4>1. n + 1 \in 1 .. (n + 1)
        OBVIOUS
      <4> QED BY <3>2, <4>1, <2>1, <1>3
    <3> QED BY <3>1, <3>2, <2>2
  <2>4. \A m \in 1 .. (n + 1) : list[m] \in K => \E j \in 1 .. Len(q) : q[j] = list[m]
    <3> SUFFICES ASSUME NEW m \in 1 .. (n + 1), list[m] \in K
                 PROVE  \E j \in 1 .. Len(q) : q[j] = list[m]
      OBVIOUS
    <3>1. CASE m = n + 1
      BY <3>1, <2>1
    <3>2. CASE m # n + 1
      <4>1. m \in 1 .. n
        BY <3>2
      <4>2. PICK j \in 1 .. Len(r) : r[j] = list[m]
        BY <4>1 DEF OnlyIs
      <4>3. j \in 1 .. Len(q)
        BY <2>1
      <4> QED BY <4>2, <4>3, <2>1
    <3> QED BY <3>1, <3>2
  <2>5. ASSUME Distinct(list) PROVE Distinct(q)
    <3>1. ASSUME NEW j \in 1 .. Len(r) PROVE r[j] # x
      <4>1. PICK m \in 1 .. n : list[m] = r[j]
        BY <3>1 DEF OnlyIs
      <4>2. m \in 1 .. Len(list) /\ m # n + 1
        BY <1>1
      <4> QED BY <2>5, <4>1, <4>2, <1>1 DEF Distinct
    <3>2. Distinct(r)
      BY <2>5 DEF OnlyIs
    <3> QED BY <2>1, <2>2, <3>1, <3>2 DEF Distinct
  <2>6. OnlyIs(list, K, n + 1, q)
    BY <2>3, <2>4, <2>5 DEF OnlyIs
  <2> QED BY <1>3, <2>1, <2>6 DEF q
<1> QED BY <1>2, <1>3

LEMMA OnlyFacts ==
  ASSUME NEW S, NEW list \in Seq(S), NEW K
  PROVE  Only(list, K) \in Seq(S) /\ OnlyIs(list, K, Len(list), Only(list, K))
<1> DEFINE n == Len(list)
           Step(v, i) == IF list[i] \in K THEN Append(v, list[i]) ELSE v
           Eqn(f) == f = [i \in 0 .. n |-> IF i = 0 THEN <<>> ELSE Step(f[i - 1], i)]
           h == [p \in (1 .. n) \X Seq(S) |-> Step(p[2], p[1])]
           kept == CHOOSE f : Eqn(f)
<1>1. n \in Nat /\ \A i \in 1 .. n : list[i] \in S
  BY LenProperties, ElementOfSeq
<1>2. \A i \in 1 .. n, v \in Seq(S) : Step(v, i) \in Seq(S)
  BY <1>1, AppendProperties
<1>3. h \in [(1 .. n) \X Seq(S) -> Seq(S)] /\ \A i \in 1 .. n, v \in Seq(S) : h[<<i, v>>] = Step(v, i)
  BY <1>2
<1>4. <<>> \in Seq(S)
  BY EmptySeq
<1> HIDE DEF n, Step, h
<1>5. \E g : Recursion(g, n, Seq(S), <<>>, h)
  BY <1>1, <1>3, <1>4, RecursionExists DEF Steps
<1>6. PICK g : g \in [0 .. n -> Seq(S)] /\ g[0] = <<>> /\ \A i \in 1 .. n : g[i] = h[<<i, g[i - 1]>>]
  BY <1>5 DEF Recursion
<1>7. ASSUME NEW i \in 1 .. n PROVE g[i] = Step(g[i - 1], i)
  <2>1. i - 1 \in 0 .. n /\ g[i - 1] \in Seq(S)
    BY <1>1, <1>6
  <2> QED BY <2>1, <1>3, <1>6
<1>8. Eqn(g)
  <2>1. ASSUME NEW i \in 0 .. n
        PROVE  g[i] = IF i = 0 THEN <<>> ELSE Step(g[i - 1], i)
    BY <1>1, <1>6, <1>7
  <2> QED BY <1>6, <2>1
<1>9. Eqn(kept)
  BY <1>8
<1> HIDE DEF kept
<1>10. kept[0] = <<>> /\ \A i \in 1 .. n : kept[i] = Step(kept[i - 1], i)
  BY <1>1, <1>9
<1> DEFINE T == {i \in Nat : i <= n => kept[i] \in Seq(S) /\ OnlyIs(list, K, i, kept[i])}
<1>11. 0 \in T
  <2>1. OnlyIs(list, K, 0, <<>>)
    BY EmptySeq DEF OnlyIs, Distinct
  <2> QED BY <2>1, <1>4, <1>10
<1>12. ASSUME NEW i \in Nat, i \in T PROVE i + 1 \in T
  <2> SUFFICES ASSUME i + 1 <= n
               PROVE  kept[i + 1] \in Seq(S) /\ OnlyIs(list, K, i + 1, kept[i + 1])
    OBVIOUS
  <2>1. i < n /\ i + 1 \in 1 .. n /\ (i + 1) - 1 = i
    BY <1>1
  <2>2. kept[i] \in Seq(S) /\ OnlyIs(list, K, i, kept[i])
    BY <1>12, <2>1, <1>1
  <2>3. kept[i + 1] = Step(kept[i], i + 1)
    BY <1>10, <2>1
  <2> HIDE DEF T
  <2> QED BY <2>1, <2>2, <2>3, OnlyStep DEF n, Step
<1> HIDE DEF T
<1>13. n \in T
  BY <1>1, <1>11, <1>12, NatInductionSet
<1>14. kept[n] \in Seq(S) /\ OnlyIs(list, K, n, kept[n])
  BY <1>13, <1>1 DEF T
<1>15. Only(list, K) = kept[n]
  BY DEF Only, kept, n, Step
<1> QED BY <1>14, <1>15 DEF n
LEMMA OnlyContains ==
  ASSUME NEW S, NEW list \in Seq(S), NEW K
  PROVE  /\ Only(list, K) \in Seq(S)
         /\ Distinct(list) => Distinct(Only(list, K))
         /\ \A x : Contains(Only(list, K), x) <=> Contains(list, x) /\ x \in K
BY OnlyFacts, SMTT(30) DEF OnlyIs, Contains

LEMMA EnqueueFacts ==
  ASSUME NEW S, NEW list \in Seq(S), NEW x \in S
  PROVE  /\ Enqueue(list, x) \in Seq(S) /\ Enqueue(list, x) # <<>>
         /\ Distinct(list) => Distinct(Enqueue(list, x))
         /\ \A y : Contains(Enqueue(list, x), y) <=> Contains(list, y) \/ y = x
<1>l. Len(list) \in Nat
  BY LenProperties
<1>1. CASE Contains(list, x)
  <2>1. list # <<>>
    BY <1>1 DEF Contains
  <2> QED BY <1>1, <2>1 DEF Enqueue
<1>2. CASE ~Contains(list, x)
  <2> DEFINE e == Append(list, x)
  <2>1. /\ e \in Seq(S) /\ Len(e) = Len(list) + 1 /\ e # <<>>
        /\ \A i \in 1 .. Len(list) : e[i] = list[i]
        /\ e[Len(list) + 1] = x
    BY AppendProperties
  <2>2. Enqueue(list, x) = e
    BY <1>2 DEF Enqueue
  <2> HIDE DEF e
  <2>3. \A i \in 1 .. Len(e) : i \in 1 .. Len(list) \/ i = Len(list) + 1
    BY <2>1, <1>l
  <2>4. /\ \A i \in 1 .. Len(list) : i \in 1 .. Len(e)
        /\ Len(list) + 1 \in 1 .. Len(e)
    BY <2>1, <1>l
  <2>5. \A y : Contains(e, y) <=> Contains(list, y) \/ y = x
    BY <2>1, <2>3, <2>4 DEF Contains
  <2>6. Distinct(list) => Distinct(e)
    BY <1>2, <2>1, <2>3, <2>4 DEF Contains, Distinct
  <2> QED BY <2>1, <2>2, <2>5, <2>6
<1> QED BY <1>1, <1>2

LEMMA TailFacts ==
  ASSUME NEW S, NEW list \in Seq(S), list # <<>>
  PROVE  /\ Tail(list) \in Seq(S) /\ Head(list) \in S /\ Head(list) = list[1]
         /\ Len(list) \in Nat /\ Len(Tail(list)) = Len(list) - 1 /\ 1 \in 1 .. Len(list)
         /\ \A i \in 1 .. Len(Tail(list)) : i + 1 \in 2 .. Len(list) /\ Tail(list)[i] = list[i + 1]
         /\ \A i \in 2 .. Len(list) : i - 1 \in 1 .. Len(Tail(list)) /\ Tail(list)[i - 1] = list[i]
BY LenProperties, HeadTailProperties, ElementOfSeq

LEMMA TailContains ==
  ASSUME NEW S, NEW list \in Seq(S), list # <<>>, Distinct(list)
  PROVE  /\ Distinct(Tail(list))
         /\ Contains(list, Head(list))
         /\ \A x : Contains(Tail(list), x) <=> Contains(list, x) /\ x # Head(list)
<1> DEFINE t == Tail(list)
<1>1. /\ Head(list) = list[1]
      /\ Len(list) \in Nat /\ Len(t) = Len(list) - 1 /\ 1 \in 1 .. Len(list)
      /\ \A i \in 1 .. Len(t) : i + 1 \in 2 .. Len(list) /\ t[i] = list[i + 1]
      /\ \A i \in 2 .. Len(list) : i - 1 \in 1 .. Len(t) /\ t[i - 1] = list[i]
  BY TailFacts
<1> HIDE DEF t
<1>2. Distinct(t)
  BY <1>1 DEF Distinct
<1>3. ASSUME NEW x PROVE Contains(t, x) <=> Contains(list, x) /\ x # Head(list)
  <2>1. ASSUME Contains(t, x) PROVE Contains(list, x) /\ x # Head(list)
    <3>1. PICK i \in 1 .. Len(t) : t[i] = x
      BY <2>1 DEF Contains
    <3>2. i + 1 \in 1 .. Len(list) /\ list[i + 1] = x /\ i + 1 # 1
      BY <1>1, <3>1
    <3> QED BY <1>1, <3>2 DEF Contains, Distinct
  <2>2. ASSUME Contains(list, x), x # Head(list) PROVE Contains(t, x)
    <3>1. PICK i \in 1 .. Len(list) : list[i] = x
      BY <2>2 DEF Contains
    <3>2. i \in 2 .. Len(list)
      BY <1>1, <2>2, <3>1
    <3> QED BY <1>1, <3>1, <3>2 DEF Contains
  <2> QED BY <2>1, <2>2
<1>4. Contains(list, Head(list))
  BY <1>1 DEF Contains
<1> QED BY <1>2, <1>3, <1>4 DEF t

(* The next turn of the loop: the first event is done with, the others     *)
(* are still to be handled.                                                *)
LEMMA NextEventFacts ==
  ASSUME batch \in Seq(Events), batch # <<>>, DistinctWho(batch), NextEvent
  PROVE  /\ batch' \in Seq(Events) /\ DistinctWho(batch')
         /\ \A x : Reports(batch', x) <=> Reports(batch, x) /\ x # batch[1].who
         /\ cur' = NoOne
         /\ \/ pc' = "wait" /\ batch' = <<>>
            \/ pc' = "batch" /\ batch' # <<>>
<1> DEFINE t == Tail(batch)
<1>1. /\ t \in Seq(Events)
      /\ Len(batch) \in Nat /\ Len(t) = Len(batch) - 1 /\ 1 \in 1 .. Len(batch)
      /\ \A i \in 1 .. Len(t) : i + 1 \in 2 .. Len(batch) /\ t[i] = batch[i + 1]
      /\ \A i \in 2 .. Len(batch) : i - 1 \in 1 .. Len(t) /\ t[i - 1] = batch[i]
  BY TailFacts
<1>2. batch' = t /\ cur' = NoOne /\ pc' = IF Len(batch) = 1 THEN "wait" ELSE "batch"
  BY DEF NextEvent
<1> HIDE DEF t
<1>3. DistinctWho(t)
  BY <1>1 DEF DistinctWho
<1>4. ASSUME NEW x PROVE Reports(t, x) <=> Reports(batch, x) /\ x # batch[1].who
  <2>1. ASSUME Reports(t, x) PROVE Reports(batch, x) /\ x # batch[1].who
    <3>1. PICK i \in 1 .. Len(t) : t[i].who = x
      BY <2>1 DEF Reports
    <3>2. i + 1 \in 1 .. Len(batch) /\ batch[i + 1].who = x /\ i + 1 # 1
      BY <1>1, <3>1
    <3> QED BY <1>1, <3>2 DEF Reports, DistinctWho
  <2>2. ASSUME Reports(batch, x), x # batch[1].who PROVE Reports(t, x)
    <3>1. PICK i \in 1 .. Len(batch) : batch[i].who = x
      BY <2>2 DEF Reports
    <3>2. i \in 2 .. Len(batch)
      BY <1>1, <2>2, <3>1
    <3> QED BY <1>1, <3>1, <3>2 DEF Reports
  <2> QED BY <2>1, <2>2
<1>5. t = <<>> <=> Len(batch) = 1
  BY <1>1, EmptySeq
<1> QED BY <1>1, <1>2, <1>3, <1>4, <1>5
-----------------------------------------------------------------------------
(* The lists and the open sockets, action by action.                       *)
LEMMA InitIntact == Init => IntactInv
<1> SUFFICES ASSUME Init PROVE IntactInv
  OBVIOUS
<1>1. \A c \in Clients : ask[c] \in Requests[c] /\ Requests[c] \subseteq Request
  BY WebAssumption DEF Init
<1>2. ask \in [Clients -> Request]
  BY <1>1 DEF Init
<1>3. \A c \in Clients : ask[c].total \in Nat
  BY <1>2 DEF Request
<1>4. unsent \in [Clients -> Nat]
  BY <1>3 DEF Init
<1>5. batch \in Seq(Events) /\ ready \in Seq(Sockets) /\ backlog \in Seq(Clients)
  BY EmptySeq DEF Init
<1>6. /\ buffer_len \in [Clients -> 0 .. BufSize] /\ inq \in [Clients -> Nat]
      /\ outq \in [Clients -> 0 .. SndBuf] /\ got \in [Clients -> Nat] /\ offset \in 0 .. BodyLen
  BY WebAssumption DEF Init
<1>7. WebTypeOK
  BY <1>2, <1>4, <1>5, <1>6 DEF Init, WebTypeOK, Events, Sockets
<1>8. Owned /\ BatchShape /\ ListsShape
  <2>1. \A x : ~Contains(ready, x) /\ ~Contains(backlog, x) /\ ~Reports(batch, x)
    BY EmptySeq DEF Init, Contains, Reports
  <2>2. Distinct(ready) /\ Distinct(backlog) /\ DistinctWho(batch)
    BY EmptySeq DEF Init, Distinct, DistinctWho
  <2> QED BY <2>1, <2>2 DEF Init, Owned, BatchShape, ListsShape, Handling, Body
<1> QED BY <1>7, <1>8 DEF IntactInv

(* Whoever has an event to handle is open.                                 *)
LEMMA AtHand ==
  ASSUME IntactInv, pc \in Handling \cup {"batch"}
  PROVE  /\ batch \in Seq(Events) /\ batch # <<>> /\ Len(batch) \in Nat /\ 1 \in 1 .. Len(batch)
         /\ batch[1].who \in Sockets /\ Reports(batch, batch[1].who)
         /\ batch[1].who # Listener => batch[1].who \in mem
         /\ pc \in Handling => cur \in mem /\ cur \in Clients /\ batch[1].who = cur
<1>1. batch \in Seq(Events) /\ batch # <<>>
  BY DEF IntactInv, WebTypeOK, BatchShape, Events, Sockets
<1>2. Len(batch) \in Nat /\ 1 \in 1 .. Len(batch) /\ batch[1] \in Events
  BY <1>1, TailFacts
<1>3. batch[1].who \in Sockets /\ Reports(batch, batch[1].who)
  BY <1>2 DEF Events, Reports
<1> QED BY <1>1, <1>2, <1>3 DEF IntactInv, WebTypeOK, BatchShape, Sockets

(* A step on the side of the clients: somebody may enter the ready list,   *)
(* and no connection that is open or waits gets to none or closed.         *)
LEMMA ClientSideKeeps ==
  ASSUME IntactInv, WebTypeOK',
         UNCHANGED <<pc, cur, batch, mem, fds, interest, backlog>>,
         NEW x \in Sockets, x \in Clients => x \in interest,
         ready' = ready \/ ready' = Enqueue(ready, x),
         \A c \in Clients : line[c] \notin {"none", "closed"} => line'[c] \notin {"none", "closed"}
  PROVE  IntactInv'
<1>1. ready \in Seq(Sockets) /\ Distinct(ready)
  BY DEF IntactInv, WebTypeOK, Sockets, ListsShape
<1>2. /\ Distinct(ready')
      /\ \A y : Contains(ready', y) => Contains(ready, y) \/ y = x
  <2>1. CASE ready' = ready
    BY <1>1, <2>1
  <2>2. CASE ready' = Enqueue(ready, x)
    <3>1. /\ Distinct(Enqueue(ready, x))
          /\ \A y : Contains(Enqueue(ready, x), y) => Contains(ready, y) \/ y = x
      BY <1>1, EnqueueFacts
    <3> QED BY <2>2, <3>1
  <2> QED BY <2>1, <2>2
<1>3. ListsShape'
  BY <1>2 DEF IntactInv, ListsShape
<1> QED BY <1>3 DEF IntactInv, Owned, BatchShape

(* A step of the handler that opens, closes and reports nothing.           *)
LEMMA HandlerKeeps ==
  ASSUME IntactInv, WebTypeOK', pc \in Handling, pc' \in Handling \cup {"dead"},
         UNCHANGED <<cur, batch, mem, fds, interest, ready, backlog>>,
         \A c \in Clients : line[c] \notin {"none", "closed"} => line'[c] \notin {"none", "closed"}
  PROVE  IntactInv'
<1>1. BatchShape'
  BY DEF IntactInv, BatchShape, Handling, Body
<1> QED BY <1>1 DEF IntactInv, Owned, ListsShape

(* The event at hand is done with, and nothing else changes.               *)
LEMMA EventDone ==
  ASSUME IntactInv, WebTypeOK', pc \in Handling, NextEvent,
         UNCHANGED <<mem, fds, interest, ready, backlog, line>>
  PROVE  IntactInv'
<1>1. BatchShape'
  BY AtHand, NextEventFacts DEF IntactInv, BatchShape, Handling, Body
<1> QED BY <1>1 DEF IntactInv, Owned, ListsShape

(* The client at hand is closed: it leaves the ready list with its socket, *)
(* and no later event of the batch is its own.                             *)
LEMMA CloseKeeps ==
  ASSUME IntactInv, pc \in Handling \cup {"batch"}, NEW c \in Clients, batch[1].who = c,
         CloseClient(c),
         UNCHANGED <<offset, buffer_len, backlog, ask, unsent, got>>
  PROVE  IntactInv'
<1>1. /\ interest' = interest \ {c} /\ fds' = fds \ {c} /\ mem' = mem \ {c}
      /\ ready' = Only(ready, Sockets \ {c})
      /\ line' = [line EXCEPT ![c] = "closed"]
      /\ outq' = outq \/ outq' = [outq EXCEPT ![c] = 0]
      /\ inq' = [inq EXCEPT ![c] = 0]
      /\ NextEvent
  BY DEF CloseClient, Sockets
<1>2. ready \in Seq(Sockets) /\ Distinct(ready)
  BY DEF IntactInv, WebTypeOK, Sockets, ListsShape
<1>3. /\ ready' \in Seq(Sockets) /\ Distinct(ready')
      /\ \A x : Contains(ready', x) <=> Contains(ready, x) /\ x \in Sockets \ {c}
  BY <1>1, <1>2, OnlyContains
<1>4. /\ batch' \in Seq(Events) /\ DistinctWho(batch')
      /\ \A x : Reports(batch', x) <=> Reports(batch, x) /\ x # c
      /\ cur' = NoOne
      /\ \/ pc' = "wait" /\ batch' = <<>>
         \/ pc' = "batch" /\ batch' # <<>>
  BY <1>1, AtHand, NextEventFacts DEF IntactInv, BatchShape
<1>5. BatchShape'
  BY <1>1, <1>4 DEF IntactInv, BatchShape, Handling, Body
<1>6. ListsShape'
  <2>1. line \in [Clients -> {"none", "up", "fin", "rst", "broken", "closed"}]
    BY DEF IntactInv, WebTypeOK
  <2>2. c \in fds
    BY AtHand, WebAssumption DEF IntactInv, Owned
  <2> QED BY <1>1, <1>3, <2>1, <2>2 DEF IntactInv, ListsShape
<1>7. Owned'
  BY <1>1 DEF IntactInv, Owned
<1>8. WebTypeOK'
  <2>1. outq' \in [Clients -> 0 .. SndBuf] /\ inq' \in [Clients -> Nat]
    <3>1. outq \in [Clients -> 0 .. SndBuf] /\ inq \in [Clients -> Nat] /\ 0 \in 0 .. SndBuf
      BY WebAssumption, SMTT(30) DEF IntactInv, WebTypeOK
    <3> QED BY <1>1, <3>1
  <2>2. /\ line' \in [Clients -> {"none", "up", "fin", "rst", "broken", "closed"}]
        /\ mem' \subseteq Clients /\ fds' \subseteq Clients /\ interest' \subseteq Clients
    BY <1>1 DEF IntactInv, WebTypeOK
  <2> QED BY <1>3, <1>4, <2>1, <2>2 DEF IntactInv, WebTypeOK, Events, Sockets
<1> QED BY <1>5, <1>6, <1>7, <1>8 DEF IntactInv
(* What a send does: at most the room in the send buffer is used, the line *)
(* may break, and the line of nobody else changes.                         *)
Lines == {"none", "up", "fin", "rst", "broken", "closed"}

LEMMA SendFacts ==
  ASSUME WebTypeOK, NEW c \in Clients, NEW units \in Nat, NEW label, Send(c, label, units)
  PROVE  /\ outq' \in [Clients -> 0 .. SndBuf] /\ line' \in [Clients -> Lines]
         /\ \/ pc' = "dead" /\ line[c] = "broken" /\ UNCHANGED <<line, outq>>
            \/ pc' = label /\ Delivers(c) /\ UNCHANGED line
               /\ outq' = [outq EXCEPT ![c] = @ + Least(units, SndBuf - outq[c])]
            \/ pc' = label /\ ~Delivers(c) /\ UNCHANGED outq
               /\ line' = [line EXCEPT ![c] = "broken"]
<1>1. outq \in [Clients -> 0 .. SndBuf] /\ line \in [Clients -> Lines] /\ SndBuf \in Nat
  BY WebAssumption DEF WebTypeOK, Lines
<1>2. CASE pc' = "dead" /\ line[c] = "broken" /\ UNCHANGED <<line, outq>>
  BY <1>1, <1>2
<1>3. CASE pc' = label /\ Delivers(c) /\ UNCHANGED line
           /\ outq' = [outq EXCEPT ![c] = @ + Least(units, SndBuf - outq[c])]
  <2>1. outq[c] + Least(units, SndBuf - outq[c]) \in 0 .. SndBuf
    BY <1>1 DEF Least
  <2> QED BY <1>1, <1>3, <2>1
<1>4. CASE pc' = label /\ ~Delivers(c) /\ UNCHANGED outq
           /\ line' = [line EXCEPT ![c] = "broken"]
  BY <1>1, <1>4 DEF Lines
<1> QED BY <1>2, <1>3, <1>4 DEF Send

(* Connections, data and hangups: an edge of a registered socket.          *)
LEMMA ConnectKeeps ==
  ASSUME IntactInv, NEW c \in Clients, Connect(c)
  PROVE  IntactInv'
<1>1. /\ line[c] = "none" /\ line' = [line EXCEPT ![c] = "up"]
      /\ backlog' = Append(backlog, c) /\ ready' = Enqueue(ready, Listener)
      /\ UNCHANGED <<pc, cur, batch, offset, mem, buffer_len, fds, interest, inq, outq, ask,
                     unsent, got>>
  BY DEF Connect, server, client
<1>2. /\ ready \in Seq(Sockets) /\ Distinct(ready) /\ Listener \in Sockets
      /\ backlog \in Seq(Clients) /\ Distinct(backlog)
      /\ line \in [Clients -> Lines]
  BY DEF IntactInv, WebTypeOK, Sockets, ListsShape, Lines
<1>3. /\ ready' \in Seq(Sockets) /\ Distinct(ready')
      /\ \A y : Contains(ready', y) <=> Contains(ready, y) \/ y = Listener
  BY <1>1, <1>2, EnqueueFacts
<1>4. ~Contains(backlog, c)
  BY <1>1 DEF IntactInv, ListsShape
<1>5. backlog' = Enqueue(backlog, c)
  BY <1>1, <1>4 DEF Enqueue
<1>6. /\ backlog' \in Seq(Clients) /\ Distinct(backlog')
      /\ \A y : Contains(backlog', y) <=> Contains(backlog, y) \/ y = c
  BY <1>2, <1>5, EnqueueFacts
<1>7. line' \in [Clients -> Lines]
  BY <1>1, <1>2 DEF Lines
<1>8. WebTypeOK'
  BY <1>1, <1>3, <1>6, <1>7 DEF IntactInv, WebTypeOK, Sockets, Lines
<1>9. ListsShape'
  BY <1>1, <1>2, <1>3, <1>6, WebAssumption DEF IntactInv, ListsShape
<1> QED BY <1>1, <1>8, <1>9 DEF IntactInv, Owned, BatchShape

LEMMA EdgeTypes ==
  ASSUME IntactInv, NEW c \in Clients, Edge(c)
  PROVE  /\ ready' \in Seq(Sockets)
         /\ \E x \in Sockets : /\ x \in Clients => x \in interest
                               /\ ready' = ready \/ ready' = Enqueue(ready, x)
<1>1. ready \in Seq(Sockets) /\ c \in Sockets /\ Listener \in Sockets
  BY DEF IntactInv, WebTypeOK, Sockets
<1>2. CASE c \in interest
  <2>1. ready' = Enqueue(ready, c)
    BY <1>2 DEF Edge
  <2>2. ready' \in Seq(Sockets)
    BY <1>1, <2>1, EnqueueFacts
  <2> QED BY <1>1, <1>2, <2>1, <2>2
<1>3. CASE c \notin interest
  BY <1>1, <1>3, WebAssumption DEF Edge
<1> QED BY <1>2, <1>3

LEMMA SendPieceKeeps ==
  ASSUME IntactInv, NEW c \in Clients, SendPiece(c)
  PROVE  IntactInv'
<1>1. /\ unsent[c] > 0 /\ unsent' = [unsent EXCEPT ![c] = @ - 1]
      /\ inq' = [inq EXCEPT ![c] = @ + 1] /\ Edge(c)
      /\ UNCHANGED <<pc, cur, batch, offset, mem, buffer_len, fds, interest, backlog, line,
                     outq, ask, got>>
  BY DEF SendPiece, server
<1>2. unsent' \in [Clients -> Nat] /\ inq' \in [Clients -> Nat]
  <2>1. unsent \in [Clients -> Nat] /\ inq \in [Clients -> Nat]
    BY DEF IntactInv, WebTypeOK
  <2> QED BY <1>1, <2>1
<1>3. WebTypeOK'
  BY <1>1, <1>2, EdgeTypes DEF IntactInv, WebTypeOK, Sockets
<1> QED BY <1>1, <1>3, EdgeTypes, ClientSideKeeps

LEMMA HangupKeeps ==
  ASSUME IntactInv, NEW c \in Clients, Hangup(c)
  PROVE  IntactInv'
<1>1. /\ \E l \in {"fin", "rst", "broken"} : line' = [line EXCEPT ![c] = l]
      /\ Edge(c)
      /\ UNCHANGED <<pc, cur, batch, offset, mem, buffer_len, fds, interest, backlog, inq,
                     outq, ask, unsent, got>>
  BY DEF Hangup, server, client
<1>2. line \in [Clients -> Lines]
  BY DEF IntactInv, WebTypeOK, Lines
<1>3. WebTypeOK'
  BY <1>1, <1>2, EdgeTypes DEF IntactInv, WebTypeOK, Sockets, Lines
<1>4. \A d \in Clients : line[d] \notin {"none", "closed"} => line'[d] \notin {"none", "closed"}
  BY <1>1, <1>2
<1> QED BY <1>1, <1>3, <1>4, EdgeTypes, ClientSideKeeps

LEMMA ReadAnswerKeeps ==
  ASSUME IntactInv, NEW c \in Clients, ReadAnswer(c)
  PROVE  IntactInv'
<1>1. /\ outq[c] > 0 /\ outq' = [outq EXCEPT ![c] = @ - 1] /\ got' = [got EXCEPT ![c] = @ + 1]
      /\ UNCHANGED <<pc, cur, batch, offset, mem, buffer_len, fds, interest, ready, backlog,
                     line, inq, ask, unsent>>
  BY DEF ReadAnswer, server
<1>2. outq' \in [Clients -> 0 .. SndBuf] /\ got' \in [Clients -> Nat]
  <2>1. outq \in [Clients -> 0 .. SndBuf] /\ got \in [Clients -> Nat] /\ SndBuf \in Nat
    BY WebAssumption DEF IntactInv, WebTypeOK
  <2> QED BY <1>1, <2>1
<1>3. WebTypeOK'
  BY <1>1, <1>2 DEF IntactInv, WebTypeOK
<1> QED BY <1>1, <1>3 DEF IntactInv, Owned, BatchShape, ListsShape
(* epoll_wait moves the ready list into the batch.                         *)
LEMMA EpollFacts ==
  ASSUME IntactInv, epoll_wait
  PROVE  /\ batch' \in Seq(Events) /\ DistinctWho(batch') /\ ready' = <<>>
         /\ \A x : Reports(batch', x) <=> Contains(ready, x) /\ x \in Pending
         /\ \/ pc' = "wait" /\ batch' = <<>>
            \/ pc' = "batch" /\ batch' # <<>>
<1> DEFINE now == Only(ready, Pending)
<1>1. ready \in Seq(Sockets) /\ Distinct(ready)
  BY DEF IntactInv, WebTypeOK, Sockets, ListsShape
<1>2. /\ now \in Seq(Sockets) /\ Distinct(now)
      /\ \A x : Contains(now, x) <=> Contains(ready, x) /\ x \in Pending
  BY <1>1, OnlyContains
<1>3. /\ batch' = [i \in 1 .. Len(now) |-> Event(now[i])]
      /\ pc' = IF now = <<>> THEN "wait" ELSE "batch"
      /\ ready' = <<>>
  BY DEF epoll_wait
<1> HIDE DEF now
<1>4. Len(now) \in Nat /\ \A i \in 1 .. Len(now) : now[i] \in Sockets
  BY <1>2, LenProperties, ElementOfSeq
<1>5. \A i \in 1 .. Len(now) : Event(now[i]) \in Events /\ Event(now[i]).who = now[i]
  BY <1>4 DEF Event, Events
<1>6. batch' \in Seq(Events) /\ Len(batch') = Len(now)
  <2>1. batch' \in [1 .. Len(now) -> Events]
    BY <1>3, <1>5
  <2>2. batch' \in Seq(Events)
    BY <1>4, <2>1
  <2>3. DOMAIN batch' = 1 .. Len(now) /\ DOMAIN batch' = 1 .. Len(batch') /\ Len(batch') \in Nat
    BY <1>3, <2>2, LenProperties
  <2>4. Len(batch') <= Len(now)
    <3>1. Len(batch') # 0 => Len(batch') \in 1 .. Len(batch')
      BY <2>3
    <3> QED BY <1>4, <2>3, <3>1
  <2>5. Len(now) <= Len(batch')
    <3>1. Len(now) # 0 => Len(now) \in 1 .. Len(now)
      BY <1>4
    <3> QED BY <1>4, <2>3, <3>1
  <2>6. Len(batch') \in Nat /\ Len(now) \in Nat
    BY <1>4, <2>3
  <2>7. Len(batch') = Len(now)
    BY <2>4, <2>5, <2>6
  <2> QED BY <2>2, <2>7
<1>7. \A i \in 1 .. Len(batch') : batch'[i].who = now[i]
  BY <1>3, <1>5, <1>6
<1>8. DistinctWho(batch')
  BY <1>2, <1>6, <1>7 DEF Distinct, DistinctWho
<1>9. \A x : Reports(batch', x) <=> Contains(now, x)
  BY <1>6, <1>7 DEF Reports, Contains
<1>10. now = <<>> <=> batch' = <<>>
  BY <1>2, <1>6, EmptySeq
<1>11. \A x : Reports(batch', x) <=> Contains(ready, x) /\ x \in Pending
  BY <1>2, <1>9
<1>12. \/ pc' = "wait" /\ batch' = <<>>
       \/ pc' = "batch" /\ batch' # <<>>
  BY <1>3, <1>10
<1> QED BY <1>3, <1>6, <1>8, <1>11, <1>12

LEMMA EpollKeeps ==
  ASSUME IntactInv, epoll_wait
  PROVE  IntactInv'
<1>1. UNCHANGED <<cur, offset, mem, buffer_len, fds, interest, backlog, line, inq, outq, ask,
                  unsent, got>>
  BY DEF epoll_wait, client
<1>2. ready' \in Seq(Sockets) /\ Distinct(ready') /\ \A x : ~Contains(ready', x)
  BY EpollFacts, EmptySeq DEF Distinct, Contains
<1>3. WebTypeOK'
  BY <1>1, <1>2, EpollFacts DEF IntactInv, WebTypeOK, Events, Sockets
<1>4. BatchShape'
  BY <1>1, EpollFacts DEF IntactInv, Owned, BatchShape, ListsShape, Handling, Body
<1>5. ListsShape'
  BY <1>1, <1>2 DEF IntactInv, ListsShape
<1> QED BY <1>1, <1>3, <1>4, <1>5 DEF IntactInv, Owned

(* A connection is accepted, or lost in a fault, or stays where it is.     *)
LEMMA AcceptFacts ==
  ASSUME IntactInv, AcceptClient
  PROVE  /\ NextEvent /\ batch[1].who = Listener /\ pc = "batch"
         /\ UNCHANGED <<offset, buffer_len, inq, outq, ask, unsent, got, cut, answers, alone>>
         /\ backlog \in Seq(Clients) /\ backlog # <<>> /\ Head(backlog) \in Clients
         /\ Head(backlog) \notin fds /\ line[Head(backlog)] \notin {"none", "closed"}
         /\ \/ /\ backlog' = Tail(backlog) /\ fds' = fds \cup {Head(backlog)}
               /\ mem' = mem \cup {Head(backlog)} /\ interest' = interest \cup {Head(backlog)}
               /\ ready' = IF Readable(Head(backlog)) THEN Enqueue(ready, Head(backlog)) ELSE ready
               /\ UNCHANGED line
            \/ UNCHANGED <<backlog, fds, line, mem, interest, ready>>
            \/ /\ backlog' = Tail(backlog)
               /\ line' = [line EXCEPT ![Head(backlog)] = "closed"]
               /\ UNCHANGED <<fds, mem, interest, ready>>
<1>1. backlog \in Seq(Clients) /\ backlog # <<>> /\ Distinct(backlog)
  BY DEF AcceptClient, IntactInv, WebTypeOK, ListsShape
<1>2. Head(backlog) \in Clients /\ Contains(backlog, Head(backlog))
  BY <1>1, TailFacts, TailContains
<1>3. Head(backlog) \notin fds /\ line[Head(backlog)] \notin {"none", "closed"}
  BY <1>2 DEF IntactInv, ListsShape
<1> QED BY <1>1, <1>2, <1>3 DEF AcceptClient, CloseAfterFault, client

LEMMA AcceptKeeps ==
  ASSUME IntactInv, AcceptClient
  PROVE  IntactInv'
<1> DEFINE c == Head(backlog)
<1>1. /\ backlog \in Seq(Clients) /\ backlog # <<>> /\ c \in Clients
      /\ Distinct(backlog) /\ line \in [Clients -> Lines]
      /\ ready \in Seq(Sockets) /\ Distinct(ready) /\ c \in Sockets
  BY AcceptFacts DEF IntactInv, WebTypeOK, Sockets, ListsShape, Lines
<1>2. /\ batch' \in Seq(Events) /\ DistinctWho(batch')
      /\ \A x : Reports(batch', x) <=> Reports(batch, x) /\ x # Listener
      /\ cur' = NoOne
      /\ \/ pc' = "wait" /\ batch' = <<>>
         \/ pc' = "batch" /\ batch' # <<>>
  BY AcceptFacts, AtHand, NextEventFacts DEF IntactInv, BatchShape
<1>3. /\ Tail(backlog) \in Seq(Clients) /\ Distinct(Tail(backlog))
      /\ \A x : Contains(Tail(backlog), x) <=> Contains(backlog, x) /\ x # c
  BY <1>1, TailFacts, TailContains
<1>4. /\ Enqueue(ready, c) \in Seq(Sockets) /\ Distinct(Enqueue(ready, c))
      /\ \A y : Contains(Enqueue(ready, c), y) <=> Contains(ready, y) \/ y = c
  BY <1>1, EnqueueFacts, ZenonT(60)
<1>5. UNCHANGED <<offset, buffer_len, inq, outq, ask, unsent, got>>
  BY AcceptFacts
<1>6. CASE /\ backlog' = Tail(backlog) /\ fds' = fds \cup {c} /\ mem' = mem \cup {c}
           /\ interest' = interest \cup {c}
           /\ ready' = IF Readable(c) THEN Enqueue(ready, c) ELSE ready
           /\ UNCHANGED line
  <2>1. /\ ready' \in Seq(Sockets) /\ Distinct(ready')
        /\ \A y : Contains(ready', y) => Contains(ready, y) \/ y = c
    BY <1>1, <1>4, <1>6
  <2>2. WebTypeOK'
    BY <1>1, <1>2, <1>3, <1>5, <1>6, <2>1 DEF IntactInv, WebTypeOK, Events, Sockets
  <2>3. Owned' /\ BatchShape'
    BY <1>2, <1>6 DEF IntactInv, Owned, BatchShape, Handling, Body
  <2>4. ListsShape'
    BY <1>1, <1>3, <1>6, <2>1, AcceptFacts DEF IntactInv, ListsShape
  <2> QED BY <2>2, <2>3, <2>4 DEF IntactInv
<1>7. CASE UNCHANGED <<backlog, fds, line, mem, interest, ready>>
  <2>1. WebTypeOK'
    BY <1>2, <1>5, <1>7 DEF IntactInv, WebTypeOK, Events, Sockets
  <2>2. Owned' /\ BatchShape' /\ ListsShape'
    BY <1>2, <1>7 DEF IntactInv, Owned, BatchShape, ListsShape, Handling, Body
  <2> QED BY <2>1, <2>2 DEF IntactInv
<1>8. CASE /\ backlog' = Tail(backlog) /\ line' = [line EXCEPT ![c] = "closed"]
           /\ UNCHANGED <<fds, mem, interest, ready>>
  <2>1. WebTypeOK'
    BY <1>1, <1>2, <1>3, <1>5, <1>8 DEF IntactInv, WebTypeOK, Events, Sockets, Lines
  <2>2. Owned' /\ BatchShape'
    BY <1>2, <1>8 DEF IntactInv, Owned, BatchShape, Handling, Body
  <2>3. ListsShape'
    BY <1>1, <1>3, <1>8, AcceptFacts DEF IntactInv, ListsShape
  <2> QED BY <2>1, <2>2, <2>3 DEF IntactInv
<1> QED BY <1>6, <1>7, <1>8, AcceptFacts

LEMMA ClientEventKeeps ==
  ASSUME IntactInv, ClientEvent
  PROVE  IntactInv'
<1> DEFINE c == batch[1].who
<1>1. pc = "batch" /\ c # Listener
  BY DEF ClientEvent
<1>2. c \in mem /\ c \in Clients
  BY <1>1, AtHand DEF Sockets
<1>3. CASE CloseClient(c) /\ UNCHANGED <<offset, buffer_len, backlog, client>>
  BY <1>1, <1>2, <1>3, CloseKeeps DEF client
<1>4. CASE /\ pc' = "recv" /\ cur' = c
           /\ UNCHANGED <<batch, offset, mem, buffer_len, kernel, client>>
  <2>1. WebTypeOK'
    BY <1>2, <1>4 DEF IntactInv, WebTypeOK, kernel, client
  <2>2. BatchShape'
    BY <1>1, <1>2, <1>4 DEF IntactInv, BatchShape, Handling
  <2>3. Owned' /\ ListsShape'
    BY <1>4 DEF IntactInv, Owned, ListsShape, kernel
  <2> QED BY <2>1, <2>2, <2>3 DEF IntactInv
<1> QED BY <1>3, <1>4 DEF ClientEvent
(* recv: what is taken from the kernel fits the buffer.                    *)
LEMMA RecvFacts ==
  ASSUME IntactInv, RecvData
  PROVE  /\ cur \in Clients /\ pc = "recv" /\ pc' \in {"header", "overflow", "recv"}
         /\ buffer_len' \in [Clients -> 0 .. BufSize] /\ inq' \in [Clients -> Nat]
         /\ \A c \in Clients : buffer_len'[c] + inq'[c] = buffer_len[c] + inq[c]
         /\ pc' = AfterRecv(buffer_len'[cur])
         /\ UNCHANGED <<cur, batch, offset, mem, fds, interest, ready, backlog, line, outq, ask,
                        unsent, got, answers>>
<1>1. /\ cur \in Clients /\ pc = "recv" /\ BufSize \in Nat
      /\ buffer_len \in [Clients -> 0 .. BufSize] /\ inq \in [Clients -> Nat]
  BY AtHand, WebAssumption DEF RecvData, IntactInv, WebTypeOK, Handling
<1> DEFINE n == Least(inq[cur], Room(cur))
<1>2. n \in Nat /\ n <= inq[cur] /\ buffer_len[cur] + n \in 0 .. BufSize
  BY <1>1 DEF Least, Room
<1>3. /\ inq' = [inq EXCEPT ![cur] = @ - n] /\ buffer_len' = [buffer_len EXCEPT ![cur] = @ + n]
      /\ pc' = AfterRecv(buffer_len[cur] + n)
      /\ UNCHANGED <<cur, batch, offset, mem, fds, interest, ready, backlog, line, outq, ask,
                     unsent, got, answers>>
  BY DEF RecvData, client
<1> HIDE DEF n
<1>4. buffer_len' \in [Clients -> 0 .. BufSize] /\ inq' \in [Clients -> Nat]
  BY <1>1, <1>2, <1>3
<1>5. \A c \in Clients : buffer_len'[c] + inq'[c] = buffer_len[c] + inq[c]
  BY <1>1, <1>2, <1>3
<1>6. buffer_len'[cur] = buffer_len[cur] + n
  BY <1>1, <1>3
<1>7. pc' \in {"header", "overflow", "recv"}
  BY <1>3 DEF AfterRecv
<1> QED BY <1>1, <1>3, <1>4, <1>5, <1>6, <1>7

LEMMA RecvDataKeeps ==
  ASSUME IntactInv, RecvData
  PROVE  IntactInv'
<1>1. WebTypeOK'
  BY RecvFacts DEF IntactInv, WebTypeOK
<1> QED BY <1>1, RecvFacts, HandlerKeeps DEF Handling

LEMMA RecvEndsKeeps ==
  ASSUME IntactInv, RecvEnds
  PROVE  IntactInv'
<1>1. pc \in Handling /\ cur \in Clients /\ batch[1].who = cur
  BY AtHand DEF RecvEnds, Handling
<1>2. UNCHANGED <<offset, buffer_len, backlog, ask, unsent, got>>
  BY DEF RecvEnds, client
<1>3. CASE CloseClient(cur)
  BY <1>1, <1>2, <1>3, CloseKeeps
<1>4. CASE NextEvent /\ UNCHANGED <<mem, fds, interest, ready, line, inq, outq>>
  <2>1. /\ batch' \in Seq(Events) /\ cur' = NoOne /\ pc' \in {"wait", "batch"}
    BY <1>1, <1>4, AtHand, NextEventFacts DEF IntactInv, BatchShape
  <2>2. WebTypeOK'
    BY <1>2, <1>4, <2>1 DEF IntactInv, WebTypeOK, Events, Sockets
  <2> QED BY <1>1, <1>2, <1>4, <2>2, EventDone
<1> QED BY <1>3, <1>4 DEF RecvEnds

(* Header and body.                                                        *)
LEMMA SendKeeps ==
  ASSUME IntactInv, pc \in Handling, NEW units \in Nat, NEW label \in Handling,
         Send(cur, label, units), offset' \in 0 .. BodyLen,
         UNCHANGED <<cur, batch, mem, buffer_len, fds, interest, ready, backlog, inq, ask,
                     unsent, got>>
  PROVE  IntactInv'
<1>1. cur \in Clients /\ WebTypeOK /\ line \in [Clients -> Lines]
  BY AtHand DEF IntactInv, WebTypeOK, Lines
<1>2. /\ outq' \in [Clients -> 0 .. SndBuf] /\ line' \in [Clients -> Lines]
      /\ pc' \in {label, "dead"}
      /\ line' = line \/ line' = [line EXCEPT ![cur] = "broken"]
  BY <1>1, SendFacts
<1>3. WebTypeOK'
  BY <1>2 DEF IntactInv, WebTypeOK, Lines, Handling, Body
<1>4. \A d \in Clients : line[d] \notin {"none", "closed"} => line'[d] \notin {"none", "closed"}
  BY <1>1, <1>2
<1>5. pc' \in Handling \cup {"dead"}
  BY <1>2
<1> QED BY <1>3, <1>4, <1>5, HandlerKeeps

LEMMA SendHeaderKeeps ==
  ASSUME IntactInv, SendHeader
  PROVE  IntactInv'
<1>1. pc \in Handling /\ BodyPart \in Handling /\ 0 \in Nat /\ offset' \in 0 .. BodyLen
  BY WebAssumption DEF SendHeader, BodyPart, Handling, Body
<1>2. /\ Send(cur, BodyPart, 0)
      /\ UNCHANGED <<cur, batch, mem, buffer_len, fds, interest, ready, backlog, inq, ask,
                     unsent, got>>
  BY DEF SendHeader, client
<1> QED BY <1>1, <1>2, SendKeeps

LEMMA SendBodyKeeps ==
  ASSUME IntactInv, SendBody
  PROVE  IntactInv'
<1> DEFINE units == IF pc = "listing" THEN BodyLen ELSE 1
<1>1. pc \in Handling /\ "close" \in Handling /\ units \in Nat /\ offset' \in 0 .. BodyLen
  BY WebAssumption DEF SendBody, Handling, Body, IntactInv, WebTypeOK
<1>2. /\ Send(cur, "close", units)
      /\ UNCHANGED <<cur, batch, mem, buffer_len, fds, interest, ready, backlog, inq, ask,
                     unsent, got>>
  BY DEF SendBody, client
<1> HIDE DEF units
<1> QED BY <1>1, <1>2, SendKeeps

LEMMA SendFileKeeps ==
  ASSUME IntactInv, SendFile
  PROVE  IntactInv'
<1>1. /\ pc \in Handling /\ cur \in Clients /\ line \in [Clients -> Lines]
      /\ offset \in 0 .. BodyLen /\ outq[cur] \in 0 .. SndBuf /\ BodyLen \in Nat /\ SndBuf \in Nat
  BY AtHand, WebAssumption DEF SendFile, Handling, Body, IntactInv, WebTypeOK, Lines
<1>2. UNCHANGED <<cur, batch, mem, buffer_len, fds, interest, ready, backlog, inq, ask,
                  unsent, got>>
  BY DEF SendFile, client
<1>3. CASE /\ Send(cur, "sendfile", BodyLen - offset)
           /\ offset' = offset + Least(BodyLen - offset, SndBuf - outq[cur])
  <2>1. BodyLen - offset \in Nat /\ offset' \in 0 .. BodyLen /\ "sendfile" \in Handling
    BY <1>1, <1>3 DEF Least, Handling, Body
  <2> QED BY <1>1, <1>2, <1>3, <2>1, SendKeeps
<1>4. CASE /\ pc' = "close" /\ UNCHANGED <<offset, outq>>
           /\ line' = line \/ line' = [line EXCEPT ![cur] = "broken"]
  <2>1. WebTypeOK'
    BY <1>1, <1>2, <1>4 DEF IntactInv, WebTypeOK, Lines
  <2>2. \A d \in Clients : line[d] \notin {"none", "closed"} => line'[d] \notin {"none", "closed"}
    BY <1>1, <1>4
  <2>3. pc' \in Handling
    BY <1>4 DEF Handling, Body
  <2> QED BY <1>1, <1>2, <2>1, <2>2, <2>3, HandlerKeeps
<1> QED BY <1>3, <1>4 DEF SendFile

LEMMA AnswerDoneKeeps ==
  ASSUME IntactInv, AnswerDone
  PROVE  IntactInv'
<1>1. pc \in Handling /\ cur \in Clients /\ batch[1].who = cur
  BY AtHand DEF AnswerDone, Handling, Body
<1> QED BY <1>1, CloseKeeps DEF AnswerDone, CloseAnswered, client

LEMMA NextIntact == IntactInv /\ [Next]_vars => IntactInv'
<1> SUFFICES ASSUME IntactInv, [Next]_vars PROVE IntactInv'
  OBVIOUS
<1>1. CASE ServerStep
  BY <1>1, EpollKeeps, AcceptKeeps, ClientEventKeeps, RecvDataKeeps, RecvEndsKeeps,
     SendHeaderKeeps, SendBodyKeeps, SendFileKeeps, AnswerDoneKeeps DEF ServerStep
<1>2. ASSUME NEW c \in Clients, Connect(c) \/ SendPiece(c) \/ Hangup(c) \/ ReadAnswer(c)
      PROVE  IntactInv'
  BY <1>2, ConnectKeeps, SendPieceKeeps, HangupKeeps, ReadAnswerKeeps
<1>3. CASE TruncateFile \/ UNCHANGED vars
  <2>1. UNCHANGED <<server, kernel, client>>
    BY <1>3 DEF TruncateFile, vars
  <2> QED BY <2>1 DEF IntactInv, WebTypeOK, Owned, BatchShape, ListsShape, server, kernel, client
<1> QED BY <1>1, <1>2, <1>3 DEF Next

(* However the clients behave, the server keeps for each open socket its   *)
(* registration and its data, overflows no buffer, and handles no event of *)
(* a client whose data was freed.                                          *)
THEOREM ClientsIntactHolds == WebSpec => []ClientsIntact
<1>1. IntactInv => ClientsIntact
  <2> SUFFICES ASSUME IntactInv PROVE ClientsIntact
    OBVIOUS
  <2>1. pc \notin {"wait", "batch", "dead"} => cur \in mem
    BY DEF IntactInv, WebTypeOK, BatchShape, Handling, Body
  <2>2. batch \in Seq(Events)
    BY DEF IntactInv, WebTypeOK, Events, Sockets
  <2>3. ASSUME NEW j \in DOMAIN batch, batch[j].who # Listener PROVE batch[j].who \in mem
    <3>1. j \in 1 .. Len(batch) /\ batch[j] \in Events
      BY <2>2, LenProperties, ElementOfSeq
    <3>2. batch[j].who \in Clients /\ Reports(batch, batch[j].who)
      BY <2>3, <3>1 DEF Events, Sockets, Reports
    <3> QED BY <3>2 DEF IntactInv, BatchShape
  <2> QED BY <2>1, <2>3 DEF IntactInv, Owned, ClientsIntact
<1> QED BY <1>1, InitIntact, NextIntact, PTL DEF WebSpec
-----------------------------------------------------------------------------
(* No edge is lost.  A step that leaves the batch alone, takes nobody off  *)
(* the ready list and makes nobody readable but x, who is on the list, in  *)
(* the batch or not registered.                                            *)
LEMMA EdgesStay ==
  ASSUME EdgeInv, UNCHANGED <<batch, interest>>,
         \A c \in Clients : Contains(ready, c) => Contains(ready', c),
         NEW x, \/ Contains(ready', x) \/ Reports(batch, x) \/ x \notin interest,
         \A c \in Clients \ {x} : line'[c] = line[c] /\ inq'[c] = inq[c]
  PROVE  EdgeKept'
<1>1. \A c \in Clients \ {x} : Readable(c)' = Readable(c)
  BY DEF Readable, Hup
<1> QED BY <1>1 DEF EdgeInv, EdgeKept

LEMMA ClientEdges ==
  ASSUME EdgeInv, NEW c \in Clients, Connect(c) \/ SendPiece(c) \/ Hangup(c) \/ ReadAnswer(c)
  PROVE  EdgeKept'
<1>1. /\ ready \in Seq(Sockets) /\ c \in Sockets /\ Listener \in Sockets
      /\ line \in [Clients -> Lines] /\ inq \in [Clients -> Nat]
  BY DEF EdgeInv, IntactInv, WebTypeOK, Sockets, Lines
<1>2. /\ \A y : Contains(Enqueue(ready, Listener), y) <=> Contains(ready, y) \/ y = Listener
      /\ \A y : Contains(Enqueue(ready, c), y) <=> Contains(ready, y) \/ y = c
  BY <1>1, EnqueueFacts
<1>3. CASE Connect(c)
  <2>1. c \notin interest
    BY <1>3 DEF Connect, EdgeInv, IntactInv, Owned, ListsShape
  <2> QED BY <1>1, <1>2, <1>3, <2>1, EdgesStay DEF Connect, server
<1>4. CASE SendPiece(c) \/ Hangup(c)
  <2>1. /\ Edge(c) /\ UNCHANGED <<batch, interest>>
        /\ \A d \in Clients \ {c} : line'[d] = line[d] /\ inq'[d] = inq[d]
    BY <1>1, <1>4 DEF SendPiece, Hangup, server
  <2>2. \A d \in Clients : Contains(ready, d) => Contains(ready', d)
    BY <1>2, <2>1 DEF Edge
  <2>3. Contains(ready', c) \/ c \notin interest
    BY <1>2, <2>1 DEF Edge
  <2> QED BY <2>1, <2>2, <2>3, EdgesStay
<1>5. CASE ReadAnswer(c)
  BY <1>5, EdgesStay, WebAssumption DEF ReadAnswer, server, EdgeInv, IntactInv, WebTypeOK
<1> QED BY <1>3, <1>4, <1>5

LEMMA EpollEdges ==
  ASSUME EdgeInv, epoll_wait
  PROVE  EdgeKept'
<1>1. batch = <<>> /\ UNCHANGED <<interest, line, inq>>
  BY DEF epoll_wait, EdgeInv, IntactInv, BatchShape
<1>2. \A c \in Clients : ~Reports(batch, c)
  BY <1>1, EmptySeq DEF Reports
<1>3. \A c \in Clients : Readable(c)' = Readable(c)
  BY <1>1 DEF Readable, Hup
<1>4. \A c \in Clients : Readable(c) => c \in Pending
  BY DEF Pending
<1> QED BY <1>1, <1>2, <1>3, <1>4, EpollFacts DEF EdgeInv, EdgeKept

LEMMA AcceptEdges ==
  ASSUME EdgeInv, AcceptClient
  PROVE  EdgeKept'
<1> DEFINE c == Head(backlog)
<1>1. IntactInv /\ c \in Clients /\ c \notin interest
  BY AcceptFacts DEF EdgeInv, IntactInv, Owned
<1>2. \A x \in Clients : Reports(batch, x) => Reports(batch', x)
  BY <1>1, AcceptFacts, AtHand, NextEventFacts, WebAssumption DEF IntactInv, BatchShape
<1>3. ready \in Seq(Sockets) /\ c \in Sockets /\ line \in [Clients -> Lines]
  BY <1>1 DEF IntactInv, WebTypeOK, Sockets, Lines
<1>4. \A y : Contains(Enqueue(ready, c), y) <=> Contains(ready, y) \/ y = c
  <2>1. ready \in Seq(Sockets) /\ c \in Sockets
    BY <1>3
  <2> HIDE DEF c
  <2> QED BY <2>1, EnqueueFacts
<1>5. UNCHANGED inq
  BY <1>1, AcceptFacts
<1>6. CASE /\ interest' = interest \cup {c} /\ UNCHANGED line
           /\ ready' = IF Readable(c) THEN Enqueue(ready, c) ELSE ready
  <2>1. \A x \in Clients : Readable(x)' = Readable(x)
    BY <1>5, <1>6 DEF Readable, Hup
  <2> QED BY <1>2, <1>4, <1>6, <2>1 DEF EdgeInv, EdgeKept
<1>7. CASE UNCHANGED <<interest, line, ready>>
  <2>1. \A x \in Clients : Readable(x)' = Readable(x)
    BY <1>5, <1>7 DEF Readable, Hup
  <2> QED BY <1>2, <1>7, <2>1 DEF EdgeInv, EdgeKept
<1>8. CASE line' = [line EXCEPT ![c] = "closed"] /\ UNCHANGED <<interest, ready>>
  <2>1. \A x \in Clients \ {c} : Readable(x)' = Readable(x)
    BY <1>3, <1>5, <1>8 DEF Readable, Hup
  <2> QED BY <1>1, <1>2, <1>8, <2>1 DEF EdgeInv, EdgeKept
<1> QED BY <1>1, <1>6, <1>7, <1>8, AcceptFacts

(* The client that is closed needs no edge any more; the others keep       *)
(* theirs.                                                                 *)
LEMMA CloseEdges ==
  ASSUME EdgeInv, pc \in Handling \cup {"batch"}, NEW c \in Clients, batch[1].who = c,
         CloseClient(c)
  PROVE  EdgeKept'
<1>1. /\ interest' = interest \ {c} /\ ready' = Only(ready, Sockets \ {c})
      /\ line' = [line EXCEPT ![c] = "closed"] /\ inq' = [inq EXCEPT ![c] = 0]
      /\ NextEvent /\ IntactInv
  BY DEF CloseClient, Sockets, EdgeInv
<1>2. ready \in Seq(Sockets) /\ line \in [Clients -> Lines] /\ inq \in [Clients -> Nat]
  BY <1>1 DEF IntactInv, WebTypeOK, Sockets, Lines
<1>3. \A x : Contains(ready', x) <=> Contains(ready, x) /\ x \in Sockets \ {c}
  BY <1>1, <1>2, OnlyContains
<1>4. \A x : Reports(batch', x) <=> Reports(batch, x) /\ x # c
  BY <1>1, AtHand, NextEventFacts DEF IntactInv, BatchShape
<1>5. \A x \in Clients \ {c} : Readable(x)' = Readable(x)
  BY <1>1, <1>2 DEF Readable, Hup
<1> QED BY <1>1, <1>3, <1>4, <1>5 DEF EdgeInv, EdgeKept, Sockets

(* The server leaves a client that it does not close only when there is    *)
(* nothing left to receive.                                                *)
LEMMA RecvEndsEdges ==
  ASSUME EdgeInv, RecvEnds
  PROVE  EdgeKept'
<1>1. /\ IntactInv /\ pc \in Handling /\ cur \in Clients /\ batch[1].who = cur
      /\ inq \in [Clients -> Nat]
  BY AtHand DEF RecvEnds, Handling, EdgeInv, IntactInv, WebTypeOK
<1>2. CASE CloseClient(cur)
  BY <1>1, <1>2, CloseEdges
<1>3. CASE ~Hup(cur) /\ NextEvent /\ UNCHANGED <<interest, ready, line, inq>>
  <2>1. ~Readable(cur)
    BY <1>1, <1>3 DEF RecvEnds, Drained, Readable
  <2>2. \A x : Reports(batch', x) <=> Reports(batch, x) /\ x # cur
    BY <1>1, <1>3, AtHand, NextEventFacts DEF IntactInv, BatchShape
  <2>3. \A x \in Clients : Readable(x)' = Readable(x)
    BY <1>3 DEF Readable, Hup
  <2> QED BY <1>3, <2>1, <2>2, <2>3 DEF EdgeInv, EdgeKept
<1> QED BY <1>2, <1>3 DEF RecvEnds

LEMMA HandlerEdges ==
  ASSUME EdgeInv, RecvData \/ SendHeader \/ SendBody \/ SendFile
  PROVE  EdgeKept'
<1>1. /\ IntactInv /\ WebTypeOK /\ pc \in Handling
      /\ line \in [Clients -> Lines] /\ inq \in [Clients -> Nat]
  BY DEF EdgeInv, IntactInv, WebTypeOK, Lines, RecvData, SendHeader, SendBody, SendFile, Handling,
         Body
<1>2. cur \in Clients /\ Reports(batch, cur)
  BY <1>1, AtHand
<1>3. UNCHANGED <<batch, interest, ready>>
  BY DEF RecvData, SendHeader, SendBody, SendFile
<1>4. \A d \in Clients \ {cur} : line'[d] = line[d] /\ inq'[d] = inq[d]
  <2>1. CASE RecvData
    BY <1>1, <2>1 DEF RecvData
  <2>2. CASE SendHeader
    BY <1>1, <2>2 DEF SendHeader, Send
  <2>3. CASE SendBody
    BY <1>1, <2>3 DEF SendBody, Send
  <2>4. CASE SendFile
    BY <1>1, <2>4 DEF SendFile, Send
  <2> QED BY <2>1, <2>2, <2>3, <2>4
<1> QED BY <1>2, <1>3, <1>4, EdgesStay

LEMMA NextEdges == EdgeInv /\ [Next]_vars => EdgeInv'
<1> SUFFICES ASSUME EdgeInv, [Next]_vars PROVE EdgeKept'
  BY NextIntact DEF EdgeInv
<1>1. CASE epoll_wait
  BY <1>1, EpollEdges
<1>2. CASE AcceptClient
  BY <1>2, AcceptEdges
<1>3. CASE ClientEvent
  <2> DEFINE c == batch[1].who
  <2>1. pc = "batch" /\ c # Listener /\ IntactInv
    BY <1>3 DEF ClientEvent, EdgeInv
  <2>2. c \in Clients
    BY <2>1, AtHand DEF Sockets
  <2>3. CASE CloseClient(c)
    BY <2>1, <2>2, <2>3, CloseEdges
  <2>4. CASE UNCHANGED <<batch, kernel>>
    BY <2>4 DEF EdgeInv, EdgeKept, kernel, Readable, Hup
  <2> QED BY <1>3, <2>3, <2>4 DEF ClientEvent
<1>4. CASE RecvData \/ SendHeader \/ SendBody \/ SendFile
  BY <1>4, HandlerEdges
<1>5. CASE RecvEnds
  BY <1>5, RecvEndsEdges
<1>6. CASE AnswerDone
  <2>1. pc \in Handling /\ cur \in Clients /\ batch[1].who = cur
    BY <1>6, AtHand DEF AnswerDone, Handling, Body, EdgeInv
  <2> QED BY <1>6, <2>1, CloseEdges DEF AnswerDone, CloseAnswered
<1>7. ASSUME NEW c \in Clients, Connect(c) \/ SendPiece(c) \/ Hangup(c) \/ ReadAnswer(c)
      PROVE  EdgeKept'
  BY <1>7, ClientEdges
<1>8. CASE TruncateFile \/ UNCHANGED vars
  <2>1. UNCHANGED <<batch, kernel>>
    BY <1>8 DEF TruncateFile, vars, server
  <2> QED BY <2>1 DEF EdgeInv, EdgeKept, kernel, Readable, Hup
<1> QED BY <1>1, <1>2, <1>3, <1>4, <1>5, <1>6, <1>7, <1>8 DEF Next, ServerStep

(* Edge-triggered epoll is used rightly: a registered client with          *)
(* something to receive is on the ready list or in the batch, whenever its *)
(* data or its hangup came.                                                *)
THEOREM NoLostEdgeHolds == WebSpec => []NoLostEdge
<1>1. Init => EdgeInv
  BY InitIntact DEF Init, EdgeInv, EdgeKept
<1>2. EdgeInv => NoLostEdge
  <2> SUFFICES ASSUME EdgeInv, NEW c \in interest, Readable(c)
               PROVE  Contains(ready, c) \/ \E j \in DOMAIN batch : batch[j].who = c
    BY DEF NoLostEdge
  <2>1. c \in Clients /\ DOMAIN batch = 1 .. Len(batch)
    BY LenProperties DEF EdgeInv, IntactInv, WebTypeOK
  <2> QED BY <2>1 DEF EdgeInv, EdgeKept, Reports
<1> QED BY <1>1, <1>2, NextEdges, PTL DEF WebSpec
-----------------------------------------------------------------------------
(* One answer, and the right one.  The types the arithmetic rests on:      *)
LEMMA AnswerTypes ==
  ASSUME WebTypeOK
  PROVE  /\ \A c \in Clients : /\ buffer_len[c] \in 0 .. BufSize /\ inq[c] \in Nat
                               /\ unsent[c] \in Nat /\ got[c] \in Nat /\ outq[c] \in 0 .. SndBuf
                               /\ outq[c] \in Nat /\ buffer_len[c] \in Nat
                               /\ ask[c].need \in Nat \ {0} /\ ask[c].total \in Nat
                               /\ ask[c].kind \in {"file", "listing", "refused"}
         /\ offset \in 0 .. BodyLen /\ BufSize \in Nat /\ SndBuf \in Nat /\ BodyLen \in Nat
<1>1. \A c \in Clients : ask[c] \in Request
  BY DEF WebTypeOK
<1>2. \A c \in Clients : /\ ask[c].need \in Nat \ {0} /\ ask[c].total \in Nat
                         /\ ask[c].kind \in {"file", "listing", "refused"}
  BY <1>1 DEF Request
<1>3. BufSize \in Nat /\ SndBuf \in Nat /\ BodyLen \in Nat
  BY WebAssumption
<1>4. \A c \in Clients : /\ buffer_len[c] \in 0 .. BufSize /\ inq[c] \in Nat
                         /\ unsent[c] \in Nat /\ got[c] \in Nat /\ outq[c] \in 0 .. SndBuf
  BY DEF WebTypeOK
<1>5. \A c \in Clients : outq[c] \in Nat /\ buffer_len[c] \in Nat
  BY <1>3, <1>4
<1> QED BY <1>2, <1>3, <1>4, <1>5 DEF WebTypeOK

(* AnswersRight, for one client.                                           *)
Limit(c) == IF ask[c].kind = "refused" \/ ask[c].need > BufSize THEN 1 ELSE BodyLen
RightFor(c) ==
  /\ Len(answers[c]) = 1
  /\ IF ask[c].need > BufSize
     THEN answers[c] = <<"400">> /\ ask[c].total - unsent[c] >= BufSize
     ELSE answers[c] # <<"400">> /\ ask[c].total - unsent[c] >= ask[c].need
  /\ got[c] + outq[c] <= Limit(c)

(* A step that sends no header and no unit leaves the answers right.       *)
LEMMA AnswersStay ==
  ASSUME AnswerInv, WebTypeOK', UNCHANGED <<answers, ask>>,
         \A c \in Clients : unsent'[c] <= unsent[c] /\ got'[c] + outq'[c] <= got[c] + outq[c]
  PROVE  /\ AnswersRight'
         /\ \A c \in Clients : answers'[c] = <<>> => got'[c] = 0 /\ outq'[c] = 0
<1>1. WebTypeOK
  BY DEF AnswerInv, IntactInv
<1> SUFFICES ASSUME NEW c \in Clients
             PROVE  /\ answers'[c] = <<>> => got'[c] = 0 /\ outq'[c] = 0
                    /\ answers'[c] # <<>> => RightFor(c)'
  BY DEF AnswersRight, RightFor, Limit
<1>2. /\ unsent[c] \in Nat /\ got[c] \in Nat /\ outq[c] \in Nat /\ ask[c].need \in Nat
      /\ ask[c].total \in Nat /\ BufSize \in Nat /\ BodyLen \in Nat
  BY <1>1, AnswerTypes
<1>3. unsent'[c] \in Nat /\ got'[c] \in Nat /\ outq'[c] \in Nat
  BY WebAssumption DEF WebTypeOK
<1>4. CASE answers[c] = <<>>
  BY <1>2, <1>3, <1>4 DEF AnswerInv, AnsweredOnce
<1>5. CASE answers[c] # <<>>
  <2>1. RightFor(c)
    BY <1>5 DEF AnswerInv, AnswersRight, RightFor, Limit
  <2>2. RightFor(c)'
    BY <1>2, <1>3, <2>1 DEF RightFor, Limit
  <2> QED BY <1>5, <2>2
<1> QED BY <1>4, <1>5

(* Outside of the handler, and before the header, all who have an answer   *)
(* are closed.                                                             *)
LEMMA AnsweredClosed ==
  ASSUME AnswerInv, pc \in {"wait", "batch", "recv", "header", "overflow"}, NEW c \in Clients,
         answers[c] # <<>>
  PROVE  line[c] = "closed"
BY DEF AnswerInv, AnsweredOnce, Body

(* A step to a place that is not one of the handler's phases, by which     *)
(* nothing is sent and every answered client is closed or stays at hand.   *)
LEMMA NoPhase ==
  ASSUME AnswerInv, WebTypeOK', UNCHANGED <<answers, ask>>,
         pc' \in {"wait", "batch", "recv", "dead"},
         \A c \in Clients : /\ unsent'[c] <= unsent[c] /\ got'[c] + outq'[c] <= got[c] + outq[c]
                            /\ buffer_len'[c] + inq'[c] + unsent'[c] <=
                               buffer_len[c] + inq[c] + unsent[c]
                            /\ answers[c] # <<>> =>
                                 line'[c] = "closed" \/ (cur' = c /\ pc' = "dead")
  PROVE  Counted' /\ AnsweredOnce' /\ Phases' /\ AnswersRight'
<1>1. /\ AnswersRight'
      /\ \A c \in Clients : answers'[c] = <<>> => got'[c] = 0 /\ outq'[c] = 0
  BY AnswersStay
<1>2. AnsweredOnce'
  BY <1>1 DEF AnswerInv, AnsweredOnce
<1>3. Phases'
  BY DEF Phases
<1>4. Counted'
  <2> SUFFICES ASSUME NEW c \in Clients
               PROVE  buffer_len'[c] + inq'[c] + unsent'[c] <= ask[c].total
    BY DEF Counted
  <2>1. /\ buffer_len[c] \in Nat /\ inq[c] \in Nat /\ unsent[c] \in Nat /\ ask[c].total \in Nat
    BY AnswerTypes DEF AnswerInv, IntactInv
  <2>2. /\ buffer_len'[c] \in Nat /\ inq'[c] \in Nat /\ unsent'[c] \in Nat
    BY WebAssumption DEF WebTypeOK
  <2> QED BY <2>1, <2>2, SMTT(30) DEF AnswerInv, Counted
<1> QED BY <1>1, <1>2, <1>3, <1>4

(* Steps of the clients while the handler stays where it is.               *)
LEMMA SameHandler ==
  ASSUME AnswerInv, IntactInv', UNCHANGED <<answers, ask, pc, cur, offset, buffer_len>>,
         \A c \in Clients : /\ unsent'[c] <= unsent[c] /\ got'[c] + outq'[c] <= got[c] + outq[c]
                            /\ inq'[c] + unsent'[c] <= inq[c] + unsent[c]
                            /\ line[c] = "closed" => line'[c] = "closed"
                            /\ c \in mem /\ line'[c] \in {"up", "fin"} => line[c] \in {"up", "fin"}
  PROVE  Counted' /\ AnsweredOnce' /\ Phases' /\ AnswersRight'
<1>0. WebTypeOK /\ WebTypeOK'
  BY DEF AnswerInv, IntactInv
<1>1. /\ AnswersRight'
      /\ \A c \in Clients : answers'[c] = <<>> => got'[c] = 0 /\ outq'[c] = 0
  BY <1>0, AnswersStay
<1>2. AnsweredOnce'
  BY <1>1 DEF AnswerInv, AnsweredOnce
<1>3. \A c \in Clients : /\ buffer_len[c] \in Nat /\ inq[c] \in Nat /\ unsent[c] \in Nat
                         /\ ask[c].total \in Nat /\ got[c] \in Nat /\ outq[c] \in Nat
  BY <1>0, AnswerTypes
<1>4. \A c \in Clients : /\ inq'[c] \in Nat /\ unsent'[c] \in Nat
                         /\ got'[c] \in Nat /\ outq'[c] \in Nat
  BY <1>0, WebAssumption DEF WebTypeOK
<1>5. Counted'
  BY <1>3, <1>4 DEF AnswerInv, Counted
<1>6. Phases'
  <2>1. CASE pc \notin Handling
    BY <2>1 DEF Phases, Handling, Body
  <2>2. CASE pc \in Handling
    <3>1. cur \in Clients /\ cur \in mem
      BY <2>2, AtHand DEF AnswerInv
    <3>2. Delivers(cur)' => Delivers(cur)
      BY <3>1 DEF Delivers
    <3>3. /\ got[cur] \in Nat /\ outq[cur] \in Nat /\ got'[cur] \in Nat /\ outq'[cur] \in Nat
          /\ got'[cur] + outq'[cur] <= got[cur] + outq[cur] /\ offset \in Nat
      BY <1>0, <1>3, <1>4, <3>1, WebAssumption DEF WebTypeOK
    <3> QED BY <3>2, <3>3 DEF AnswerInv, Phases, Fits
  <2> QED BY <2>1, <2>2
<1> QED BY <1>1, <1>2, <1>5, <1>6
LEMMA ClientAnswers ==
  ASSUME AnswerInv, IntactInv', NEW c \in Clients,
         Connect(c) \/ SendPiece(c) \/ Hangup(c) \/ ReadAnswer(c)
  PROVE  Counted' /\ AnsweredOnce' /\ Phases' /\ AnswersRight'
<1>1. /\ WebTypeOK /\ line \in [Clients -> Lines] /\ inq \in [Clients -> Nat]
      /\ unsent \in [Clients -> Nat] /\ got \in [Clients -> Nat]
      /\ outq \in [Clients -> 0 .. SndBuf] /\ SndBuf \in Nat
  BY WebAssumption DEF AnswerInv, IntactInv, WebTypeOK, Lines
<1>2. UNCHANGED <<answers, ask, pc, cur, offset, buffer_len>>
  BY DEF Connect, SendPiece, Hangup, ReadAnswer, server, client
<1>3. CASE Connect(c)
  <2>1. c \notin mem
    BY <1>3 DEF Connect, AnswerInv, IntactInv, Owned, ListsShape
  <2>2. /\ line[c] = "none" /\ line' = [line EXCEPT ![c] = "up"]
        /\ UNCHANGED <<inq, outq, unsent, got>>
    BY <1>3 DEF Connect, client
  <2> QED BY <1>1, <1>2, <2>1, <2>2, SameHandler
<1>4. CASE SendPiece(c)
  <2>1. /\ unsent' = [unsent EXCEPT ![c] = @ - 1] /\ inq' = [inq EXCEPT ![c] = @ + 1]
        /\ UNCHANGED <<line, outq, got>>
    BY <1>4 DEF SendPiece
  <2> QED BY <1>1, <1>2, <2>1, SameHandler
<1>5. CASE Hangup(c)
  <2>1. /\ UNCHANGED <<inq, outq, unsent, got>>
        /\ \/ line[c] = "up" /\ line' = [line EXCEPT ![c] = "fin"]
           \/ line[c] = "up" /\ line' = [line EXCEPT ![c] = "rst"]
           \/ line[c] = "fin" /\ line' = [line EXCEPT ![c] = "broken"]
    BY <1>5 DEF Hangup, client
  <2> QED BY <1>1, <1>2, <2>1, SameHandler
<1>6. CASE ReadAnswer(c)
  <2>1. /\ outq' = [outq EXCEPT ![c] = @ - 1] /\ got' = [got EXCEPT ![c] = @ + 1]
        /\ UNCHANGED <<line, inq, unsent>>
    BY <1>6 DEF ReadAnswer
  <2> QED BY <1>1, <1>2, <2>1, SameHandler
<1> QED BY <1>3, <1>4, <1>5, <1>6

(* Closing: the client at hand is the only one that may have an answer and *)
(* be open.                                                                *)
LEMMA CloseAnswers ==
  ASSUME AnswerInv, IntactInv', pc \in Handling \cup {"batch"}, NEW c \in Clients,
         batch[1].who = c, CloseClient(c), UNCHANGED <<buffer_len, ask, unsent, got, answers>>
  PROVE  Counted' /\ AnsweredOnce' /\ Phases' /\ AnswersRight'
<1>1. /\ line' = [line EXCEPT ![c] = "closed"] /\ inq' = [inq EXCEPT ![c] = 0]
      /\ outq' = outq \/ outq' = [outq EXCEPT ![c] = 0]
      /\ pc' \in {"wait", "batch"}
  BY DEF CloseClient, NextEvent
<1>2. /\ WebTypeOK /\ WebTypeOK' /\ line \in [Clients -> Lines] /\ inq \in [Clients -> Nat]
      /\ outq \in [Clients -> 0 .. SndBuf] /\ SndBuf \in Nat
  BY WebAssumption DEF AnswerInv, IntactInv, WebTypeOK, Lines
<1>3. \A d \in Clients : /\ buffer_len[d] \in Nat /\ unsent[d] \in Nat /\ got[d] \in Nat
  BY <1>2, AnswerTypes
<1>4. \A d \in Clients : answers[d] # <<>> => d = c \/ line[d] = "closed"
  <2>1. pc \in Handling => cur = c
    BY AtHand DEF AnswerInv
  <2> QED BY <2>1 DEF AnswerInv, AnsweredOnce, Handling, Body
<1> QED BY <1>1, <1>2, <1>3, <1>4, NoPhase

(* Before the header nobody at hand has an answer.                         *)
LEMMA LoopAnswers ==
  ASSUME AnswerInv, IntactInv', pc \in {"wait", "batch", "recv"},
         pc' \in {"wait", "batch", "recv"},
         UNCHANGED <<answers, ask, unsent, got, outq, buffer_len, inq>>,
         \A c \in Clients : line[c] = "closed" => line'[c] = "closed"
  PROVE  Counted' /\ AnsweredOnce' /\ Phases' /\ AnswersRight'
<1>1. WebTypeOK /\ WebTypeOK'
  BY DEF AnswerInv, IntactInv
<1>2. \A c \in Clients : /\ buffer_len[c] \in Nat /\ inq[c] \in Nat /\ unsent[c] \in Nat
                         /\ got[c] \in Nat /\ outq[c] \in Nat
  BY <1>1, AnswerTypes
<1>3. \A c \in Clients : answers[c] # <<>> => line'[c] = "closed"
  BY AnsweredClosed
<1> QED BY <1>1, <1>2, <1>3, NoPhase

LEMMA RecvAnswers ==
  ASSUME AnswerInv, IntactInv', RecvData
  PROVE  Counted' /\ AnsweredOnce' /\ Phases' /\ AnswersRight'
<1>1. /\ IntactInv /\ WebTypeOK /\ WebTypeOK'
  BY DEF AnswerInv, IntactInv
<1>2. /\ cur \in Clients /\ pc = "recv" /\ pc' \in {"header", "overflow", "recv"}
      /\ \A c \in Clients : buffer_len'[c] + inq'[c] = buffer_len[c] + inq[c]
      /\ pc' = AfterRecv(buffer_len'[cur])
      /\ UNCHANGED <<cur, line, outq, ask, unsent, got, answers>>
  BY <1>1, RecvFacts
<1>3. /\ AnswersRight'
      /\ \A c \in Clients : answers'[c] = <<>> => got'[c] = 0 /\ outq'[c] = 0
  <2>1. \A c \in Clients : unsent[c] \in Nat /\ got[c] \in Nat /\ outq[c] \in Nat
    BY <1>1, AnswerTypes
  <2> QED BY <1>1, <1>2, <2>1, AnswersStay
<1>4. AnsweredOnce'
  BY <1>2, <1>3, AnsweredClosed DEF AnswerInv, AnsweredOnce
<1>5. Counted'
  BY <1>2 DEF AnswerInv, Counted
<1>6. Phases'
  <2>1. /\ buffer_len'[cur] \in 0 .. BufSize /\ ask[cur].need \in Nat /\ BufSize \in Nat
    BY <1>1, <1>2, AnswerTypes DEF WebTypeOK
  <2>2. /\ pc' = "header" => buffer_len'[cur] >= ask[cur].need
        /\ pc' = "overflow" => buffer_len'[cur] = BufSize /\ ask[cur].need > BufSize
    BY <1>2, <2>1 DEF AfterRecv
  <2> QED BY <1>2, <2>1, <2>2 DEF Phases, Fits
<1> QED BY <1>3, <1>4, <1>5, <1>6
LEMMA HeaderAnswers ==
  ASSUME AnswerInv, IntactInv', SendHeader
  PROVE  Counted' /\ AnsweredOnce' /\ Phases' /\ AnswersRight'
<1>1. /\ IntactInv /\ WebTypeOK /\ WebTypeOK' /\ pc \in {"header", "overflow"}
      /\ line \in [Clients -> Lines] /\ outq \in [Clients -> 0 .. SndBuf]
      /\ answers \in [Clients -> Seq({"200", "400", "4xx"})]
      /\ offset' = 0 /\ UNCHANGED <<cur, buffer_len, inq, ask, unsent, got>>
  BY DEF AnswerInv, IntactInv, WebTypeOK, Lines, AnsweredOnce, SendHeader, client
<1>2. cur \in Clients /\ cur \in mem
  BY <1>1, AtHand DEF Handling
<1>3. answers[cur] = <<>> /\ got[cur] = 0 /\ outq[cur] = 0
  <2>1. line[cur] # "closed"
    BY <1>1, <1>2 DEF IntactInv, Owned, ListsShape
  <2> QED BY <1>1, <1>2, <2>1, AnsweredClosed DEF AnswerInv, AnsweredOnce
<1>4. /\ \A c \in Clients : /\ buffer_len[c] \in 0 .. BufSize /\ inq[c] \in Nat
                            /\ unsent[c] \in Nat /\ ask[c].need \in Nat \ {0} /\ ask[c].total \in Nat
                            /\ ask[c].kind \in {"file", "listing", "refused"}
                            /\ got[c] \in Nat /\ outq[c] \in Nat
      /\ BufSize \in Nat /\ SndBuf \in Nat /\ BodyLen \in Nat
  BY <1>1, AnswerTypes
<1>5. /\ pc' \in {BodyPart, "dead"}
      /\ \/ ~Delivers(cur) /\ pc' = "dead" /\ UNCHANGED <<line, outq, answers>>
         \/ Delivers(cur) /\ pc' = BodyPart /\ UNCHANGED line
            /\ outq' = [outq EXCEPT ![cur] = @ + Least(0, SndBuf - outq[cur])]
            /\ answers' = [answers EXCEPT ![cur] = Append(@, Status)]
         \/ ~Delivers(cur) /\ pc' = BodyPart /\ UNCHANGED <<outq, answers>>
            /\ line' = [line EXCEPT ![cur] = "broken"]
  BY <1>1, <1>2, SendFacts DEF SendHeader, Delivers
<1>6. UNCHANGED outq
  <2>1. Least(0, SndBuf - outq[cur]) = 0
    BY <1>3, <1>4 DEF Least
  <2>2. outq[cur] + 0 = outq[cur]
    BY <1>3
  <2> QED BY <1>1, <1>2, <1>5, <2>1, <2>2
<1>7. \A d \in Clients \ {cur} : line'[d] = line[d] /\ answers'[d] = answers[d]
  BY <1>1, <1>5
<1>8. /\ pc = "header" => buffer_len[cur] >= ask[cur].need /\ Fits(cur)
      /\ pc = "overflow" => buffer_len[cur] = BufSize /\ ~Fits(cur)
  BY <1>2, <1>4 DEF AnswerInv, Phases, Fits
<1>9. ask[cur].total - unsent[cur] >= buffer_len[cur]
  BY <1>2, <1>4 DEF AnswerInv, Counted
<1>10. CASE Delivers(cur)
  <2>1. answers'[cur] = <<Status>> /\ Status \in {"200", "400", "4xx"}
    BY <1>1, <1>2, <1>3, <1>5, <1>10 DEF Status
  <2>2. Len(answers'[cur]) = 1 /\ answers'[cur] # <<>> /\ answers'[cur] \in Seq({"200", "400", "4xx"})
    BY <2>1
  <2>3. RightFor(cur)'
    <3>1. CASE pc = "header"
      <4>1. Status # "400"
        BY <3>1 DEF Status
      <4> QED BY <1>1, <1>2, <1>3, <1>4, <1>6, <1>8, <1>9, <2>1, <2>2, <3>1, <4>1
              DEF RightFor, Limit, Fits
    <3>2. CASE pc = "overflow"
      <4>1. Status = "400"
        BY <3>2 DEF Status
      <4> QED BY <1>1, <1>2, <1>3, <1>4, <1>6, <1>8, <1>9, <2>1, <2>2, <3>2, <4>1
              DEF RightFor, Limit, Fits
    <3> QED BY <1>1, <3>1, <3>2
  <2>4. \A d \in Clients \ {cur} : answers'[d] # <<>> => RightFor(d)'
    BY <1>1, <1>6, <1>7 DEF AnswerInv, AnswersRight, RightFor, Limit
  <2>5. AnswersRight'
    <3>1. \A d \in Clients : answers'[d] # <<>> => RightFor(d)'
      BY <1>1, <2>3, <2>4
    <3> QED BY <3>1 DEF AnswersRight, RightFor, Limit
  <2>6. answers' \in [Clients -> Seq({"200", "400", "4xx"})]
    BY <1>1, <1>2, <1>5, <1>10, <2>2
  <2>7. pc' \in Body
    BY <1>5, <1>10 DEF BodyPart, Body
  <2>8. AnsweredOnce'
    BY <1>1, <1>6, <1>7, <2>2, <2>6, <2>7, AnsweredClosed DEF AnswerInv, AnsweredOnce
  <2>9. Phases'
    BY <1>1, <1>2, <1>3, <1>4, <1>5, <1>6, <1>8, <1>10, <2>2 DEF Phases, BodyPart, Fits
  <2> QED BY <1>1, <2>5, <2>8, <2>9 DEF AnswerInv, Counted
<1>11. CASE ~Delivers(cur)
  <2>1. UNCHANGED answers /\ \A d \in Clients : line[d] = "closed" => line'[d] = "closed"
    <3>1. line[cur] # "closed"
      BY <1>1, <1>2 DEF IntactInv, Owned, ListsShape
    <3> QED BY <1>1, <1>2, <1>5, <1>11, <3>1
  <2>2. /\ AnswersRight'
        /\ \A c \in Clients : answers'[c] = <<>> => got'[c] = 0 /\ outq'[c] = 0
    BY <1>1, <1>4, <1>6, <2>1, AnswersStay
  <2>3. AnsweredOnce'
    BY <1>1, <2>1, <2>2, AnsweredClosed DEF AnswerInv, AnsweredOnce
  <2>4. pc' = "dead" \/ ~Delivers(cur)'
    BY <1>1, <1>2, <1>5, <1>11 DEF Delivers
  <2>5. Phases'
    BY <1>1, <1>2, <1>3, <1>4, <1>5, <1>6, <1>8, <2>4 DEF Phases, BodyPart, Fits
  <2> QED BY <1>1, <2>2, <2>3, <2>5 DEF AnswerInv, Counted
<1> QED BY <1>10, <1>11
(* A part of the body: only the client at hand is sent something, and its  *)
(* sum stays within n.                                                     *)
LEMMA BodyAnswers ==
  ASSUME AnswerInv, IntactInv', NEW c \in Clients, c = cur, NEW n \in Nat,
         pc \in {"sendfile", "listing", "error"}, pc' \in Body \cup {"dead"},
         n <= Limit(c), answers[c] # <<>> => got[c] + outq'[c] <= n,
         answers[c] = <<>> => outq'[c] = outq[c],
         \A d \in Clients \ {c} : outq'[d] = outq[d] /\ line'[d] = line[d],
         UNCHANGED <<cur, buffer_len, inq, ask, unsent, got, answers>>
  PROVE  Counted' /\ AnsweredOnce' /\ AnswersRight'
<1>1. WebTypeOK /\ WebTypeOK'
  BY DEF AnswerInv, IntactInv
<1>2. \A d \in Clients : answers[d] # <<>> => RightFor(d)
  BY DEF AnswerInv, AnswersRight, RightFor, Limit
<1>3. answers[c] # <<>> => RightFor(c)'
  <2>1. got[c] \in Nat /\ outq'[c] \in Nat /\ Limit(c) \in Nat
    BY <1>1, AnswerTypes, WebAssumption DEF WebTypeOK, Limit
  <2>2. answers[c] # <<>> => got[c] + outq'[c] <= Limit(c)
    BY <2>1
  <2> QED BY <1>2, <2>2 DEF RightFor, Limit
<1>4. \A d \in Clients \ {c} : answers[d] # <<>> => RightFor(d)'
  BY <1>2 DEF RightFor, Limit
<1>5. \A d \in Clients : answers'[d] # <<>> => RightFor(d)'
  BY <1>3, <1>4
<1>6. AnswersRight'
  BY <1>5 DEF AnswersRight, RightFor, Limit
<1>7. AnsweredOnce'
  BY DEF AnswerInv, AnsweredOnce
<1> QED BY <1>6, <1>7 DEF AnswerInv, Counted

LEMMA SendBodyAnswers ==
  ASSUME AnswerInv, IntactInv', SendBody
  PROVE  Counted' /\ AnsweredOnce' /\ Phases' /\ AnswersRight'
<1> DEFINE units == IF pc = "listing" THEN BodyLen ELSE 1
<1>1. /\ IntactInv /\ WebTypeOK /\ pc \in {"listing", "error"}
      /\ line \in [Clients -> Lines] /\ outq \in [Clients -> 0 .. SndBuf]
      /\ UNCHANGED <<cur, buffer_len, inq, ask, unsent, got, answers>>
  BY DEF AnswerInv, IntactInv, WebTypeOK, Lines, SendBody, client
<1>2. cur \in Clients
  BY <1>1, AtHand DEF Handling, Body
<1>3. /\ BodyLen \in Nat /\ SndBuf \in Nat /\ units \in Nat
      /\ outq[cur] \in Nat /\ got[cur] \in Nat /\ ask[cur].need \in Nat /\ BufSize \in Nat
  BY <1>1, <1>2, AnswerTypes
<1>4. got[cur] = 0 /\ outq[cur] = 0 /\ units <= Limit(cur)
  BY <1>1, <1>2, <1>3 DEF AnswerInv, Phases, Fits, Limit
<1>5. /\ \/ pc' = "dead" /\ UNCHANGED <<line, outq>>
         \/ pc' = "close" /\ Delivers(cur) /\ UNCHANGED line
            /\ outq' = [outq EXCEPT ![cur] = @ + Least(units, SndBuf - outq[cur])]
         \/ pc' = "close" /\ ~Delivers(cur) /\ UNCHANGED outq
            /\ line' = [line EXCEPT ![cur] = "broken"]
  <2>1. Send(cur, "close", units)
    BY DEF SendBody
  <2> HIDE DEF units
  <2> QED BY <1>1, <1>2, <1>3, <2>1, SendFacts
<1> HIDE DEF units
<1>6. pc' \in {"close", "dead"}
  BY <1>5
<1>7. Phases'
  BY <1>6 DEF Phases
<1>8. got[cur] + outq'[cur] <= units
  BY <1>1, <1>2, <1>3, <1>4, <1>5 DEF Least
<1>9. answers[cur] = <<>> => outq'[cur] = outq[cur]
  <2>1. Delivers(cur) => answers[cur] # <<>>
    BY <1>1 DEF AnswerInv, Phases
  <2> QED BY <1>5, <2>1
<1>10. \A d \in Clients \ {cur} : outq'[d] = outq[d] /\ line'[d] = line[d]
  BY <1>1, <1>5
<1>11. pc' \in Body \cup {"dead"}
  BY <1>6 DEF Body
<1>12. Counted' /\ AnsweredOnce' /\ AnswersRight'
  BY <1>1, <1>2, <1>3, <1>4, <1>8, <1>9, <1>10, <1>11, BodyAnswers
<1> QED BY <1>7, <1>12

LEMMA SendFileAnswers ==
  ASSUME AnswerInv, IntactInv', SendFile
  PROVE  Counted' /\ AnsweredOnce' /\ Phases' /\ AnswersRight'
<1>1. /\ IntactInv /\ WebTypeOK /\ pc = "sendfile"
      /\ line \in [Clients -> Lines] /\ outq \in [Clients -> 0 .. SndBuf]
      /\ UNCHANGED <<cur, buffer_len, inq, ask, unsent, got, answers>>
  BY DEF AnswerInv, IntactInv, WebTypeOK, Lines, SendFile, client
<1>2. cur \in Clients
  BY <1>1, AtHand DEF Handling, Body
<1>3. /\ BodyLen \in Nat /\ SndBuf \in Nat /\ offset \in 0 .. BodyLen
      /\ outq[cur] \in 0 .. SndBuf /\ got[cur] \in Nat /\ ask[cur].need \in Nat /\ BufSize \in Nat
  BY <1>1, <1>2, AnswerTypes
<1>4. /\ ask[cur].kind = "file" /\ Fits(cur) /\ got[cur] + outq[cur] <= offset
      /\ Delivers(cur) => answers[cur] # <<>>
  BY <1>1 DEF AnswerInv, Phases
<1>5. Limit(cur) = BodyLen
  BY <1>3, <1>4 DEF Limit, Fits
<1>6. CASE /\ Send(cur, "sendfile", BodyLen - offset)
           /\ offset' = offset + Least(BodyLen - offset, SndBuf - outq[cur])
  <2>1. BodyLen - offset \in Nat
    BY <1>3
  <2>2. /\ \/ pc' = "dead" /\ UNCHANGED <<line, outq>>
           \/ pc' = "sendfile" /\ Delivers(cur) /\ UNCHANGED line
              /\ outq' = [outq EXCEPT ![cur] = @ + Least(BodyLen - offset, SndBuf - outq[cur])]
           \/ pc' = "sendfile" /\ ~Delivers(cur) /\ UNCHANGED outq
              /\ line' = [line EXCEPT ![cur] = "broken"]
    BY <1>1, <1>2, <1>6, <2>1, SendFacts
  <2>3. /\ got[cur] + outq'[cur] <= offset' /\ offset' \in Nat /\ offset' <= Limit(cur)
    BY <1>1, <1>2, <1>3, <1>4, <1>5, <1>6, <2>2, SMTT(30) DEF Least
  <2>4. answers[cur] = <<>> => outq'[cur] = outq[cur]
    BY <1>4, <2>2
  <2>5. \A d \in Clients \ {cur} : outq'[d] = outq[d] /\ line'[d] = line[d]
    BY <1>1, <2>2
  <2>6. pc' \in Body \cup {"dead"} /\ pc' \in {"sendfile", "dead"}
    BY <2>2 DEF Body
  <2>7. Counted' /\ AnsweredOnce' /\ AnswersRight'
    BY <1>1, <1>2, <2>3, <2>4, <2>5, <2>6, BodyAnswers
  <2>8. Delivers(cur)' => Delivers(cur)
    BY <1>1, <1>2, <2>2 DEF Delivers
  <2>9. Phases'
    BY <1>1, <1>4, <2>3, <2>6, <2>8 DEF Phases, Fits
  <2> QED BY <2>7, <2>9
<1>7. CASE /\ pc' = "close" /\ UNCHANGED <<offset, outq>>
           /\ line' = line \/ line' = [line EXCEPT ![cur] = "broken"]
  <2>1. \A d \in Clients \ {cur} : outq'[d] = outq[d] /\ line'[d] = line[d]
    BY <1>1, <1>7
  <2>2. pc' \in Body \cup {"dead"} /\ offset \in Nat /\ offset <= Limit(cur)
    BY <1>3, <1>5, <1>7 DEF Body
  <2>3. Counted' /\ AnsweredOnce' /\ AnswersRight'
    BY <1>1, <1>2, <1>4, <1>7, <2>1, <2>2, BodyAnswers
  <2>4. Phases'
    BY <1>7 DEF Phases
  <2> QED BY <2>3, <2>4
<1> QED BY <1>6, <1>7 DEF SendFile

LEMMA NextAnswers == AnswerInv /\ [Next]_vars => AnswerInv'
<1> SUFFICES ASSUME AnswerInv, [Next]_vars
             PROVE  Counted' /\ AnsweredOnce' /\ Phases' /\ AnswersRight'
  BY NextIntact DEF AnswerInv
<1> DEFINE Kept == Counted' /\ AnsweredOnce' /\ Phases' /\ AnswersRight'
<1>i. IntactInv /\ IntactInv' /\ line \in [Clients -> Lines]
  BY NextIntact DEF AnswerInv, IntactInv, WebTypeOK, Lines
<1>1. CASE epoll_wait
  <2>1. /\ pc = "wait" /\ pc' \in {"wait", "batch"}
        /\ UNCHANGED <<answers, ask, unsent, got, outq, buffer_len, inq, line>>
    BY <1>1 DEF epoll_wait, client
  <2> QED BY <1>i, <2>1, LoopAnswers
<1>2. CASE AcceptClient
  <2>1. /\ pc = "batch" /\ pc' \in {"wait", "batch"} /\ Head(backlog) \in Clients
        /\ UNCHANGED <<answers, ask, unsent, got, outq, buffer_len, inq>>
        /\ line' = line \/ line' = [line EXCEPT ![Head(backlog)] = "closed"]
    BY <1>2, <1>i, AcceptFacts DEF NextEvent
  <2> QED BY <1>i, <2>1, LoopAnswers
<1>3. CASE ClientEvent
  <2> DEFINE c == batch[1].who
  <2>1. pc = "batch" /\ c # Listener
    BY <1>3 DEF ClientEvent
  <2>2. c \in Clients
    BY <1>i, <2>1, AtHand DEF Sockets
  <2>3. CASE CloseClient(c) /\ UNCHANGED <<buffer_len, client, answers>>
    BY <1>i, <2>1, <2>2, <2>3, CloseAnswers DEF client
  <2>4. CASE pc' = "recv" /\ UNCHANGED <<buffer_len, kernel, client, answers>>
    BY <1>i, <2>1, <2>4, LoopAnswers DEF kernel, client
  <2> QED BY <1>3, <2>3, <2>4 DEF ClientEvent
<1>4. CASE RecvData
  BY <1>4, <1>i, RecvAnswers
<1>5. CASE RecvEnds
  <2>1. /\ pc = "recv" /\ cur \in Clients /\ batch[1].who = cur
        /\ UNCHANGED <<buffer_len, ask, unsent, got, answers>>
    BY <1>5, <1>i, AtHand DEF RecvEnds, Handling, client
  <2>2. CASE CloseClient(cur)
    BY <1>i, <2>1, <2>2, CloseAnswers DEF Handling
  <2>3. CASE NextEvent /\ UNCHANGED <<line, inq, outq>>
    BY <1>i, <2>1, <2>3, LoopAnswers DEF NextEvent
  <2> QED BY <1>5, <2>2, <2>3 DEF RecvEnds
<1>6. CASE SendHeader \/ SendBody \/ SendFile
  BY <1>6, <1>i, HeaderAnswers, SendBodyAnswers, SendFileAnswers
<1>7. CASE AnswerDone
  <2>1. pc \in Handling /\ cur \in Clients /\ batch[1].who = cur
    BY <1>7, <1>i, AtHand DEF AnswerDone, Handling, Body
  <2> QED BY <1>7, <1>i, <2>1, CloseAnswers DEF AnswerDone, CloseAnswered, client
<1>8. ASSUME NEW c \in Clients, Connect(c) \/ SendPiece(c) \/ Hangup(c) \/ ReadAnswer(c)
      PROVE  Kept
  BY <1>8, <1>i, ClientAnswers
<1>9. CASE TruncateFile \/ UNCHANGED vars
  <2>1. UNCHANGED <<server, kernel, client, answers>>
    BY <1>9 DEF TruncateFile, vars
  <2> QED BY <2>1 DEF AnswerInv, Counted, AnsweredOnce, Phases, AnswersRight, Fits, Delivers,
                      server, kernel, client
<1> QED BY <1>1, <1>2, <1>3, <1>4, <1>5, <1>6, <1>7, <1>8, <1>9 DEF Next, ServerStep

(* Each client gets one answer at most, only after it has sent the request *)
(* in full or more than fits the buffer, and never more units than the     *)
(* header announced: in whatever pieces it sends, reads or hangs up.       *)
THEOREM AnswersRightHolds == WebSpec => []AnswersRight
<1>1. Init => AnswerInv
  <2> SUFFICES ASSUME Init PROVE AnswerInv
    OBVIOUS
  <2>1. IntactInv /\ WebTypeOK
    BY InitIntact DEF IntactInv
  <2>2. Counted
    BY <2>1, AnswerTypes DEF Init, Counted
  <2>3. AnsweredOnce
    BY EmptySeq DEF Init, AnsweredOnce
  <2>4. Phases /\ AnswersRight
    BY DEF Init, Phases, AnswersRight
  <2> QED BY <2>1, <2>2, <2>3, <2>4 DEF AnswerInv
<1>2. AnswerInv => AnswersRight
  BY DEF AnswerInv
<1> QED BY <1>1, <1>2, NextAnswers, PTL DEF WebSpec
=============================================================================
