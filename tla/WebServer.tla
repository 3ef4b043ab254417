------------------------------ MODULE WebServer ------------------------------
(***************************************************************************)
(* The web server (HW_12_WebServer/webserver.c): one thread, one epoll     *)
(* instance in edge-triggered mode, non-blocking sockets.  A client may    *)
(* connect, send its request in pieces, send more than that, shut down its *)
(* side, abort, and read the answer as slowly as it likes, between any two *)
(* system calls of the server.                                             *)
(*                                                                         *)
(* The kernel is external: a queue of connections to accept, the bytes not *)
(* yet received, the bytes not yet taken by the client, and the ready list *)
(* of epoll, which an event enters when it happens and leaves when         *)
(* epoll_wait reports it.  Amounts are counted in pieces of a request and  *)
(* in units of the socket's send buffer; headers always fit.               *)
(***************************************************************************)
EXTENDS Integers, Sequences, FiniteSets, SequencesExt

CONSTANTS
  Clients,    \* the clients
  Patient,    \* clients that send one request, stay, and read
  Requests,   \* the requests each client may make
  BufSize,    \* pieces that fit the request buffer (BUFFER_SIZE - 1)
  SndBuf,     \* units that fit the send buffer of a socket
  BodyLen,    \* units of an answer
  MaxFaults,  \* bound on failing calls (accept, fcntl, malloc, epoll_ctl)
  Listener,   \* server_fd
  NoOne       \* no event is being handled

(* A request asks for a file, for a listing or for what is refused; need   *)
(* is its length up to the empty line, total all the client sends.         *)
Request == [kind : {"file", "listing", "refused"}, need : Nat \ {0}, total : Nat]

ASSUME WebAssumption ==
  /\ Patient \subseteq Clients /\ Listener \notin Clients /\ NoOne \notin Clients
  /\ Requests \in [Clients -> SUBSET Request]
  /\ \A c \in Patient : \A r \in Requests[c] : r.total = r.need
  /\ BufSize \in Nat \ {0} /\ SndBuf \in Nat \ {0} /\ BodyLen \in Nat
  /\ MaxFaults \in Nat

VARIABLES
  pc,         \* where the server is
  cur,        \* the client whose event is handled
  batch,      \* events[i ..]: reported and not yet handled
  offset,     \* how much of the file was sent
  mem,        \* client_data_t that are allocated
  buffer_len, \* client_data_t.buffer_len
  fds,        \* sockets of clients the server has open
  interest,   \* sockets registered with epoll
  ready,      \* the ready list of epoll
  backlog,    \* connections not yet accepted
  line,       \* the connection as TCP sees it
  unsent,     \* pieces the client has not sent yet
  inq,        \* pieces the server has not received yet
  outq,       \* units the client has not read yet
  ask,        \* the request of each client, chosen at the start
  cut,        \* a file was truncated while it was being sent
  got,        \* history: units the client read
  answers,    \* history: the headers sent to each client
  alone,      \* history: connected when nobody else was waiting
  faults      \* history: clients whose accept or registration failed

server == <<pc, cur, batch, offset, mem, buffer_len>>
kernel == <<fds, interest, ready, backlog, line, inq, outq>>
client == <<ask, unsent, got>>
vars   == <<server, kernel, client, cut, answers, alone, faults>>

Init ==
  /\ pc = "wait" /\ cur = NoOne /\ batch = <<>> /\ offset = 0
  /\ mem = {} /\ buffer_len = [c \in Clients |-> 0]
  /\ fds = {} /\ interest = {} /\ ready = <<>> /\ backlog = <<>>
  /\ line = [c \in Clients |-> "none"]
  /\ ask \in {a \in [Clients -> UNION {Requests[c] : c \in Clients}] :
                 \A c \in Clients : a[c] \in Requests[c]}
  /\ unsent = [c \in Clients |-> ask[c].total]
  /\ inq = [c \in Clients |-> 0] /\ outq = [c \in Clients |-> 0]
  /\ cut = FALSE
  /\ got = [c \in Clients |-> 0]
  /\ answers = [c \in Clients |-> <<>>]
  /\ alone = {} /\ faults = {}

-----------------------------------------------------------------------------
(* Something happens at a registered socket: it enters the ready list, if  *)
(* it is not there yet.                                                    *)
Enqueue(list, x) == IF Contains(list, x) THEN list ELSE Append(list, x)

(* The entries of a list that are in K, in their order.                    *)
Only(list, K) ==
  LET kept[i \in 0 .. Len(list)] ==
        IF i = 0 THEN <<>>
        ELSE IF list[i] \in K THEN Append(kept[i - 1], list[i]) ELSE kept[i - 1]
  IN  kept[Len(list)]

Edge(c) == ready' = IF c \in interest THEN Enqueue(ready, c) ELSE ready

Connect(c) ==
  /\ line[c] = "none" /\ pc # "dead"
  /\ line' = [line EXCEPT ![c] = "up"]
  /\ backlog' = Append(backlog, c)
  /\ ready' = Enqueue(ready, Listener)
  /\ alone' = IF backlog = <<>> THEN alone \cup {c} ELSE alone
  /\ UNCHANGED <<server, fds, interest, inq, outq, client, cut, answers, faults>>

SendPiece(c) ==
  /\ line[c] = "up" /\ unsent[c] > 0
  /\ unsent' = [unsent EXCEPT ![c] = @ - 1]
  /\ inq' = [inq EXCEPT ![c] = @ + 1]
  /\ Edge(c)
  /\ UNCHANGED <<server, fds, interest, backlog, line, outq, ask, got, cut, answers,
                 alone, faults>>

(* The client shuts down its side, or aborts: the error is reported by one *)
(* call, unless the client had shut down before.                           *)
Hangup(c) ==
  /\ c \notin Patient
  /\ \/ line[c] = "up" /\ line' = [line EXCEPT ![c] = "fin"]
     \/ line[c] = "up" /\ line' = [line EXCEPT ![c] = "rst"]
     \/ line[c] = "fin" /\ line' = [line EXCEPT ![c] = "broken"]
  /\ Edge(c)
  /\ UNCHANGED <<server, fds, interest, backlog, inq, outq, client, cut, answers, alone, faults>>

ReadAnswer(c) ==
  /\ outq[c] > 0 /\ line[c] \in {"up", "fin", "closed"}
  /\ outq' = [outq EXCEPT ![c] = @ - 1]
  /\ got' = [got EXCEPT ![c] = @ + 1]
  /\ UNCHANGED <<server, fds, interest, ready, backlog, line, inq, ask, unsent, cut,
                 answers, alone, faults>>

(* Somebody truncates the file that is being sent.                         *)
TruncateFile ==
  /\ pc = "sendfile" /\ ~cut
  /\ cut' = TRUE
  /\ UNCHANGED <<server, kernel, client, answers, alone, faults>>

-----------------------------------------------------------------------------
(* epoll_wait: what is on the ready list and still true, as it is now.     *)
Hup(c)      == line[c] \in {"fin", "rst", "broken"}
Readable(c) == inq[c] > 0 \/ Hup(c)
Event(x)    == [who |-> x, hup |-> x \in Clients /\ Hup(x)]
Pending     == {x \in Clients : Readable(x)} \cup (IF backlog # <<>> THEN {Listener} ELSE {})

epoll_wait ==
  /\ pc = "wait" /\ ready # <<>>
  /\ LET now == Only(ready, Pending) IN
     /\ batch' = [i \in 1 .. Len(now) |-> Event(now[i])]
     /\ pc' = IF now = <<>> THEN "wait" ELSE "batch"
  /\ ready' = <<>>
  /\ UNCHANGED <<cur, offset, mem, buffer_len, fds, interest, backlog, line, inq, outq,
                 client, cut, answers, alone, faults>>

(* The next turn of the loop over the events.                              *)
NextEvent ==
  /\ batch' = Tail(batch)
  /\ cur' = NoOne
  /\ pc' = IF Len(batch) = 1 THEN "wait" ELSE "batch"

CloseAfterFault(c) == fds' = fds \ {c}

(* The event of the listening socket: one connection is accepted, made     *)
(* non-blocking and registered; what it has received by then is an edge.   *)
AcceptClient ==
  /\ pc = "batch" /\ batch[1].who = Listener /\ backlog # <<>>
  /\ LET c == Head(backlog) IN
     /\ \/ /\ backlog' = Tail(backlog)
           /\ fds' = fds \cup {c} /\ mem' = mem \cup {c} /\ interest' = interest \cup {c}
           /\ ready' = IF Readable(c) THEN Enqueue(ready, c) ELSE ready
           /\ UNCHANGED <<line, faults>>
        \/ /\ Cardinality(faults) < MaxFaults /\ faults' = faults \cup {c}
           /\ \/ /\ UNCHANGED <<backlog, fds, line>>
              \/ /\ backlog' = Tail(backlog)
                 /\ CloseAfterFault(c)
                 /\ line' = [line EXCEPT ![c] = "closed"]
           /\ UNCHANGED <<mem, interest, ready>>
  /\ NextEvent
  /\ UNCHANGED <<offset, buffer_len, inq, outq, client, cut, answers, alone>>

(* EPOLL_CTL_DEL, close, free, and on to the next event.  A socket closed  *)
(* with data not received is reset: the client may lose what it has not    *)
(* read.                                                                   *)
CloseClient(c) ==
  /\ interest' = interest \ {c} /\ fds' = fds \ {c} /\ mem' = mem \ {c}
  /\ ready' = Only(ready, (Clients \cup {Listener}) \ {c})
  /\ line' = [line EXCEPT ![c] = "closed"]
  /\ \/ UNCHANGED outq
     \/ (inq[c] > 0 \/ line[c] \in {"rst", "broken"}) /\ outq' = [outq EXCEPT ![c] = 0]
  /\ inq' = [inq EXCEPT ![c] = 0]
  /\ NextEvent

(* The event of a client: a hangup closes without reading; otherwise the   *)
(* socket is received from until there is nothing left.                    *)
ClientEvent ==
  /\ pc = "batch" /\ batch[1].who # Listener
  /\ LET c == batch[1].who IN
     \/ /\ batch[1].hup
        /\ CloseClient(c)
        /\ UNCHANGED <<offset, buffer_len, backlog, client, cut, answers, alone, faults>>
     \/ /\ ~batch[1].hup
        /\ pc' = "recv" /\ cur' = c
        /\ UNCHANGED <<batch, offset, mem, buffer_len, kernel, client, cut, answers, alone,
                       faults>>

Least(a, b) == IF a < b THEN a ELSE b

Room(c) == BufSize - buffer_len[c]

(* What is done with the request read so far: the empty line is looked for *)
(* before the buffer is found to be full.                                  *)
Bug_FullFirst(n) ==
  IF n >= BufSize THEN "overflow" ELSE IF n >= ask[cur].need THEN "header" ELSE "recv"
AfterRecv(n) ==
  IF n >= ask[cur].need THEN "header" ELSE IF n >= BufSize THEN "overflow" ELSE "recv"

(* recv: data first; then a hangup or an error, or EAGAIN.                 *)
RecvData ==
  /\ pc = "recv" /\ inq[cur] > 0
  /\ LET n == Least(inq[cur], Room(cur)) IN
     /\ inq' = [inq EXCEPT ![cur] = @ - n]
     /\ buffer_len' = [buffer_len EXCEPT ![cur] = @ + n]
     /\ pc' = AfterRecv(buffer_len[cur] + n)
  /\ UNCHANGED <<cur, batch, offset, mem, fds, interest, ready, backlog, line, outq,
                 client, cut, answers, alone, faults>>

Bug_RecvOnce(c) == inq[c] = 0 \/ buffer_len[c] > 0
Drained(c) == inq[c] = 0

RecvEnds ==
  /\ pc = "recv" /\ Drained(cur)
  /\ \/ Hup(cur) /\ CloseClient(cur)
     \/ ~Hup(cur) /\ NextEvent /\ UNCHANGED <<mem, fds, interest, ready, line, inq, outq>>
  /\ UNCHANGED <<offset, buffer_len, backlog, client, cut, answers, alone, faults>>

-----------------------------------------------------------------------------
(* A send: the first one after an abort reports the error, which the code  *)
(* ignores; one on a broken connection raises SIGPIPE, for which there is  *)
(* no handler.                                                             *)
Delivers(c) == line[c] \in {"up", "fin"}
Send(c, label, units) ==
  IF line[c] = "broken" THEN pc' = "dead" /\ UNCHANGED <<line, outq>>
  ELSE /\ pc' = label
       /\ line' = IF Delivers(c) THEN line ELSE [line EXCEPT ![c] = "broken"]
       /\ outq' = IF Delivers(c) THEN [outq EXCEPT ![c] = @ + Least(units, SndBuf - @)]
                  ELSE outq

(* handle_http_request up to the header, and the answer to a request that  *)
(* does not fit the buffer.                                                *)
Status == IF pc = "overflow" THEN "400" ELSE IF ask[cur].kind = "refused" THEN "4xx" ELSE "200"
BodyPart == IF pc = "header" /\ ask[cur].kind = "file" THEN "sendfile"
            ELSE IF pc = "header" /\ ask[cur].kind = "listing" THEN "listing" ELSE "error"

SendHeader ==
  /\ pc \in {"header", "overflow"}
  /\ Send(cur, BodyPart, 0)
  /\ answers' = IF Delivers(cur) THEN [answers EXCEPT ![cur] = Append(@, Status)] ELSE answers
  /\ offset' = 0
  /\ UNCHANGED <<cur, batch, mem, buffer_len, fds, interest, ready, backlog, inq, client,
                 cut, alone, faults>>

(* The body of send_http_response, in one send whose result is ignored:    *)
(* what does not fit the send buffer is lost.                              *)
SendBody ==
  /\ pc \in {"listing", "error"}
  /\ Send(cur, "close", IF pc = "listing" THEN BodyLen ELSE 1)
  /\ UNCHANGED <<cur, batch, offset, mem, buffer_len, fds, interest, ready, backlog, inq,
                 client, cut, answers, alone, faults>>

(* The loop around sendfile goes on until all is sent or a call fails.  A  *)
(* full send buffer (EAGAIN) is tried again at once, and so is the end of  *)
(* a file that became shorter: the server does nothing else meanwhile.     *)
Bug_GivesUpWhenFull == outq[cur] = SndBuf
SendfileFails == line[cur] = "rst"

SendFile ==
  /\ pc = "sendfile"
  /\ \/ /\ offset < BodyLen /\ ~cut /\ ~SendfileFails
        /\ line[cur] = "broken" \/ outq[cur] < SndBuf
        /\ Send(cur, "sendfile", BodyLen - offset)
        /\ offset' = offset + Least(BodyLen - offset, SndBuf - outq[cur])
     \/ /\ offset = BodyLen \/ (~cut /\ SendfileFails)
        /\ pc' = "close"
        /\ line' = IF line[cur] = "rst" /\ offset < BodyLen
                   THEN [line EXCEPT ![cur] = "broken"] ELSE line
        /\ UNCHANGED <<offset, outq>>
  /\ UNCHANGED <<cur, batch, mem, buffer_len, fds, interest, ready, backlog, inq, client,
                 cut, answers, alone, faults>>

(* The connection is closed and the loop over recv is left.                *)
Bug_LoopGoesOn(c) ==
  /\ pc' = "recv" /\ mem' = mem \ {c} /\ fds' = fds \ {c} /\ interest' = interest \ {c}
  /\ UNCHANGED <<cur, batch, ready, line, inq, outq>>
CloseAnswered(c) == CloseClient(c)

AnswerDone ==
  /\ pc = "close"
  /\ CloseAnswered(cur)
  /\ UNCHANGED <<offset, buffer_len, backlog, client, cut, answers, alone, faults>>

ServerStep ==
  \/ epoll_wait \/ AcceptClient \/ ClientEvent \/ RecvData \/ RecvEnds
  \/ SendHeader \/ SendBody \/ SendFile \/ AnswerDone

Next ==
  \/ ServerStep \/ TruncateFile
  \/ \E c \in Clients : Connect(c) \/ SendPiece(c) \/ Hangup(c) \/ ReadAnswer(c)

WebSpec == Init /\ [][Next]_vars

(* The server is scheduled; every client reads what it is sent as long as  *)
(* it is connected, and a patient one sends its whole request.             *)
WebFairSpec ==
  /\ WebSpec /\ WF_vars(ServerStep)
  /\ \A c \in Clients : WF_vars(ReadAnswer(c))
  /\ \A c \in Patient : WF_vars(SendPiece(c))

-----------------------------------------------------------------------------
(* Types of the state; queues and buffers keep to their limits.            *)
WebTypeOK ==
  /\ pc \in {"wait", "batch", "recv", "header", "overflow", "sendfile", "listing", "error",
            "close", "dead"}
  /\ cur \in Clients \cup {NoOne} /\ offset \in 0 .. BodyLen
  /\ batch \in Seq([who : Clients \cup {Listener}, hup : BOOLEAN])
  /\ mem \subseteq Clients /\ fds \subseteq Clients /\ interest \subseteq Clients
  /\ buffer_len \in [Clients -> 0 .. BufSize]
  /\ ready \in Seq(Clients \cup {Listener}) /\ backlog \in Seq(Clients)
  /\ line \in [Clients -> {"none", "up", "fin", "rst", "broken", "closed"}]
  /\ ask \in [Clients -> Request]
  /\ unsent \in [Clients -> Nat] /\ inq \in [Clients -> Nat]
  /\ outq \in [Clients -> 0 .. SndBuf] /\ got \in [Clients -> Nat]

(* The state of the clients is whole on every path through the handlers:   *)
(* no buffer overflows, an open socket is one that is registered and has   *)
(* its data, and no event is handled for a client whose data was freed,    *)
(* neither the one at hand nor those later in the batch.                   *)
ClientsIntact ==
  /\ WebTypeOK
  /\ fds = interest /\ fds = mem
  /\ pc \notin {"wait", "batch", "dead"} => cur \in mem
  /\ \A j \in DOMAIN batch : batch[j].who # Listener => batch[j].who \in mem

(* The server never goes to wait with an edge used up and data unread: a   *)
(* registered client with something to receive is on the ready list, or    *)
(* its event is still to be handled.                                       *)
NoLostEdge ==
  \A c \in interest : Readable(c) =>
    \/ Contains(ready, c)
    \/ \E j \in DOMAIN batch : batch[j].who = c

(* A client gets one answer at most, only to a request it has sent in      *)
(* full, or "400" if that did not fit the buffer; and it never gets more   *)
(* than the announced length.                                              *)
AnswersRight ==
  \A c \in Clients : answers[c] # <<>> =>
    /\ Len(answers[c]) = 1
    /\ IF ask[c].need > BufSize
       THEN answers[c] = <<"400">> /\ ask[c].total - unsent[c] >= BufSize
       ELSE answers[c] # <<"400">> /\ ask[c].total - unsent[c] >= ask[c].need
    /\ got[c] + outq[c] <= IF ask[c].kind = "refused" \/ ask[c].need > BufSize THEN 1 ELSE BodyLen

(* The server is out of order: killed by SIGPIPE, or in the sendfile loop  *)
(* of a file that was truncated.                                           *)
Stuck == pc = "dead" \/ (pc = "sendfile" /\ cut)

Whole(c) == CASE ask[c].kind = "file" -> BodyLen
              [] ask[c].kind = "listing" -> Least(BodyLen, SndBuf)
              [] OTHER -> 1

(* A patient client that is accepted reads its whole answer, although      *)
(* others come, abort, or read slowly in between: all of a file, and of a  *)
(* listing what fits the send buffer.  One connection is accepted for each *)
(* event of the listening socket, so of several that come together all but *)
(* one may be left waiting; one that found nobody waiting is accepted.     *)
PatientServed ==
  \A c \in Patient :
    (c \in interest \cup alone) ~> (got[c] = Whole(c) \/ c \in faults \/ Stuck)

=============================================================================
