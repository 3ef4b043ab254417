------------------------------ MODULE FsDaemon ------------------------------
(***************************************************************************)
(* The file size daemon (HW_08-Daemon/fs-daemon.c): it binds a UNIX socket *)
(* to a path, and in a loop around select answers each client with the     *)
(* size of one file.  SIGTERM, SIGINT and SIGHUP clear `running', SIGPIPE  *)
(* is ignored.  Any system call may fail.  The daemon may be killed at any *)
(* step and started again, and it may be started while another one runs:   *)
(* both use the same path.                                                 *)
(*                                                                         *)
(* External: the file system (what the path names, the size of the file)   *)
(* and the kernel's queue of connections of each socket.                   *)
(***************************************************************************)
EXTENDS Integers, Sequences, FiniteSets

CONSTANTS
  Daemons,    \* processes that may run the program, one after or beside another
  Clients,    \* clients, each of which connects once
  Sizes,      \* the sizes the file may have; Missing if there is none
  Missing,    \* stat fails, or it is no regular file
  MaxClients, \* MAX_CLIENTS, the backlog of listen
  MaxStarts,  \* bound on the starts of one process
  NoOne       \* no daemon, no client

ASSUME DaemonAssumption ==
  /\ NoOne \notin Daemons \cup Clients /\ Missing \notin Sizes
  /\ MaxClients \in Nat \ {0} /\ MaxStarts \in Nat

VARIABLES
  pc,        \* where each daemon is
  running,   \* the flag the signal handler clears
  serving,   \* the client a daemon has accepted
  size,      \* what get_file_size returned for it
  path,      \* whose socket the path names
  queue,     \* connections of each socket, not yet accepted
  client,    \* state of each client
  file,      \* the size of the file
  starts,    \* starts of each daemon so far
  since,     \* history: the sizes of the file since the client connected
  overlap,   \* history: two daemons were alive at once
  reason     \* history: daemons that had a reason to end since their start:
             \* a signal, a kill, a call that failed and that they cannot do without

vars == <<pc, running, serving, size, path, queue, client, file, starts, since, overlap, reason>>
clients == <<client, since>>

Alive(d)     == pc[d] \notin {"off", "hung"}
Listening(d) == pc[d] \in {"announce", "loop", "fdset", "select", "accept", "stat",
                          "send", "closing"}
Goto(d, label) == pc' = [pc EXCEPT ![d] = label]

Init ==
  /\ pc = [d \in Daemons |-> "off"]
  /\ running = [d \in Daemons |-> TRUE]
  /\ serving = [d \in Daemons |-> NoOne]
  /\ size = [d \in Daemons |-> Missing]
  /\ path = NoOne
  /\ queue = [d \in Daemons |-> <<>>]
  /\ client = [c \in Clients |-> "idle"]
  /\ file \in Sizes \cup {Missing}
  /\ starts = [d \in Daemons |-> 0]
  /\ since = [c \in Clients |-> {}]
  /\ overlap = FALSE /\ reason = {}

(* Those of S that still wait do so no longer.                             *)
EndWait(S, state) ==
  /\ client' = [c \in Clients |-> IF c \in S /\ client[c] = "queued" THEN state ELSE client[c]]
  /\ since' = [c \in Clients |-> IF c \in S THEN {} ELSE since[c]]

(* The clients whose connection d holds.                                   *)
Dropped(d) == {c \in Clients : c = serving[d] \/ \E j \in DOMAIN queue[d] : queue[d][j] = c}

-----------------------------------------------------------------------------
(* A start up to setup_signals, and the first step of setup_socket: a file *)
(* under the path is removed, whoever left it there or still uses it.  If  *)
(* unlink fails the file stays, which the code does not look at.           *)
Bug_KeepsStaleFile == UNCHANGED path
RemoveOld == path' = NoOne

Start(d) ==
  /\ pc[d] = "off" /\ starts[d] < MaxStarts
  /\ starts' = [starts EXCEPT ![d] = @ + 1]
  /\ running' = [running EXCEPT ![d] = TRUE]
  /\ overlap' = (overlap \/ \E e \in Daemons \ {d} : pc[e] # "off")
  /\ reason' = reason \ {d}
  /\ \/ RemoveOld /\ Goto(d, "bind")
     \/ path # NoOne /\ UNCHANGED path /\ Goto(d, "bind_anyway")
  /\ UNCHANGED <<serving, size, queue, clients, file>>

(* bind makes the path, and fails if there is one.                         *)
Bug_UnlinksAfterBind(d) == path' = NoOne
MakePath(d) == path' = d

Bind(d) ==
  /\ pc[d] \in {"bind", "bind_anyway"}
  /\ IF path = NoOne THEN MakePath(d) /\ Goto(d, "listen")
     ELSE UNCHANGED path /\ Goto(d, "off")
  /\ UNCHANGED <<running, serving, size, queue, clients, file, starts, overlap, reason>>

(* socket or bind fails for another reason, or listen does: the program    *)
(* returns from main.  A path it has made stays.                           *)
SetupFails(d) ==
  /\ pc[d] \in {"bind", "bind_anyway", "listen"}
  /\ Goto(d, "off")
  /\ reason' = reason \cup {d}
  /\ UNCHANGED <<running, serving, size, path, queue, clients, file, starts, overlap>>

(* listen, and then drop_privileges and some lines that are logged.        *)
Listen(d) ==
  /\ \/ pc[d] = "listen" /\ Goto(d, "announce")
     \/ pc[d] = "announce" /\ Goto(d, "loop")
  /\ UNCHANGED <<running, serving, size, path, queue, clients, file, starts, overlap, reason>>

(* setgid or setuid fails: exit, with a socket that already listens.       *)
PrivilegesFail(d) ==
  /\ pc[d] = "announce"
  /\ Goto(d, "off")
  /\ reason' = reason \cup {d}
  /\ EndWait(Dropped(d), "reset")
  /\ queue' = [queue EXCEPT ![d] = <<>>]
  /\ UNCHANGED <<running, serving, size, path, file, starts, overlap>>

-----------------------------------------------------------------------------
(* The test of `running', and later the call of select.                    *)
LoopTest(d) ==
  /\ \/ pc[d] = "loop" /\ Goto(d, IF running[d] THEN "fdset" ELSE "closing")
     \/ pc[d] = "fdset" /\ Goto(d, "select")
  /\ UNCHANGED <<running, serving, size, path, queue, clients, file, starts, overlap, reason>>

(* select returns when there is a connection and after one second; it also *)
(* returns when a signal interrupts it, which Signal does.                 *)
Bug_NoTimeout(d) == FALSE
Bug_StaleFdSet(d) == TRUE
TimesOut(d) == queue[d] = <<>>

Select(d) ==
  /\ pc[d] = "select"
  /\ \/ queue[d] # <<>> /\ Goto(d, "accept")
     \/ TimesOut(d) /\ Goto(d, "loop")
  /\ UNCHANGED <<running, serving, size, path, queue, clients, file, starts, overlap, reason>>

Accept(d) ==
  /\ pc[d] = "accept"
  /\ serving' = [serving EXCEPT ![d] = Head(queue[d])]
  /\ queue' = [queue EXCEPT ![d] = Tail(@)]
  /\ Goto(d, "stat")
  /\ UNCHANGED <<running, size, path, clients, file, starts, overlap, reason>>

(* An error other than EINTR leaves the loop.                              *)
SelectFails(d) ==
  /\ pc[d] = "select"
  /\ Goto(d, "closing")
  /\ reason' = reason \cup {d}
  /\ UNCHANGED <<running, serving, size, path, queue, clients, file, starts, overlap>>

(* accept fails (no descriptor, no memory): the connection stays queued    *)
(* and the loop goes on.                                                   *)
AcceptFails(d) ==
  /\ pc[d] = "accept"
  /\ Goto(d, "loop")
  /\ UNCHANGED <<running, serving, size, path, queue, clients, file, starts, overlap, reason>>

(* handle_client: the size now, then send and close.                       *)
Bug_StatUnchecked(d) == IF file = Missing THEN CHOOSE s \in Sizes : TRUE ELSE file
get_file_size(d) == file

Stat(d) ==
  /\ pc[d] = "stat"
  /\ size' = [size EXCEPT ![d] = get_file_size(d)]
  /\ Goto(d, "send")
  /\ UNCHANGED <<running, serving, path, queue, clients, file, starts, overlap, reason>>

AfterSend(c) == "loop"

(* A failed send is logged, and the connection closed as after any other.  *)
AnswersWith(d, state) ==
  /\ pc[d] = "send"
  /\ EndWait({serving[d]}, state)
  /\ Goto(d, AfterSend(serving[d]))
  /\ serving' = [serving EXCEPT ![d] = NoOne]
  /\ size' = [size EXCEPT ![d] = Missing]
  /\ UNCHANGED <<running, path, queue, file, starts, overlap, reason>>

SendAnswer(d) == AnswersWith(d, "answered")
SendFails(d) == AnswersWith(d, "reset")

(* The end: what is still queued is reset, and the path is removed without *)
(* looking whose it is, and without looking whether unlink did it.         *)
CloseSocket(d) ==
  /\ pc[d] = "closing"
  /\ EndWait(Dropped(d), "reset")
  /\ queue' = [queue EXCEPT ![d] = <<>>]
  /\ Goto(d, "unlink")
  /\ UNCHANGED <<running, serving, size, path, file, starts, overlap, reason>>

Unlink(d) ==
  /\ pc[d] = "unlink"
  /\ path' \in {NoOne, path}
  /\ Goto(d, "off")
  /\ UNCHANGED <<running, serving, size, queue, clients, file, starts, overlap, reason>>

-----------------------------------------------------------------------------
(* Where a line may be logged: always, or when the call at hand failed.    *)
Logging == {"bind", "bind_anyway", "listen", "announce", "accept", "send", "closing"}

(* A signal: the handler logs, clears the flag, and interrupts select.  If *)
(* it interrupts a line that is being logged, the handler may wait for the *)
(* lock of localtime for ever.                                             *)
Signal(d) ==
  /\ Alive(d)
  /\ running' = [running EXCEPT ![d] = FALSE]
  /\ reason' = reason \cup {d}
  /\ \/ running[d] /\ Goto(d, IF pc[d] = "select" THEN "loop" ELSE pc[d])
     \/ pc[d] \in Logging /\ Goto(d, "hung")
  /\ UNCHANGED <<serving, size, path, queue, clients, file, starts, overlap>>

(* kill -9, or a crash of the machine that keeps the file system.          *)
Kill(d) ==
  /\ pc[d] # "off"
  /\ Goto(d, "off")
  /\ EndWait(Dropped(d), "reset")
  /\ queue' = [queue EXCEPT ![d] = <<>>]
  /\ serving' = [serving EXCEPT ![d] = NoOne]
  /\ size' = [size EXCEPT ![d] = Missing]
  /\ reason' = reason \cup {d}
  /\ UNCHANGED <<running, path, file, starts, overlap>>

(* A client connects to whatever the path names, and may go away again.    *)
Connect(c) ==
  /\ client[c] = "idle"
  /\ IF path # NoOne /\ Listening(path)
     THEN /\ Len(queue[path]) < MaxClients
          /\ queue' = [queue EXCEPT ![path] = Append(@, c)]
          /\ client' = [client EXCEPT ![c] = "queued"]
          /\ since' = [since EXCEPT ![c] = {file}]
     ELSE client' = [client EXCEPT ![c] = "refused"] /\ UNCHANGED <<queue, since>>
  /\ UNCHANGED <<pc, running, serving, size, path, file, starts, overlap, reason>>

Leave(c) ==
  /\ client[c] = "queued"
  /\ EndWait({c}, "gone")
  /\ UNCHANGED <<pc, running, serving, size, path, queue, file, starts, overlap, reason>>

FileChanges ==
  /\ \E s \in (Sizes \cup {Missing}) \ {file} :
       /\ file' = s
       /\ since' = [c \in Clients |-> IF client[c] = "queued" THEN since[c] \cup {s}
                                      ELSE since[c]]
  /\ UNCHANGED <<pc, running, serving, size, path, queue, client, starts, overlap, reason>>

DaemonStep(d) ==
  \/ Bind(d) \/ Listen(d) \/ LoopTest(d) \/ Select(d) \/ Accept(d) \/ Stat(d)
  \/ SendAnswer(d) \/ CloseSocket(d) \/ Unlink(d)

Next ==
  \/ \E d \in Daemons : \/ Start(d) \/ DaemonStep(d) \/ Signal(d) \/ Kill(d)
                        \/ SetupFails(d) \/ PrivilegesFail(d) \/ SelectFails(d)
                        \/ AcceptFails(d) \/ SendFails(d)
  \/ \E c \in Clients : Connect(c) \/ Leave(c)
  \/ FileChanges

DaemonSpec == Init /\ [][Next]_vars

(* A daemon that runs is scheduled, and accept does not fail for ever.  No *)
(* failure of another call is excluded.                                    *)
DaemonFairSpec ==
  DaemonSpec /\ \A d \in Daemons : WF_vars(DaemonStep(d)) /\ SF_vars(Accept(d))

-----------------------------------------------------------------------------
(* As long as no two daemons are alive at once, a daemon that serves can   *)
(* be reached: the path names its socket, also after a predecessor was     *)
(* killed and left its file behind.                                        *)
ReachedByPath == ~overlap => \A d \in Daemons : Listening(d) => path = d

(* A client is told a size the file had while it was waiting, or that      *)
(* there was none: what is about to be sent is not older than the client.  *)
AnswerIsRecent ==
  \A d \in Daemons : pc[d] = "send" /\ client[serving[d]] = "queued" =>
                     size[d] \in since[serving[d]]

(* The daemon ends for no other reason than a signal, a kill, the failure  *)
(* of a call it cannot do without (unlink of a file that is there, socket, *)
(* bind, listen, setgid, setuid, select) or, when two of them start        *)
(* together, a path that is taken: a client that goes away (SIGPIPE), a    *)
(* failed accept or send, a missing file or the socket file of a daemon    *)
(* that was killed or gave up do not end it.                               *)
StopsForAReason ==
  [][\A d \in Daemons : pc[d] # "off" /\ pc'[d] = "off" =>
       \/ d \in reason' \/ pc[d] = "bind_anyway"
       \/ (pc[d] = "bind" /\ overlap)]_vars

(* A signal ends the daemon, at whatever step it comes, also between the   *)
(* test of the flag and select; unless it came while a line was logged.    *)
SignalStops ==
  \A d \in Daemons : (Alive(d) /\ ~running[d]) ~> (~Alive(d) \/ running[d])

(* A client that got through to a daemon is answered, unless the daemon    *)
(* ends, the client leaves or send fails.                                  *)
QueuedAnswered ==
  \A c \in Clients : client[c] = "queued" ~>
    (client[c] # "queued" \/ \E d \in Daemons : pc[d] = "hung" /\ c \in Dropped(d))
=============================================================================
