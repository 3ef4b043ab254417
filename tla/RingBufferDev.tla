--------------------------- MODULE RingBufferDev ----------------------------
(***************************************************************************)
(* The ring buffer character device (HW_14-ringbuffer/ring_buffer_char.c): *)
(* several processes read, write, clear, resize the buffer and switch its  *)
(* blocking mode.  A call runs in steps: the wait for data or space, which *)
(* looks at the buffer without the lock; mutex_lock; the copy; the update  *)
(* of the indexes with the unlock; and, only after the unlock, the wake-up *)
(* of the other side.                                                      *)
(*                                                                         *)
(* The kernel is external: wait_event_interruptible tests its condition    *)
(* and goes to sleep without missing a wake-up, wake_up_interruptible      *)
(* wakes everybody on a queue, and a mutex lets one process in.            *)
(***************************************************************************)
EXTENDS Integers, Sequences

CONSTANTS
  Procs,        \* the processes that have the device open
  Calls,        \* the system calls each of them makes
  DefaultSize,  \* DEFAULT_BUFFER_SIZE
  Sizes,        \* MIN_BUFFER_SIZE .. MAX_BUFFER_SIZE
  Lens,         \* the lengths given to read() and write()
  Bytes,        \* what a byte can be
  Garbage,      \* what kmalloc returns
  NoOne         \* the mutex is free

Operations == {"read", "write", "clear", "resize", "set_blocking"}
Directions == {"read", "write"}

ASSUME DeviceAssumption ==
  /\ Calls \in [Procs -> SUBSET Operations]
  /\ DefaultSize \in Nat \ {0}
  /\ Sizes \subseteq Nat \ {0}
  /\ Lens \subseteq Nat
  /\ NoOne \notin Procs

VARIABLES
  buffer, size, head, tail, count,  \* struct ring_buffer
  blocking,                         \* the mode
  lock,                             \* holder of the mutex
  waitq,                            \* read_queue and write_queue
  pc, op, len, kbuf,                \* the call each process is in
  mode                              \* new_rb.blocking of a resize

ring == <<buffer, size, head, tail, count>>
call == <<op, len, kbuf, mode>>
vars == <<ring, blocking, lock, waitq, pc, call>>

Init ==
  /\ size = DefaultSize
  /\ buffer = [j \in 0 .. size - 1 |-> Garbage]
  /\ head = 0 /\ tail = 0 /\ count = 0
  /\ blocking = TRUE
  /\ lock = NoOne
  /\ waitq = [d \in Directions |-> {}]
  /\ pc = [p \in Procs |-> "idle"]
  /\ op = [p \in Procs |-> "none"]
  /\ len = [p \in Procs |-> 0]
  /\ kbuf = [p \in Procs |-> <<>>]
  /\ mode = [p \in Procs |-> TRUE]

min(a, b) == IF a < b THEN a ELSE b

(* The n oldest bytes, read around the end of the buffer.                  *)
Oldest(n) == [j \in 1 .. n |-> buffer[(tail + j - 1) % size]]

(* An index moved past n bytes.                                            *)
Advance(from, n) ==
  LET first == min(n, size - from)
  IN  IF n > first THEN n - first ELSE (from + n) % size

(* A call goes on, and a call returns.                                     *)
Goto(p, label) == pc' = [pc EXCEPT ![p] = label]

EndCall(p) ==
  /\ op' = [op EXCEPT ![p] = "none"]
  /\ len' = [len EXCEPT ![p] = 0]
  /\ kbuf' = [kbuf EXCEPT ![p] = <<>>]
  /\ mode' = [mode EXCEPT ![p] = TRUE]

Finish(p) == Goto(p, "idle") /\ EndCall(p)

-----------------------------------------------------------------------------
(* Entering the driver.  A call that is refused at once (a bad pointer, no *)
(* memory, a size out of range) changes nothing and is left out.           *)
Enter(p, o, n, bytes, label) ==
  /\ pc[p] = "idle" /\ o \in Calls[p]
  /\ pc' = [pc EXCEPT ![p] = label]
  /\ op' = [op EXCEPT ![p] = o]
  /\ len' = [len EXCEPT ![p] = n]
  /\ kbuf' = [kbuf EXCEPT ![p] = bytes]
  /\ UNCHANGED <<ring, blocking, lock, waitq, mode>>

rb_read(p) ==
  \E n \in Lens : Enter(p, "read", n, <<>>, IF blocking THEN "wait" ELSE "try")

rb_write(p) ==
  \E n \in Lens : \E bytes \in [1 .. n -> Bytes] :
    Enter(p, "write", n, bytes, IF blocking THEN "wait" ELSE "lock")

rb_ioctl(p) ==
  \/ Enter(p, "clear", 0, <<>>, "lock")
  \/ \E n \in Sizes : Enter(p, "resize", n, <<>>, "lock")
  \/ \E v \in {0, 1} : Enter(p, "set_blocking", v, <<>>, "lock")

(* The non-blocking read looks at the count, without the lock (-EAGAIN).   *)
TryRead(p) ==
  /\ pc[p] = "try"
  /\ IF count = 0 THEN Finish(p) ELSE Goto(p, "lock") /\ UNCHANGED call
  /\ UNCHANGED <<ring, blocking, lock, waitq>>

(* wait_event_interruptible: the condition is tested without the lock.     *)
Ready(p) == IF op[p] = "read" THEN count > 0 ELSE size - count >= len[p]

wait_event(p) ==
  /\ pc[p] = "wait"
  /\ IF Ready(p)
     THEN Goto(p, "lock") /\ UNCHANGED waitq
     ELSE Goto(p, "asleep") /\ waitq' = [waitq EXCEPT ![op[p]] = @ \cup {p}]
  /\ UNCHANGED <<ring, blocking, lock, call>>

(* A signal ends the wait (-ERESTARTSYS).                                  *)
Interrupted(p) ==
  /\ pc[p] = "asleep"
  /\ Finish(p)
  /\ waitq' = [waitq EXCEPT ![op[p]] = @ \ {p}]
  /\ UNCHANGED <<ring, blocking, lock>>

-----------------------------------------------------------------------------
Bug_LockTaken(p) == pc[p] = "lock"
CanLock(p) == pc[p] = "lock" /\ lock = NoOne

mutex_lock(p) ==
  /\ CanLock(p)
  /\ lock' = p
  /\ Goto(p, "body")
  /\ UNCHANGED <<ring, blocking, waitq, call>>

(* The early returns: no space, or nothing to read.                        *)
Bug_KeepsLock(p) == UNCHANGED lock /\ Finish(p)
Refuse(p) == lock' = NoOne /\ Finish(p)

(* How much of a write is accepted.                                        *)
Bug_Unclamped(p) == len[p]
Accepted(p) == min(len[p], size - count)

(* ring_buffer_write: a full buffer is refused (-ENOSPC), otherwise as     *)
(* much as fits is copied in front of head; then head and count move.      *)
WriteCopy(p) ==
  /\ pc[p] = "body" /\ op[p] = "write"
  /\ IF count = size
     THEN Refuse(p) /\ UNCHANGED ring
     ELSE LET n == Accepted(p) IN
          /\ buffer' = [j \in 0 .. size - 1 |->
                          LET k == (j - head + size) % size
                          IN  IF k < n THEN kbuf[p][k + 1] ELSE buffer[j]]
          /\ len' = [len EXCEPT ![p] = n]
          /\ Goto(p, "commit")
          /\ UNCHANGED <<size, head, tail, count, lock, op, kbuf, mode>>
  /\ UNCHANGED <<blocking, waitq>>

WriteCommit(p) ==
  /\ pc[p] = "commit" /\ op[p] = "write"
  /\ head' = Advance(head, len[p])
  /\ count' = count + len[p]
  /\ lock' = NoOne
  /\ Goto(p, "wake")
  /\ UNCHANGED <<buffer, size, tail, blocking, waitq, call>>

(* ring_buffer_read: an empty buffer gives 0, otherwise the oldest bytes   *)
(* are copied out; then tail and count move.                               *)
ReadCopy(p) ==
  /\ pc[p] = "body" /\ op[p] = "read"
  /\ IF count = 0
     THEN Refuse(p)
     ELSE LET n == min(len[p], count) IN
          /\ kbuf' = [kbuf EXCEPT ![p] = Oldest(n)]
          /\ len' = [len EXCEPT ![p] = n]
          /\ Goto(p, "commit")
          /\ UNCHANGED <<lock, op, mode>>
  /\ UNCHANGED <<ring, blocking, waitq>>

ReadCommit(p) ==
  /\ pc[p] = "commit" /\ op[p] = "read"
  /\ tail' = Advance(tail, len[p])
  /\ count' = count - len[p]
  /\ lock' = NoOne
  /\ Goto(p, "wake")
  /\ UNCHANGED <<buffer, size, head, blocking, waitq, call>>

ring_buffer_clear(p) ==
  /\ pc[p] = "body" /\ op[p] = "clear"
  /\ head' = 0 /\ tail' = 0 /\ count' = 0
  /\ lock' = NoOne
  /\ Goto(p, "wake")
  /\ UNCHANGED <<buffer, size, blocking, waitq, call>>

SetBlocking(p) ==
  /\ pc[p] = "body" /\ op[p] = "set_blocking"
  /\ blocking' = (len[p] # 0)
  /\ lock' = NoOne
  /\ Finish(p)
  /\ UNCHANGED <<ring, waitq>>

-----------------------------------------------------------------------------
(* ring_buffer_resize: the oldest bytes are saved (or lost, when there is  *)
(* no memory for them) and so is the mode; then the whole structure is     *)
(* overwritten with what was saved, its mutex and wait queues made anew.   *)
(* The mutex is free from there on, whoever slept on it or on a queue is   *)
(* on no list any more (Lost is any of those who wait for the mutex: one   *)
(* that still spins gets it); the unlock that follows frees a mutex which  *)
(* may be somebody else's by now.                                          *)
ResizeCopy(p) ==
  /\ pc[p] = "body" /\ op[p] = "resize"
  /\ \/ kbuf' = [kbuf EXCEPT ![p] = Oldest(min(count, len[p]))]
     \/ kbuf' = [kbuf EXCEPT ![p] = <<>>]
  /\ mode' = [mode EXCEPT ![p] = blocking]
  /\ Goto(p, "commit")
  /\ UNCHANGED <<ring, blocking, lock, waitq, op, len>>

Bug_HeadNotWrapped(kept, new) == kept
HeadAfter(kept, new) == kept % new

ResizeReplace(p) ==
  /\ pc[p] = "commit" /\ op[p] = "resize"
  /\ size' = len[p]
  /\ buffer' = [j \in 0 .. len[p] - 1 |->
                  IF j < Len(kbuf[p]) THEN kbuf[p][j + 1] ELSE Garbage]
  /\ tail' = 0
  /\ count' = Len(kbuf[p])
  /\ head' = HeadAfter(Len(kbuf[p]), len[p])
  /\ lock' = NoOne
  /\ waitq' = [d \in Directions |-> {}]
  /\ \E Lost \in SUBSET {q \in Procs : pc[q] = "lock"} :
       pc' = [q \in Procs |-> IF q = p THEN "unlock"
                              ELSE IF q \in Lost THEN "hung" ELSE pc[q]]
  /\ blocking' = mode[p]
  /\ UNCHANGED call

ResizeUnlock(p) ==
  /\ pc[p] = "unlock"
  /\ lock' = NoOne
  /\ Goto(p, "wake")
  /\ UNCHANGED <<ring, blocking, waitq, call>>

-----------------------------------------------------------------------------
(* The queues a call wakes when it is done.                                *)
Bug_WakesOwnSide(o) == IF o \in Directions THEN {o} ELSE Directions
Wakes(o) == CASE o = "write" -> {"read"}
              [] o = "resize" -> Directions
              [] OTHER -> {"write"}

(* wake_up_interruptible, and the return to user space.                    *)
WakeUp(p) ==
  /\ pc[p] = "wake"
  /\ pc' = [q \in Procs |->
              IF q = p THEN "idle"
              ELSE IF \E d \in Wakes(op[p]) : q \in waitq[d] THEN "wait" ELSE pc[q]]
  /\ waitq' = [d \in Directions |-> IF d \in Wakes(op[p]) THEN {} ELSE waitq[d]]
  /\ EndCall(p)
  /\ UNCHANGED <<ring, blocking, lock>>

Step(p) ==
  \/ TryRead(p) \/ wait_event(p)
  \/ WriteCopy(p) \/ WriteCommit(p)
  \/ ReadCopy(p) \/ ReadCommit(p)
  \/ ring_buffer_clear(p) \/ SetBlocking(p)
  \/ ResizeCopy(p) \/ ResizeReplace(p) \/ ResizeUnlock(p)
  \/ WakeUp(p)

Next == \E p \in Procs :
  rb_read(p) \/ rb_write(p) \/ rb_ioctl(p) \/ Interrupted(p) \/ mutex_lock(p) \/ Step(p)

Spec == Init /\ [][Next]_vars

(* A process inside the driver is scheduled, and a mutex that keeps being  *)
(* released is got in the end (the kernel hands it over).  Nobody has to   *)
(* make a call, and no signal has to come.                                 *)
FairSpec == Spec /\ \A p \in Procs : WF_vars(Step(p)) /\ SF_vars(mutex_lock(p))

-----------------------------------------------------------------------------
Labels == {"idle", "try", "wait", "asleep", "lock", "body", "commit", "unlock",
           "wake", "hung"}

(* The three positions stay inside the buffer and consistent: head is      *)
(* count bytes past tail, whichever of the calls moved them, around the    *)
(* end or through a resize, and no more bytes are counted than fit.        *)
IndexesAgree ==
  /\ head \in 0 .. size - 1 /\ tail \in 0 .. size - 1 /\ count \in 0 .. size
  /\ head = (tail + count) % size

(* Nobody sleeps through what it waits for: while a sleeping reader could  *)
(* read, or a sleeping writer could write all it has, some call is about   *)
(* to wake it (the wake-ups come after the unlock).                        *)
NoLostWakeup ==
  \A p \in Procs : pc[p] = "asleep" /\ Ready(p) =>
    \E q \in Procs : pc[q] = "wake" /\ op[p] \in Wakes(op[q])

(* The device is a first-in-first-out queue of bytes: what is read is what *)
(* was written, in order, nothing twice, nothing missing from the middle.  *)
Fifo == INSTANCE ByteFifo WITH
  Start    <- DefaultSize,
  queue    <- Oldest(count),
  capacity <- size,
  offered  <- [p \in Procs |-> IF op[p] = "write" /\ pc[p] \notin {"idle", "wake"}
                               THEN kbuf[p] ELSE <<>>],
  taken    <- [p \in Procs |-> IF op[p] = "read" /\ pc[p] = "wake"
                               THEN kbuf[p] ELSE <<>>]
ImplementsFifo == Fifo!Spec

(* Every call that does not wait for data or space comes to its end: no    *)
(* path keeps the mutex (early returns of ring_buffer_write and _read).    *)
(* Together with NoLostWakeup: no sleeper that could go on is forgotten.   *)
CallsReturn ==
  \A p \in Procs : pc[p] \in {"lock", "body", "commit", "unlock", "wake"} ~>
                   pc[p] = "idle"

(* The comment in ring_buffer_resize: all who wait are woken.              *)
ResizeWakesAll ==
  [][\A p \in Procs : op[p] = "resize" /\ pc[p] = "wake" /\ pc'[p] = "idle"
       => \A q \in Procs : pc'[q] # "asleep"]_vars
=============================================================================
