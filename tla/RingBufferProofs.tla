-------------------------- MODULE RingBufferProofs --------------------------
(***************************************************************************)
(* Proofs about RingBufferDev, for any number of processes and any size of *)
(* the buffer, as long as nobody resizes it.  (A resize overwrites the     *)
(* mutex and the wait queues, and the facts below are false after it.)     *)
(* The facts about the indexes and the bytes, in the second half, also     *)
(* hold when a single process makes every call, resize among them.         *)
(***************************************************************************)
EXTENDS RingBufferDev, SequenceTheorems, TLAPS

NoResize == \A p \in Procs : "resize" \notin Calls[p]

Inside == {"body", "commit"}

Types ==
  /\ size \in Nat \ {0}
  /\ waitq \in [Directions -> SUBSET Procs]
  /\ pc \in [Procs -> Labels]
  /\ op \in [Procs -> Operations \cup {"none"}]
  /\ len \in [Procs -> Nat]

NobodyResizes == \A p \in Procs : op[p] # "resize" /\ pc[p] # "unlock"

(* The mutex works: who is between the copy and the unlock holds it.       *)
LockHeld == \A p \in Procs : pc[p] \in Inside => lock = p

(* What the copy decided still fits when the indexes are updated.          *)
CountFits ==
  /\ count \in 0 .. size
  /\ \A p \in Procs : pc[p] = "commit" =>
       /\ op[p] = "write" => count + len[p] <= size
       /\ op[p] = "read" => len[p] <= count

(* Who sleeps is on the queue of its call, and nobody else is on a queue.  *)
Queued ==
  /\ \A p \in Procs :
       /\ pc[p] \in {"try", "wait", "asleep"} => op[p] \in Directions
       /\ pc[p] = "asleep" => p \in waitq[op[p]]
  /\ \A d \in Directions : \A p \in waitq[d] : pc[p] = "asleep" /\ op[p] = d

IInv == Types /\ NobodyResizes /\ LockHeld /\ CountFits /\ Queued /\ NoLostWakeup

-----------------------------------------------------------------------------
LEMMA InitIInv == Init => IInv
<1> SUFFICES ASSUME Init PROVE IInv
  OBVIOUS
<1> USE DeviceAssumption DEF Init
<1>1. Types
  BY DEF Types, Labels, Operations, Directions
<1>2. NobodyResizes /\ LockHeld /\ CountFits /\ Queued
  BY DEF NobodyResizes, LockHeld, CountFits, Queued, Inside
<1>3. NoLostWakeup
  BY DEF NoLostWakeup
<1> QED BY <1>1, <1>2, <1>3 DEF IInv

(* A call that enters the driver is not asleep and wakes nobody.           *)
LEMMA EnterStep ==
  ASSUME IInv, NoResize, NEW p \in Procs, rb_read(p) \/ rb_write(p) \/ rb_ioctl(p)
  PROVE  IInv'
<1> USE DeviceAssumption DEF IInv
<1>1. PICK o \in Operations \ {"resize"}, n \in Nat,
           label \in {"wait", "try", "lock"} :
        /\ pc[p] = "idle"
        /\ label \in {"wait", "try"} => o \in Directions
        /\ pc' = [pc EXCEPT ![p] = label]
        /\ op' = [op EXCEPT ![p] = o]
        /\ len' = [len EXCEPT ![p] = n]
        /\ UNCHANGED <<ring, blocking, lock, waitq>>
  BY DEF NoResize, rb_read, rb_write, rb_ioctl, Enter, Operations, Directions
<1>2. Types'
  BY <1>1 DEF Types, Labels, ring
<1>3. NobodyResizes' /\ LockHeld' /\ CountFits' /\ Queued'
  BY <1>1 DEF NobodyResizes, LockHeld, CountFits, Queued, Inside, Types, ring
<1>4. NoLostWakeup'
  BY <1>1 DEF NoLostWakeup, Ready, Types, ring
<1> QED BY <1>2, <1>3, <1>4

(* A call that is refused, or done without a wake-up, leaves the buffer    *)
(* alone, and the mutex too unless it holds it.                            *)
LEMMA CallEnds ==
  ASSUME IInv, NEW p \in Procs, pc[p] \notin {"asleep", "wake"},
         pc' = [pc EXCEPT ![p] = "idle"], EndCall(p),
         UNCHANGED <<ring, waitq>>,
         lock' = lock \/ lock = p
  PROVE  IInv'
<1> USE DEF IInv, EndCall, ring
<1>1. Types'
  BY DEF Types, Labels, Operations
<1>2. NobodyResizes' /\ CountFits' /\ Queued'
  BY DEF NobodyResizes, CountFits, Queued, Types
<1>3. LockHeld'
  BY DEF LockHeld, Inside, Types
<1>4. NoLostWakeup'
  BY DEF NoLostWakeup, Ready, Types
<1> QED BY <1>1, <1>2, <1>3, <1>4

(* A step of a waiting call: it goes to sleep only while its condition is  *)
(* false, and then it is on its queue.                                     *)
LEMMA WaitStep ==
  ASSUME IInv, NEW p \in Procs, TryRead(p) \/ wait_event(p) \/ Interrupted(p)
  PROVE  IInv'
<1> USE DEF IInv
<1>1. CASE TryRead(p)
  <2>1. CASE count = 0
    BY <1>1, <2>1, CallEnds DEF TryRead, Finish, Goto
  <2>2. CASE count # 0
    <3> USE <1>1, <2>2 DEF TryRead, Goto, call, ring
    <3>1. Types'
      BY DEF Types, Labels
    <3>2. NobodyResizes' /\ LockHeld' /\ CountFits' /\ Queued'
      BY DEF NobodyResizes, LockHeld, CountFits, Queued, Inside, Types
    <3>3. NoLostWakeup'
      BY DEF NoLostWakeup, Ready, Types
    <3> QED BY <3>1, <3>2, <3>3
  <2> QED BY <2>1, <2>2
<1>2. CASE wait_event(p)
  <2> USE <1>2 DEF wait_event, Goto, call, ring
  <2>1. Types'
    BY DEF Types, Labels, Operations, Directions, Queued
  <2>2. NobodyResizes' /\ LockHeld' /\ CountFits' /\ Queued'
    BY DEF NobodyResizes, LockHeld, CountFits, Queued, Inside, Types, Directions
  <2>3. NoLostWakeup'
    BY DEF NoLostWakeup, Ready, Types
  <2> QED BY <2>1, <2>2, <2>3
<1>3. CASE Interrupted(p)
  <2> USE <1>3 DEF Interrupted, Finish, EndCall, Goto, ring
  <2>1. Types'
    BY DEF Types, Labels, Operations, Directions, Queued
  <2>2. NobodyResizes' /\ LockHeld' /\ CountFits' /\ Queued'
    BY DEF NobodyResizes, LockHeld, CountFits, Queued, Inside, Types, Directions
  <2>3. NoLostWakeup'
    BY DEF NoLostWakeup, Ready, Types
  <2> QED BY <2>1, <2>2, <2>3
<1> QED BY <1>1, <1>2, <1>3

(* The copy of a read or a write settles how many bytes will move.         *)
LEMMA CopyStep ==
  ASSUME IInv, NEW p \in Procs, NEW n \in Nat,
         pc[p] = "body",
         \/ op[p] = "write" /\ count + n <= size
         \/ op[p] = "read" /\ n <= count,
         pc' = [pc EXCEPT ![p] = "commit"],
         len' = [len EXCEPT ![p] = n],
         UNCHANGED <<size, count, lock, op, waitq>>
  PROVE  IInv'
<1> USE DEF IInv
<1>1. Types'
  BY DEF Types, Labels
<1>2. NobodyResizes' /\ LockHeld' /\ Queued'
  BY DEF NobodyResizes, LockHeld, Queued, Inside, Types
<1>3. CountFits'
  BY DEF CountFits, Types
<1>4. NoLostWakeup'
  BY DEF NoLostWakeup, Ready, Types
<1> QED BY <1>1, <1>2, <1>3, <1>4

(* The steps that leave count alone wake nobody and put nobody to sleep.   *)
LEMMA QuietStep ==
  ASSUME IInv, NEW p \in Procs,
         mutex_lock(p) \/ WriteCopy(p) \/ ReadCopy(p) \/ SetBlocking(p)
  PROVE  IInv'
<1> USE DeviceAssumption DEF IInv
<1>1. CASE mutex_lock(p)
  <2> USE <1>1 DEF mutex_lock, CanLock, Goto, call, ring
  <2>1. Types'
    BY DEF Types, Labels
  <2>2. NobodyResizes' /\ LockHeld' /\ CountFits' /\ Queued'
    BY DEF NobodyResizes, LockHeld, CountFits, Queued, Inside, Types
  <2>3. NoLostWakeup'
    BY DEF NoLostWakeup, Ready, Types
  <2> QED BY <2>1, <2>2, <2>3
<1>2. CASE WriteCopy(p)
  <2>1. CASE count = size
    BY <1>2, <2>1, CallEnds DEF WriteCopy, Refuse, Finish, Goto, LockHeld, Inside
  <2>2. CASE count # size
    <3> DEFINE n == min(len[p], size - count)
    <3>1. n \in Nat /\ count + n <= size
      BY <2>2 DEF Types, CountFits, min
    <3>2. /\ pc[p] = "body" /\ op[p] = "write"
          /\ pc' = [pc EXCEPT ![p] = "commit"]
          /\ len' = [len EXCEPT ![p] = n]
          /\ UNCHANGED <<size, count, lock, op, waitq>>
      BY <1>2, <2>2 DEF WriteCopy, Accepted, Goto
    <3> HIDE DEF n
    <3> QED BY <3>1, <3>2, CopyStep
  <2> QED BY <2>1, <2>2
<1>3. CASE ReadCopy(p)
  <2>1. CASE count = 0
    BY <1>3, <2>1, CallEnds DEF ReadCopy, Refuse, Finish, Goto, LockHeld, Inside
  <2>2. CASE count # 0
    <3> DEFINE n == min(len[p], count)
    <3>1. n \in Nat /\ n <= count
      BY <2>2 DEF Types, CountFits, min
    <3>2. /\ pc[p] = "body" /\ op[p] = "read"
          /\ pc' = [pc EXCEPT ![p] = "commit"]
          /\ len' = [len EXCEPT ![p] = n]
          /\ UNCHANGED <<size, count, lock, op, waitq>>
      BY <1>3, <2>2 DEF ReadCopy, Goto, ring
    <3> HIDE DEF n
    <3> QED BY <3>1, <3>2, CopyStep
  <2> QED BY <2>1, <2>2
<1>4. CASE SetBlocking(p)
  BY <1>4, CallEnds DEF SetBlocking, Finish, Goto, LockHeld, Inside
<1> QED BY <1>1, <1>2, <1>3, <1>4

(* The steps that change count.  Adding bytes can make a reader ready, and *)
(* the call that added them still has to wake the readers; removing bytes  *)
(* can make a writer ready, and likewise.                                  *)
LEMMA CommitStep ==
  ASSUME IInv, NEW p \in Procs,
         WriteCommit(p) \/ ReadCommit(p) \/ ring_buffer_clear(p)
  PROVE  IInv'
<1> USE DeviceAssumption DEF IInv
<1>1. CASE WriteCommit(p)
  <2> USE <1>1 DEF WriteCommit, Goto, call
  <2>1. Types'
    BY DEF Types, Labels
  <2>2. NobodyResizes' /\ LockHeld' /\ Queued'
    BY DEF NobodyResizes, LockHeld, Queued, Inside, Types
  <2>3. CountFits'
    BY DEF CountFits, LockHeld, Inside, Types
  <2>4. pc'[p] = "wake" /\ "read" \in Wakes(op'[p])
    BY DEF Types, Wakes
  <2>5. NoLostWakeup'
    BY <2>4 DEF NoLostWakeup, Ready, Types, CountFits, Queued, Directions
  <2> QED BY <2>1, <2>2, <2>3, <2>5
<1>2. CASE ReadCommit(p)
  <2> USE <1>2 DEF ReadCommit, Goto, call
  <2>1. Types'
    BY DEF Types, Labels
  <2>2. NobodyResizes' /\ LockHeld' /\ Queued'
    BY DEF NobodyResizes, LockHeld, Queued, Inside, Types
  <2>3. CountFits'
    BY DEF CountFits, LockHeld, Inside, Types
  <2>4. pc'[p] = "wake" /\ "write" \in Wakes(op'[p])
    BY DEF Types, Wakes
  <2>5. NoLostWakeup'
    BY <2>4 DEF NoLostWakeup, Ready, Types, CountFits, Queued, Directions
  <2> QED BY <2>1, <2>2, <2>3, <2>5
<1>3. CASE ring_buffer_clear(p)
  <2> USE <1>3 DEF ring_buffer_clear, Goto, call
  <2>1. Types'
    BY DEF Types, Labels
  <2>2. NobodyResizes' /\ LockHeld' /\ Queued'
    BY DEF NobodyResizes, LockHeld, Queued, Inside, Types
  <2>3. CountFits'
    BY DEF CountFits, LockHeld, Inside, Types
  <2>4. pc'[p] = "wake" /\ "write" \in Wakes(op'[p])
    BY DEF Types, Wakes
  <2>5. NoLostWakeup'
    BY <2>4 DEF NoLostWakeup, Ready, Types, CountFits, Queued, Directions
  <2> QED BY <2>1, <2>2, <2>3, <2>5
<1> QED BY <1>1, <1>2, <1>3

(* Who sleeps on a queue that is woken does not sleep any more; a sleeper  *)
(* on the other queue is not the business of this call.                    *)
LEMMA WakeStep ==
  ASSUME IInv, NEW p \in Procs, WakeUp(p)
  PROVE  IInv'
<1> DEFINE woken == {q \in Procs : \E d \in Wakes(op[p]) : q \in waitq[d]}
<1> USE DEF IInv
<1>1. /\ pc[p] = "wake"
      /\ pc' = [q \in Procs |-> IF q = p THEN "idle"
                                ELSE IF q \in woken THEN "wait" ELSE pc[q]]
      /\ op' = [op EXCEPT ![p] = "none"]
      /\ len' = [len EXCEPT ![p] = 0]
      /\ waitq' = [d \in Directions |-> IF d \in Wakes(op[p]) THEN {} ELSE waitq[d]]
      /\ UNCHANGED <<size, count, lock>>
  BY DEF WakeUp, EndCall, ring
<1>2. Wakes(op[p]) \subseteq Directions
  BY DEF Wakes, Directions
<1>3. \A q \in woken : pc[q] = "asleep" /\ op[q] \in Wakes(op[p])
  BY <1>2 DEF Queued
<1>4. \A q \in Procs : pc[q] = "asleep" /\ op[q] \in Wakes(op[p]) => q \in woken
  BY DEF Queued
<1> HIDE DEF woken
<1>5. Types'
  BY <1>1 DEF Types, Labels, Operations
<1>6. NobodyResizes' /\ LockHeld' /\ CountFits'
  BY <1>1 DEF NobodyResizes, LockHeld, CountFits, Inside, Types
<1>7. Queued'
  <2>1. ASSUME NEW q \in Procs, q # p
        PROVE  /\ pc'[q] = "wait" => op'[q] \in Directions
               /\ pc'[q] = "try" => op'[q] \in Directions
               /\ pc'[q] = "asleep" => op'[q] \in Directions /\ q \in waitq'[op'[q]]
    BY <1>1, <1>2, <1>3, <1>4, <2>1 DEF Queued, Types
  <2>2. ASSUME NEW d \in Directions, NEW q \in waitq'[d]
        PROVE  pc'[q] = "asleep" /\ op'[q] = d
    <3>1. d \notin Wakes(op[p]) /\ q \in waitq[d] /\ q \in Procs
      BY <1>1, <2>2 DEF Types
    <3>2. pc[q] = "asleep" /\ op[q] = d
      BY <3>1 DEF Queued
    <3> QED BY <1>1, <1>3, <3>1, <3>2 DEF Types
  <2>3. pc'[p] = "idle"
    BY <1>1 DEF Types
  <2> QED BY <2>1, <2>2, <2>3 DEF Queued
<1>8. NoLostWakeup'
  <2> SUFFICES ASSUME NEW s \in Procs, (pc[s] = "asleep" /\ Ready(s))'
               PROVE  \E q \in Procs : (pc[q] = "wake" /\ op[s] \in Wakes(op[q]))'
    BY DEF NoLostWakeup
  <2>1. /\ s # p /\ pc[s] = "asleep" /\ s \notin woken
        /\ op'[s] = op[s] /\ len'[s] = len[s]
    BY <1>1 DEF Types
  <2>2. Ready(s)
    BY <1>1, <2>1 DEF Ready
  <2>3. op[s] \notin Wakes(op[p])
    BY <1>4, <2>1
  <2>4. PICK q \in Procs : pc[q] = "wake" /\ op[s] \in Wakes(op[q])
    BY <2>1, <2>2 DEF NoLostWakeup
  <2>5. q # p /\ q \notin woken
    BY <1>3, <2>3, <2>4
  <2>6. pc'[q] = "wake" /\ op'[q] = op[q]
    BY <1>1, <2>4, <2>5 DEF Types
  <2>7. op'[s] \in Wakes(op'[q])
    BY <2>1, <2>4, <2>6
  <2>8. (Wakes(op[q]))' = Wakes(op'[q])
    BY DEF Wakes
  <2> QED BY <2>6, <2>7, <2>8
<1> QED BY <1>5, <1>6, <1>7, <1>8

(* Nobody sleeps through data or space: the wake-up that follows the       *)
(* unlock in ring_buffer_write, _read and _clear is always still to come.  *)
THEOREM NoLostWakeupHolds == ASSUME NoResize PROVE Spec => []NoLostWakeup
<1>1. Init => IInv
  BY InitIInv
<1>2. IInv /\ [Next]_vars => IInv'
  <2> SUFFICES ASSUME IInv, [Next]_vars PROVE IInv'
    OBVIOUS
  <2>1. CASE UNCHANGED vars
    BY <2>1 DEF vars, ring, call, IInv, Types, NobodyResizes, LockHeld, CountFits,
       Queued, NoLostWakeup, Ready
  <2>2. ASSUME NEW p \in Procs,
               rb_read(p) \/ rb_write(p) \/ rb_ioctl(p) \/ Interrupted(p)
                 \/ mutex_lock(p) \/ Step(p)
        PROVE  IInv'
    <3>1. ~ResizeCopy(p) /\ ~ResizeReplace(p) /\ ~ResizeUnlock(p)
      BY DEF IInv, NobodyResizes, ResizeCopy, ResizeReplace, ResizeUnlock
    <3> QED BY <2>2, <3>1, NoResize, EnterStep, WaitStep, QuietStep, CommitStep, WakeStep
            DEF Step
  <2> QED BY <2>1, <2>2 DEF Next
<1>3. IInv => NoLostWakeup
  BY DEF IInv
<1> QED BY <1>1, <1>2, <1>3, PTL DEF Spec

-----------------------------------------------------------------------------
(* The bytes.  A resize frees a mutex that may be somebody else's, so      *)
(* either nobody resizes or there is nobody else.                          *)
Undisturbed == NoResize \/ \A p, q \in Procs : p = q

Governed == NoResize => NobodyResizes

Cells == Bytes \cup {Garbage}

RingTypes ==
  /\ buffer \in [0 .. size - 1 -> Cells]
  /\ kbuf \in [Procs -> Seq(Cells)]

(* Who is on a queue sleeps there for its own call.                        *)
Sleepers == \A d \in Directions : \A p \in waitq[d] : pc[p] = "asleep" /\ op[p] = d

(* A write still carries all its bytes up to its copy, and a resize the    *)
(* size it was given.                                                      *)
Carried == \A p \in Procs :
  /\ op[p] = "resize" => len[p] # 0
  /\ pc[p] = "unlock" => op[p] = "resize"
  /\ pc[p] = "try" => op[p] = "read"
  /\ op[p] = "write" /\ pc[p] \in {"wait", "asleep", "lock", "body"} =>
       len[p] = Len(kbuf[p])

(* Between the copy and the update of the indexes: the bytes of a write    *)
(* lie in front of head, as many as fit; a read has the oldest bytes, and  *)
(* so has a resize, unless there was no memory for them.                   *)
Moving == \A p \in Procs : pc[p] = "commit" =>
  /\ op[p] \in {"read", "write", "resize"}
  /\ op[p] = "write" =>
       /\ count + len[p] <= size /\ len[p] <= Len(kbuf[p])
       /\ len[p] = Len(kbuf[p]) \/ count + len[p] = size
       /\ \A j \in 1 .. len[p] : buffer[(head + j - 1) % size] = kbuf[p][j]
  /\ op[p] = "read" => len[p] <= count /\ kbuf[p] = Oldest(len[p])
  /\ op[p] = "resize" => kbuf[p] = <<>> \/ kbuf[p] = Oldest(min(count, len[p]))

FifoInv ==
  /\ Types /\ RingTypes /\ Governed /\ LockHeld
  /\ Sleepers /\ Carried /\ Moving /\ IndexesAgree

(* An index at most one turn past the end is brought back by one size.     *)
LEMMA Wrap ==
  \A s \in Nat \ {0} : \A a \in Nat :
    /\ a < s => a % s = a
    /\ s <= a /\ a < s + s => a % s = a - s
<1> TAKE s \in Nat \ {0}
<1> TAKE a \in Nat
<1>1. a < s => a % s = a
  OBVIOUS
<1>2. s <= a /\ a < s + s => a % s = a - s
  OBVIOUS
<1> QED BY <1>1, <1>2

(* The two cases of the code's index update are one: modulo the size.      *)
LEMMA AdvanceWraps ==
  ASSUME size \in Nat \ {0}, NEW from \in 0 .. size - 1, NEW n \in 0 .. size
  PROVE  /\ Advance(from, n) = IF from + n < size THEN from + n ELSE from + n - size
         /\ Advance(from, n) \in 0 .. size - 1
<1>1. CASE n > size - from
  BY <1>1 DEF Advance, min
<1>2. CASE n <= size - from
  <2>1. Advance(from, n) = (from + n) % size
    BY <1>2 DEF Advance, min
  <2>2. (from + n) % size = IF from + n < size THEN from + n ELSE from + n - size
    BY <1>2, Wrap
  <2> QED BY <1>2, <2>1, <2>2
<1> QED BY <1>1, <1>2

(* What is counted is a sequence of cells.                                 *)
LEMMA OldestIsSeq ==
  ASSUME FifoInv, NEW n \in 0 .. count
  PROVE  /\ Oldest(n) \in Seq(Cells) /\ Len(Oldest(n)) = n
         /\ \A j \in 1 .. n : Oldest(n)[j] = buffer[(tail + j - 1) % size]
<1> USE DEF FifoInv, Types, RingTypes, IndexesAgree
<1>1. n \in Nat
  OBVIOUS
<1>2. \A j \in 1 .. n : buffer[(tail + j - 1) % size] \in Cells
  <2> TAKE j \in 1 .. n
  <2>1. (tail + j - 1) % size \in 0 .. size - 1
    BY <1>1
  <2> QED BY <2>1
<1>3. Oldest(n) \in [1 .. n -> Cells]
  BY <1>2 DEF Oldest
<1>4. Oldest(n) \in Seq(Cells) /\ Len(Oldest(n)) = n
  BY <1>1, <1>3
<1> QED BY <1>4 DEF Oldest

LEMMA InitFifo == Init => FifoInv
<1> SUFFICES ASSUME Init PROVE FifoInv
  OBVIOUS
<1> USE DeviceAssumption DEF Init
<1>1. Types
  BY InitIInv DEF IInv
<1>2. RingTypes
  BY DEF RingTypes, Cells
<1>3. Governed /\ LockHeld /\ Sleepers /\ Carried /\ Moving
  BY DEF Governed, NobodyResizes, LockHeld, Inside, Sleepers, Carried, Moving
<1>4. IndexesAgree
  BY Wrap DEF IndexesAgree
<1> QED BY <1>1, <1>2, <1>3, <1>4 DEF FifoInv

(* A step that leaves the buffer alone and brings no call to its commit:   *)
(* it may begin, end or move on calls, take or free the mutex.             *)
LEMMA QuietFifo ==
  ASSUME FifoInv, UNCHANGED ring, Types', Governed', LockHeld', Sleepers',
         kbuf' \in [Procs -> Seq(Cells)],
         \A q \in Procs : pc'[q] = "commit" =>
           pc[q] = "commit" /\ op'[q] = op[q] /\ len'[q] = len[q] /\ kbuf'[q] = kbuf[q],
         Carried'
  PROVE  FifoInv'
<1> USE DEF FifoInv, ring
<1>1. RingTypes'
  BY DEF RingTypes
<1>2. IndexesAgree'
  BY DEF IndexesAgree
<1>3. Moving'
  <2> SUFFICES ASSUME NEW q \in Procs, pc'[q] = "commit"
               PROVE (/\ op[q] \in {"read", "write", "resize"}
                      /\ op[q] = "write" =>
                           /\ count + len[q] <= size /\ len[q] <= Len(kbuf[q])
                           /\ len[q] = Len(kbuf[q]) \/ count + len[q] = size
                           /\ \A j \in 1 .. len[q] :
                                buffer[(head + j - 1) % size] = kbuf[q][j]
                      /\ op[q] = "read" => len[q] <= count /\ kbuf[q] = Oldest(len[q])
                      /\ op[q] = "resize" =>
                           kbuf[q] = <<>> \/ kbuf[q] = Oldest(min(count, len[q])))'
    BY DEF Moving
  <2>1. /\ pc[q] = "commit" /\ op'[q] = op[q]
        /\ len'[q] = len[q] /\ kbuf'[q] = kbuf[q]
    OBVIOUS
  <2>2. (Oldest(len[q]))' = Oldest(len[q])
    BY <2>1 DEF Oldest
  <2>3. (Oldest(min(count, len[q])))' = Oldest(min(count, len[q]))
    BY <2>1 DEF Oldest, min
  <2> QED BY <2>1, <2>2, <2>3 DEF Moving
<1> QED BY <1>1, <1>2, <1>3

LEMMA EnterFifo ==
  ASSUME FifoInv, NEW p \in Procs, rb_read(p) \/ rb_write(p) \/ rb_ioctl(p)
  PROVE  FifoInv'
<1> USE DeviceAssumption DEF FifoInv
<1>1. PICK o \in Operations, n \in Nat, bytes \in Seq(Cells),
           label \in {"wait", "try", "lock"} :
        /\ pc[p] = "idle" /\ o \in Calls[p]
        /\ o = "write" => n = Len(bytes)
        /\ o = "resize" => n # 0
        /\ label = "try" => o = "read"
        /\ pc' = [pc EXCEPT ![p] = label]
        /\ op' = [op EXCEPT ![p] = o]
        /\ len' = [len EXCEPT ![p] = n]
        /\ kbuf' = [kbuf EXCEPT ![p] = bytes]
        /\ UNCHANGED <<ring, blocking, lock, waitq>>
  <2>1. CASE rb_read(p)
    <3>1. PICK n \in Lens : Enter(p, "read", n, <<>>, IF blocking THEN "wait" ELSE "try")
      BY <2>1 DEF rb_read
    <3>2. n \in Nat /\ <<>> \in Seq(Cells) /\ "read" \in Operations
          /\ (IF blocking THEN "wait" ELSE "try") \in {"wait", "try", "lock"}
      BY DEF Operations
    <3> QED BY <3>1, <3>2 DEF Enter
  <2>2. CASE rb_write(p)
    <3>1. PICK n \in Lens : \E bytes \in [1 .. n -> Bytes] :
            Enter(p, "write", n, bytes, IF blocking THEN "wait" ELSE "lock")
      BY <2>2 DEF rb_write
    <3>2. PICK bytes \in [1 .. n -> Bytes] :
            Enter(p, "write", n, bytes, IF blocking THEN "wait" ELSE "lock")
      BY <3>1
    <3>3. n \in Nat /\ bytes \in Seq(Cells) /\ n = Len(bytes)
      BY DEF Cells
    <3> QED BY <3>2, <3>3 DEF Enter, Operations
  <2>3. CASE rb_ioctl(p)
    <3>1. PICK o \in Operations, n \in Nat :
            /\ Enter(p, o, n, <<>>, "lock")
            /\ o # "write" /\ (o = "resize" => n # 0)
      BY <2>3 DEF rb_ioctl, Operations
    <3>2. <<>> \in Seq(Cells)
      OBVIOUS
    <3> QED BY <3>1, <3>2 DEF Enter
  <2> QED BY <2>1, <2>2, <2>3
<1>2. Types'
  BY <1>1 DEF Types, Labels, ring
<1>3. LockHeld' /\ Sleepers'
  BY <1>1 DEF LockHeld, Sleepers, Inside, Types, ring
<1>4. Governed'
  BY <1>1 DEF Governed, NobodyResizes, NoResize, Types
<1>5. Carried'
  BY <1>1 DEF Carried, Types, RingTypes
<1>6. kbuf' \in [Procs -> Seq(Cells)]
  BY <1>1 DEF RingTypes
<1>7. \A q \in Procs : pc'[q] = "commit" =>
        pc[q] = "commit" /\ op'[q] = op[q] /\ len'[q] = len[q] /\ kbuf'[q] = kbuf[q]
  BY <1>1 DEF Types, RingTypes
<1> QED BY <1>1, <1>2, <1>3, <1>4, <1>5, <1>6, <1>7, QuietFifo

(* A call ends: with or without the mutex, awake or by a signal.           *)
LEMMA EndFifo ==
  ASSUME FifoInv, NEW p \in Procs, pc[p] # "commit",
         pc' = [pc EXCEPT ![p] = "idle"], EndCall(p), UNCHANGED ring,
         lock' = lock \/ lock = p,
         \/ pc[p] # "asleep" /\ waitq' = waitq
         \/ waitq' = [waitq EXCEPT ![op[p]] = @ \ {p}]
  PROVE  FifoInv'
<1> USE DEF FifoInv, EndCall
<1>1. Types'
  <2>1. waitq' \in [Directions -> SUBSET Procs]
    BY DEF Types
  <2> QED BY <2>1 DEF Types, Labels, ring
<1>2. LockHeld'
  BY DEF LockHeld, Inside, Types
<1>3. Sleepers'
  BY DEF Sleepers, Types, Directions
<1>4. Governed'
  BY DEF Governed, NobodyResizes, Types
<1>5. Carried'
  BY DEF Carried, Types, RingTypes
<1>6. kbuf' \in [Procs -> Seq(Cells)]
  BY DEF RingTypes
<1>7. \A q \in Procs : pc'[q] = "commit" =>
        pc[q] = "commit" /\ op'[q] = op[q] /\ len'[q] = len[q] /\ kbuf'[q] = kbuf[q]
  BY DEF Types, RingTypes
<1> QED BY <1>1, <1>2, <1>3, <1>4, <1>5, <1>6, <1>7, QuietFifo

(* A call goes on, waiting, sleeping or taking the mutex.                  *)
LEMMA MoveFifo ==
  ASSUME FifoInv, Undisturbed, NEW p \in Procs,
         NEW label \in {"lock", "asleep", "body", "wake"},
         pc' = [pc EXCEPT ![p] = label], UNCHANGED <<ring, op, len, kbuf>>,
         label = "body" => lock = NoOne /\ lock' = p /\ pc[p] = "lock",
         label = "wake" => lock' = NoOne /\ pc[p] = "unlock",
         label \in {"lock", "asleep"} => lock' = lock /\ pc[p] \in {"try", "wait"},
         label = "lock" /\ op[p] = "write" => pc[p] = "wait",
         IF label = "asleep" THEN waitq' = [waitq EXCEPT ![op[p]] = @ \cup {p}]
                                  /\ pc[p] = "wait"
                             ELSE waitq' = waitq
  PROVE  FifoInv'
<1> USE DeviceAssumption DEF FifoInv
<1>1. Types'
  <2>1. waitq' \in [Directions -> SUBSET Procs]
    BY DEF Types
  <2>2. pc' \in [Procs -> Labels]
    BY DEF Types, Labels
  <2> QED BY <2>1, <2>2 DEF Types, ring
<1>2. LockHeld'
  <2>1. CASE label = "wake"
    <3>1. op[p] = "resize" /\ pc[p] = "unlock"
      BY <2>1 DEF Carried
    <3>2. \A q \in Procs : q = p
      BY <3>1 DEF Governed, NobodyResizes, Undisturbed
    <3> QED BY <2>1, <3>2 DEF LockHeld, Inside, Types
  <2>2. CASE label = "body"
    BY <2>2 DEF LockHeld, Inside, Types
  <2>3. CASE label \in {"lock", "asleep"}
    BY <2>3 DEF LockHeld, Inside, Types
  <2> QED BY <2>1, <2>2, <2>3
<1>3. Sleepers'
  <2>1. CASE label = "asleep"
    BY <2>1 DEF Sleepers, Types, Directions
  <2>2. CASE label # "asleep"
    BY <2>2 DEF Sleepers, Types, Directions
  <2> QED BY <2>1, <2>2
<1>4. Governed'
  BY DEF Governed, NobodyResizes, Types
<1>5. Carried'
  BY DEF Carried, Types, RingTypes
<1>6. kbuf' \in [Procs -> Seq(Cells)]
  BY DEF RingTypes
<1>7. \A q \in Procs : pc'[q] = "commit" =>
        pc[q] = "commit" /\ op'[q] = op[q] /\ len'[q] = len[q] /\ kbuf'[q] = kbuf[q]
  BY DEF Types
<1> QED BY <1>1, <1>2, <1>3, <1>4, <1>5, <1>6, <1>7, QuietFifo

LEMMA WakeFifo ==
  ASSUME FifoInv, NEW p \in Procs, WakeUp(p)
  PROVE  FifoInv'
<1> DEFINE woken == {q \in Procs : \E d \in Wakes(op[p]) : q \in waitq[d]}
<1> USE DEF FifoInv
<1>1. /\ pc[p] = "wake"
      /\ pc' = [q \in Procs |-> IF q = p THEN "idle"
                                ELSE IF q \in woken THEN "wait" ELSE pc[q]]
      /\ op' = [op EXCEPT ![p] = "none"]
      /\ len' = [len EXCEPT ![p] = 0]
      /\ kbuf' = [kbuf EXCEPT ![p] = <<>>]
      /\ waitq' = [d \in Directions |-> IF d \in Wakes(op[p]) THEN {} ELSE waitq[d]]
      /\ UNCHANGED <<ring, lock>>
  BY DEF WakeUp, EndCall
<1>2. Wakes(op[p]) \subseteq Directions
  BY DEF Wakes, Directions
<1>3. \A q \in woken : pc[q] = "asleep" /\ op[q] \in Wakes(op[p])
  BY <1>2 DEF Sleepers
<1> HIDE DEF woken
<1>4. Types'
  BY <1>1 DEF Types, Labels, ring
<1>5. LockHeld'
  BY <1>1 DEF LockHeld, Inside, Types
<1>6. Sleepers'
  <2> SUFFICES ASSUME NEW d \in Directions, NEW q \in waitq'[d]
               PROVE  pc'[q] = "asleep" /\ op'[q] = d
    BY DEF Sleepers
  <2>1. d \notin Wakes(op[p]) /\ q \in waitq[d] /\ q \in Procs
    BY <1>1 DEF Types
  <2>2. pc[q] = "asleep" /\ op[q] = d
    BY <2>1 DEF Sleepers
  <2> QED BY <1>1, <1>3, <2>1, <2>2 DEF Types
<1>7. Governed'
  BY <1>1 DEF Governed, NobodyResizes, Types
<1>8. Carried'
  BY <1>1, <1>3 DEF Carried, Types, RingTypes
<1>9. kbuf' \in [Procs -> Seq(Cells)]
  BY <1>1 DEF RingTypes
<1>10. \A q \in Procs : pc'[q] = "commit" =>
         pc[q] = "commit" /\ op'[q] = op[q] /\ len'[q] = len[q] /\ kbuf'[q] = kbuf[q]
  BY <1>1 DEF Types, RingTypes
<1> QED BY <1>1, <1>4, <1>5, <1>6, <1>7, <1>8, <1>9, <1>10, QuietFifo

(* The parts of the invariant that a step inside the mutex keeps for the   *)
(* shape of it: the call copies, or it commits and frees the mutex.        *)
LEMMA InsideFifo ==
  ASSUME FifoInv, NEW p \in Procs, pc[p] \in Inside,
         NEW n \in Nat, NEW bytes \in Seq(Cells),
         NEW label \in {"commit", "wake"},
         pc' = [pc EXCEPT ![p] = label],
         len' = [len EXCEPT ![p] = n], op[p] = "resize" => n # 0,
         kbuf' = [kbuf EXCEPT ![p] = bytes],
         label = "commit" => lock' = lock,
         size' \in Nat \ {0}, UNCHANGED <<op, waitq>>
  PROVE  Types' /\ LockHeld' /\ Sleepers' /\ Governed' /\ Carried'
         /\ kbuf' \in [Procs -> Seq(Cells)]
         /\ (\A q \in Procs : pc'[q] = "commit" => q = p)
<1> USE DEF FifoInv
<1>1. \A q \in Procs : pc[q] \in Inside => q = p
  BY DEF LockHeld
<1>2. Types'
  BY DEF Types, Labels
<1>3. LockHeld' /\ (\A q \in Procs : pc'[q] = "commit" => q = p)
  BY <1>1 DEF LockHeld, Inside, Types
<1>4. Sleepers'
  BY DEF Sleepers, Types, Inside
<1>5. Governed'
  BY DEF Governed, NobodyResizes, Types
<1>6. Carried'
  BY DEF Carried, Types, RingTypes
<1>7. kbuf' \in [Procs -> Seq(Cells)]
  BY DEF RingTypes
<1> QED BY <1>2, <1>3, <1>4, <1>5, <1>6, <1>7

(* The same for an index computed by adding or subtracting, with the       *)
(* operator kept closed.                                                   *)
Mod(a, s) == a % s

LEMMA Turn ==
  \A s \in Nat \ {0} : \A a \in Nat : a < s + s =>
    /\ Mod(a, s) = IF a < s THEN a ELSE a - s
    /\ Mod(a, s) \in 0 .. s - 1
<1> TAKE s \in Nat \ {0}
<1> TAKE a \in Nat
<1> HAVE a < s + s
<1>1. CASE a < s
  BY <1>1 DEF Mod
<1>2. CASE a >= s
  <2>1. a % s = a - s
    BY <1>2
  <2> QED BY <1>2, <2>1 DEF Mod
<1> QED BY <1>1, <1>2

(* Where the copy of a write puts its bytes, and where it puts none.       *)
LEMMA Behind ==
  ASSUME NEW s \in Nat \ {0}, NEW h \in 0 .. s - 1, NEW t \in 0 .. s - 1,
         NEW c \in 0 .. s, h = Mod(t + c, s)
  PROVE  /\ \A j \in 1 .. s : /\ Mod(h + j - 1, s) \in 0 .. s - 1
                              /\ Mod(Mod(h + j - 1, s) - h + s, s) = j - 1
         /\ \A j \in 1 .. c : /\ Mod(t + j - 1, s) \in 0 .. s - 1
                              /\ Mod(Mod(t + j - 1, s) - h + s, s) >= s - c
<1>1. h = IF t + c < s THEN t + c ELSE t + c - s
  BY Turn
<1>2. ASSUME NEW j \in 1 .. s
      PROVE  /\ Mod(h + j - 1, s) \in 0 .. s - 1
             /\ Mod(Mod(h + j - 1, s) - h + s, s) = j - 1
  <2>1. h + j - 1 \in Nat /\ h + j - 1 < s + s
    OBVIOUS
  <2> DEFINE x == Mod(h + j - 1, s)
  <2>2. /\ x \in 0 .. s - 1
        /\ x = IF h + j - 1 < s THEN h + j - 1 ELSE h + j - 1 - s
    BY <2>1, Turn
  <2> HIDE DEF x
  <2>3. x - h + s \in Nat /\ x - h + s < s + s
    BY <2>2
  <2>4. Mod(x - h + s, s) = IF x - h + s < s THEN x - h + s ELSE x - h
    <3> DEFINE y == x - h + s
    <3> HIDE DEF y
    <3>1. y \in Nat /\ y < s + s
      BY <2>3 DEF y
    <3>2. Mod(y, s) = IF y < s THEN y ELSE y - s
      BY <3>1, Turn
    <3> QED BY <2>2, <3>2 DEF y
  <2>5. Mod(x - h + s, s) = j - 1
    BY <2>2, <2>4
  <2> QED BY <2>2, <2>5 DEF x
<1>3. ASSUME NEW j \in 1 .. c
      PROVE  /\ Mod(t + j - 1, s) \in 0 .. s - 1
             /\ Mod(Mod(t + j - 1, s) - h + s, s) >= s - c
  <2>1. t + j - 1 \in Nat /\ t + j - 1 < s + s
    OBVIOUS
  <2> DEFINE x == Mod(t + j - 1, s)
  <2>2. /\ x \in 0 .. s - 1
        /\ x = IF t + j - 1 < s THEN t + j - 1 ELSE t + j - 1 - s
    BY <2>1, Turn
  <2> HIDE DEF x
  <2>3. x - h + s \in Nat /\ x - h + s < s + s
    BY <2>2
  <2>4. Mod(x - h + s, s) = IF x - h + s < s THEN x - h + s ELSE x - h
    <3> DEFINE y == x - h + s
    <3> HIDE DEF y
    <3>1. y \in Nat /\ y < s + s
      BY <2>3 DEF y
    <3>2. Mod(y, s) = IF y < s THEN y ELSE y - s
      BY <3>1, Turn
    <3> QED BY <2>2, <3>2 DEF y
  <2>5. Mod(x - h + s, s) >= s - c
    BY <1>1, <2>2, <2>4
  <2> QED BY <2>2, <2>5 DEF x
<1> QED BY <1>2, <1>3

(* The bytes that are copied in lie behind the counted ones: nothing that  *)
(* is counted changes.                                                     *)
LEMMA WriteCopyKeeps ==
  ASSUME FifoInv, NEW n \in 0 .. size - count, NEW bytes \in Seq(Cells),
         n <= Len(bytes),
         buffer' = [j \in 0 .. size - 1 |->
                      LET k == (j - head + size) % size
                      IN  IF k < n THEN bytes[k + 1] ELSE buffer[j]]
  PROVE  /\ buffer' \in [0 .. size - 1 -> Cells]
         /\ \A j \in 1 .. n : buffer'[(head + j - 1) % size] = bytes[j]
         /\ \A j \in 1 .. count : buffer'[(tail + j - 1) % size]
                                 = buffer[(tail + j - 1) % size]
<1>1. /\ size \in Nat \ {0} /\ head \in 0 .. size - 1 /\ tail \in 0 .. size - 1
      /\ count \in 0 .. size /\ head = (tail + count) % size
      /\ buffer \in [0 .. size - 1 -> Cells]
  BY DEF FifoInv, Types, RingTypes, IndexesAgree
<1> DEFINE K(j) == (j - head + size) % size
<1>2. /\ \A j \in 0 .. size - 1 : K(j) \in Nat
      /\ \A j \in 1 .. size : /\ (head + j - 1) % size \in 0 .. size - 1
                              /\ K((head + j - 1) % size) = j - 1
      /\ \A j \in 1 .. count : /\ (tail + j - 1) % size \in 0 .. size - 1
                              /\ K((tail + j - 1) % size) >= size - count
  <2>1. \A j \in 0 .. size - 1 : K(j) \in Nat
    BY <1>1
  <2>2. head = Mod(tail + count, size)
    BY <1>1 DEF Mod
  <2>3. /\ \A j \in 1 .. size :
             /\ Mod(head + j - 1, size) \in 0 .. size - 1
             /\ Mod(Mod(head + j - 1, size) - head + size, size) = j - 1
        /\ \A j \in 1 .. count :
             /\ Mod(tail + j - 1, size) \in 0 .. size - 1
             /\ Mod(Mod(tail + j - 1, size) - head + size, size) >= size - count
    BY <1>1, <2>2, Behind
  <2> QED BY <2>1, <2>3 DEF Mod
<1>3. buffer' = [j \in 0 .. size - 1 |-> IF K(j) < n THEN bytes[K(j) + 1] ELSE buffer[j]]
  OBVIOUS
<1> HIDE DEF K
<1>4. buffer' \in [0 .. size - 1 -> Cells]
  BY <1>1, <1>2, <1>3
<1>5. ASSUME NEW j \in 1 .. n
      PROVE  buffer'[(head + j - 1) % size] = bytes[j]
  <2>1. j \in 1 .. size /\ j - 1 < n /\ (j - 1) + 1 = j
    BY <1>1
  <2> DEFINE x == (head + j - 1) % size
  <2>2. x \in 0 .. size - 1 /\ K(x) = j - 1
    BY <1>2, <2>1
  <2> HIDE DEF x
  <2>3. buffer'[x] = bytes[j]
    BY <1>3, <2>1, <2>2
  <2> QED BY <2>3 DEF x
<1>6. ASSUME NEW j \in 1 .. count
      PROVE  buffer'[(tail + j - 1) % size] = buffer[(tail + j - 1) % size]
  <2> DEFINE x == (tail + j - 1) % size
  <2>1. x \in 0 .. size - 1 /\ K(x) >= size - count
    BY <1>2
  <2> HIDE DEF x
  <2>2. ~(K(x) < n)
    BY <1>1, <1>2, <2>1
  <2>3. buffer'[x] = buffer[x]
    BY <1>3, <2>1, <2>2
  <2> QED BY <2>3 DEF x
<1> QED BY <1>4, <1>5, <1>6

(* The indexes after n bytes more, and after n bytes less.                 *)
LEMMA IndexesMove ==
  ASSUME size \in Nat \ {0}, IndexesAgree, NEW n \in 0 .. size
  PROVE  /\ count + n <= size =>
               Advance(head, n) \in 0 .. size - 1
               /\ Advance(head, n) = (tail + (count + n)) % size
         /\ n <= count =>
               Advance(tail, n) \in 0 .. size - 1
               /\ head = (Advance(tail, n) + (count - n)) % size
<1>1. /\ head \in 0 .. size - 1 /\ tail \in 0 .. size - 1 /\ count \in 0 .. size
      /\ head = Mod(tail + count, size)
  BY DEF IndexesAgree, Mod
<1>2. head = IF tail + count < size THEN tail + count ELSE tail + count - size
  BY <1>1, Turn
<1>3. ASSUME count + n <= size
      PROVE  /\ Advance(head, n) \in 0 .. size - 1
             /\ Advance(head, n) = Mod(tail + (count + n), size)
  <2>1. /\ Advance(head, n) \in 0 .. size - 1
        /\ Advance(head, n) = IF head + n < size THEN head + n ELSE head + n - size
    BY <1>1, AdvanceWraps
  <2> DEFINE y == tail + (count + n)
  <2>2. y \in Nat /\ y < size + size
    BY <1>1, <1>3
  <2> HIDE DEF y
  <2>3. Mod(y, size) = IF y < size THEN y ELSE y - size
    BY <2>2, Turn
  <2>4. Advance(head, n) = Mod(y, size)
    BY <1>1, <1>2, <1>3, <2>1, <2>3 DEF y
  <2> QED BY <2>1, <2>4 DEF y
<1>4. ASSUME n <= count
      PROVE  /\ Advance(tail, n) \in 0 .. size - 1
             /\ head = Mod(Advance(tail, n) + (count - n), size)
  <2>1. /\ Advance(tail, n) \in 0 .. size - 1
        /\ Advance(tail, n) = IF tail + n < size THEN tail + n ELSE tail + n - size
    BY <1>1, AdvanceWraps
  <2> DEFINE y == Advance(tail, n) + (count - n)
  <2>2. y \in Nat /\ y < size + size
    BY <1>1, <1>4, <2>1
  <2>3. y = IF tail + n < size THEN tail + count ELSE tail + count - size
    BY <1>1, <1>4, <2>1
  <2> HIDE DEF y
  <2>4. Mod(y, size) = IF y < size THEN y ELSE y - size
    BY <2>2, Turn
  <2>5. head = Mod(y, size)
    BY <1>1, <1>2, <1>4, <2>3, <2>4
  <2> QED BY <2>1, <2>5 DEF y
<1> QED BY <1>3, <1>4 DEF Mod

LEMMA WriteCopyFifo ==
  ASSUME FifoInv, NEW p \in Procs, WriteCopy(p), count # size
  PROVE  /\ FifoInv' /\ (Oldest(count))' = Oldest(count)
         /\ pc' = [pc EXCEPT ![p] = "commit"] /\ UNCHANGED <<size, op, kbuf>>
<1> DEFINE n == Accepted(p)
<1> USE DEF FifoInv
<1>1. /\ pc[p] = "body" /\ op[p] = "write"
      /\ buffer' = [j \in 0 .. size - 1 |->
                      LET k == (j - head + size) % size
                      IN  IF k < n THEN kbuf[p][k + 1] ELSE buffer[j]]
      /\ len' = [len EXCEPT ![p] = n]
      /\ pc' = [pc EXCEPT ![p] = "commit"]
      /\ UNCHANGED <<size, head, tail, count, lock, op, kbuf, waitq>>
  BY DEF WriteCopy, Goto
<1>2. /\ size \in Nat \ {0} /\ count \in 0 .. size /\ len[p] \in Nat
      /\ kbuf \in [Procs -> Seq(Cells)] /\ len[p] = Len(kbuf[p])
  BY <1>1 DEF Types, RingTypes, IndexesAgree, Carried
<1>3. /\ n \in 0 .. size - count /\ n \in Nat /\ n <= Len(kbuf[p])
      /\ n = Len(kbuf[p]) \/ count + n = size
  BY <1>2 DEF Accepted, min
<1> HIDE DEF n
<1>4. /\ buffer' \in [0 .. size - 1 -> Cells]
      /\ \A j \in 1 .. n : buffer'[(head + j - 1) % size] = kbuf[p][j]
      /\ \A j \in 1 .. count : buffer'[(tail + j - 1) % size]
                              = buffer[(tail + j - 1) % size]
  BY <1>1, <1>2, <1>3, WriteCopyKeeps
<1>5. /\ Types' /\ LockHeld' /\ Sleepers' /\ Governed' /\ Carried'
      /\ kbuf' \in [Procs -> Seq(Cells)]
      /\ (\A q \in Procs : pc'[q] = "commit" => q = p)
  <2>1. /\ size' \in Nat \ {0} /\ kbuf[p] \in Seq(Cells)
        /\ kbuf' = [kbuf EXCEPT ![p] = kbuf[p]] /\ op[p] # "resize"
    BY <1>1, <1>2
  <2> QED BY <1>1, <1>3, <2>1, InsideFifo DEF Inside
<1>6. RingTypes' /\ IndexesAgree'
  BY <1>1, <1>4, <1>5 DEF RingTypes, IndexesAgree
<1>7. len'[p] = n /\ op'[p] = "write" /\ kbuf'[p] = kbuf[p]
  BY <1>1 DEF Types
<1>8. Moving'
  <2>1. \A j \in 1 .. len'[p] : buffer'[(head' + j - 1) % size'] = kbuf'[p][j]
    BY <1>1, <1>4, <1>7
  <2>2. /\ count' + len'[p] <= size' /\ len'[p] <= Len(kbuf'[p])
        /\ len'[p] = Len(kbuf'[p]) \/ count' + len'[p] = size'
    BY <1>1, <1>2, <1>3, <1>7
  <2> QED BY <1>5, <1>7, <2>1, <2>2 DEF Moving
<1>9. (Oldest(count))' = Oldest(count)
  BY <1>1, <1>4 DEF Oldest
<1> QED BY <1>1, <1>5, <1>6, <1>8, <1>9

LEMMA WriteCommitFifo ==
  ASSUME FifoInv, NEW p \in Procs, WriteCommit(p)
  PROVE  FifoInv'
<1> USE DEF FifoInv
<1>1. /\ pc[p] = "commit" /\ op[p] = "write"
      /\ head' = Advance(head, len[p]) /\ count' = count + len[p]
      /\ pc' = [pc EXCEPT ![p] = "wake"]
      /\ UNCHANGED <<buffer, size, tail, waitq, op, len, kbuf>>
  BY DEF WriteCommit, Goto, call
<1>2. /\ size \in Nat \ {0} /\ count \in 0 .. size /\ len[p] \in 0 .. size
      /\ len[p] \in Nat /\ kbuf[p] \in Seq(Cells) /\ count + len[p] <= size
      /\ len' = [len EXCEPT ![p] = len[p]] /\ kbuf' = [kbuf EXCEPT ![p] = kbuf[p]]
  BY <1>1 DEF Types, RingTypes, IndexesAgree, Moving
<1>3. /\ Types' /\ LockHeld' /\ Sleepers' /\ Governed' /\ Carried'
      /\ kbuf' \in [Procs -> Seq(Cells)]
      /\ (\A q \in Procs : pc'[q] = "commit" => q = p)
  BY <1>1, <1>2, InsideFifo DEF Inside
<1>4. pc'[p] = "wake"
  BY <1>1 DEF Types
<1>5. RingTypes' /\ Moving'
  BY <1>1, <1>3, <1>4 DEF RingTypes, Moving
<1>6. IndexesAgree'
  BY <1>1, <1>2, IndexesMove, SMTT(30) DEF IndexesAgree
<1> QED BY <1>3, <1>5, <1>6

LEMMA ReadCopyFifo ==
  ASSUME FifoInv, NEW p \in Procs, ReadCopy(p), count # 0
  PROVE  /\ FifoInv' /\ pc' = [pc EXCEPT ![p] = "commit"]
         /\ kbuf' = [kbuf EXCEPT ![p] = kbuf'[p]] /\ UNCHANGED <<ring, op>>
<1> DEFINE n == min(len[p], count)
<1> USE DEF FifoInv
<1>1. /\ pc[p] = "body" /\ op[p] = "read"
      /\ kbuf' = [kbuf EXCEPT ![p] = Oldest(n)]
      /\ len' = [len EXCEPT ![p] = n]
      /\ pc' = [pc EXCEPT ![p] = "commit"]
      /\ UNCHANGED <<ring, lock, op, waitq>>
  BY DEF ReadCopy, Goto
<1>2. n \in 0 .. count /\ n \in Nat
  BY DEF min, Types, IndexesAgree
<1> HIDE DEF n
<1>3. Oldest(n) \in Seq(Cells)
  BY <1>2, OldestIsSeq
<1>4. /\ Types' /\ LockHeld' /\ Sleepers' /\ Governed' /\ Carried'
      /\ kbuf' \in [Procs -> Seq(Cells)]
      /\ (\A q \in Procs : pc'[q] = "commit" => q = p)
  <2>1. size' \in Nat \ {0}
    BY <1>1 DEF Types, ring
  <2> QED BY <1>1, <1>2, <1>3, <2>1, InsideFifo DEF Inside
<1>5. RingTypes' /\ IndexesAgree'
  BY <1>1, <1>4 DEF RingTypes, IndexesAgree, ring
<1>6. len'[p] = n /\ op'[p] = "read" /\ kbuf'[p] = Oldest(n)
  BY <1>1 DEF Types, RingTypes
<1>7. (Oldest(len[p]))' = Oldest(n)
  BY <1>1, <1>6 DEF Oldest, ring
<1>8. Moving'
  BY <1>1, <1>2, <1>4, <1>6, <1>7 DEF Moving, ring
<1> QED BY <1>1, <1>4, <1>5, <1>6, <1>8

LEMMA ReadCommitFifo ==
  ASSUME FifoInv, NEW p \in Procs, ReadCommit(p)
  PROVE  FifoInv'
<1> USE DEF FifoInv
<1>1. /\ pc[p] = "commit" /\ op[p] = "read"
      /\ tail' = Advance(tail, len[p]) /\ count' = count - len[p]
      /\ pc' = [pc EXCEPT ![p] = "wake"]
      /\ UNCHANGED <<buffer, size, head, waitq, op, len, kbuf>>
  BY DEF ReadCommit, Goto, call
<1>2. /\ size \in Nat \ {0} /\ count \in 0 .. size /\ len[p] \in 0 .. size
      /\ len[p] \in Nat /\ kbuf[p] \in Seq(Cells) /\ len[p] <= count
      /\ len' = [len EXCEPT ![p] = len[p]] /\ kbuf' = [kbuf EXCEPT ![p] = kbuf[p]]
  BY <1>1 DEF Types, RingTypes, IndexesAgree, Moving
<1>3. /\ Types' /\ LockHeld' /\ Sleepers' /\ Governed' /\ Carried'
      /\ kbuf' \in [Procs -> Seq(Cells)]
      /\ (\A q \in Procs : pc'[q] = "commit" => q = p)
  BY <1>1, <1>2, InsideFifo DEF Inside
<1>4. pc'[p] = "wake"
  BY <1>1 DEF Types
<1>5. RingTypes' /\ Moving'
  BY <1>1, <1>3, <1>4 DEF RingTypes, Moving
<1>6. IndexesAgree'
  BY <1>1, <1>2, IndexesMove, SMTT(30) DEF IndexesAgree
<1> QED BY <1>3, <1>5, <1>6

LEMMA ClearFifo ==
  ASSUME FifoInv, NEW p \in Procs, ring_buffer_clear(p)
  PROVE  FifoInv'
<1> USE DEF FifoInv
<1>1. /\ pc[p] = "body" /\ op[p] = "clear"
      /\ head' = 0 /\ tail' = 0 /\ count' = 0
      /\ pc' = [pc EXCEPT ![p] = "wake"]
      /\ UNCHANGED <<buffer, size, waitq, op, len, kbuf>>
  BY DEF ring_buffer_clear, Goto, call
<1>2. /\ size \in Nat \ {0} /\ len[p] \in Nat /\ kbuf[p] \in Seq(Cells)
      /\ len' = [len EXCEPT ![p] = len[p]] /\ kbuf' = [kbuf EXCEPT ![p] = kbuf[p]]
  BY <1>1 DEF Types, RingTypes
<1>3. /\ Types' /\ LockHeld' /\ Sleepers' /\ Governed' /\ Carried'
      /\ kbuf' \in [Procs -> Seq(Cells)]
      /\ (\A q \in Procs : pc'[q] = "commit" => q = p)
  BY <1>1, <1>2, InsideFifo DEF Inside
<1>4. pc'[p] = "wake"
  BY <1>1 DEF Types
<1>5. RingTypes' /\ Moving'
  BY <1>1, <1>3, <1>4 DEF RingTypes, Moving
<1>6. IndexesAgree'
  BY <1>1, <1>2, Wrap DEF IndexesAgree
<1> QED BY <1>3, <1>5, <1>6

LEMMA ResizeCopyFifo ==
  ASSUME FifoInv, NEW p \in Procs, ResizeCopy(p)
  PROVE  /\ FifoInv' /\ pc' = [pc EXCEPT ![p] = "commit"]
         /\ kbuf' = [kbuf EXCEPT ![p] = kbuf'[p]] /\ UNCHANGED <<ring, op>>
<1> DEFINE n == min(count, len[p])
<1> USE DEF FifoInv
<1>1. PICK bytes : /\ pc[p] = "body" /\ op[p] = "resize"
                   /\ bytes = Oldest(n) \/ bytes = <<>>
                   /\ kbuf' = [kbuf EXCEPT ![p] = bytes]
                   /\ pc' = [pc EXCEPT ![p] = "commit"]
                   /\ UNCHANGED <<ring, lock, op, len, waitq>>
  BY DEF ResizeCopy, Goto
<1>2. n \in 0 .. count /\ n \in Nat
  BY DEF min, Types, IndexesAgree
<1>3. (Oldest(n))' = Oldest(n)
  BY <1>1 DEF Oldest, ring, min
<1> HIDE DEF n
<1>4. bytes \in Seq(Cells)
  <2>1. Oldest(n) \in Seq(Cells) /\ <<>> \in Seq(Cells)
    BY <1>2, OldestIsSeq
  <2> QED BY <1>1, <2>1
<1>5. /\ Types' /\ LockHeld' /\ Sleepers' /\ Governed' /\ Carried'
      /\ kbuf' \in [Procs -> Seq(Cells)]
      /\ (\A q \in Procs : pc'[q] = "commit" => q = p)
  <2>1. /\ size' \in Nat \ {0} /\ len[p] \in Nat /\ len[p] # 0
        /\ len' = [len EXCEPT ![p] = len[p]]
    BY <1>1 DEF Types, ring, Carried
  <2> QED BY <1>1, <1>4, <2>1, InsideFifo DEF Inside
<1>6. RingTypes' /\ IndexesAgree'
  BY <1>1, <1>5 DEF RingTypes, IndexesAgree, ring
<1>7. op'[p] = "resize" /\ kbuf'[p] = bytes
  BY <1>1 DEF Types, RingTypes
<1>8. Moving'
  <2>1. kbuf'[p] = <<>> \/ kbuf'[p] = (Oldest(min(count, len[p])))'
    BY <1>1, <1>3, <1>7 DEF n
  <2> QED BY <1>5, <1>7, <2>1 DEF Moving
<1> QED BY <1>1, <1>5, <1>6, <1>7, <1>8

(* After a resize the bytes that were saved are the bytes that count, from *)
(* the start of the new buffer.                                            *)
LEMMA ResizeReplaceFifo ==
  ASSUME FifoInv, Undisturbed, NEW p \in Procs, ResizeReplace(p)
  PROVE  FifoInv' /\ (Oldest(count))' = kbuf[p] /\ (\A q \in Procs : q = p)
<1> USE DeviceAssumption DEF FifoInv
<1>1. /\ pc[p] = "commit" /\ op[p] = "resize"
      /\ size' = len[p]
      /\ buffer' = [j \in 0 .. len[p] - 1 |->
                      IF j < Len(kbuf[p]) THEN kbuf[p][j + 1] ELSE Garbage]
      /\ tail' = 0 /\ count' = Len(kbuf[p])
      /\ head' = Len(kbuf[p]) % len[p]
      /\ waitq' = [d \in Directions |-> {}]
      /\ UNCHANGED <<op, len, kbuf>>
  BY DEF ResizeReplace, HeadAfter, call
<1>2. \A q \in Procs : q = p
  BY <1>1 DEF Governed, NobodyResizes, Undisturbed
<1>3. pc' \in [Procs -> Labels] /\ pc'[p] = "unlock"
  <2>1. PICK Lost \in SUBSET {q \in Procs : pc[q] = "lock"} :
          pc' = [q \in Procs |-> IF q = p THEN "unlock"
                                 ELSE IF q \in Lost THEN "hung" ELSE pc[q]]
    BY DEF ResizeReplace
  <2> QED BY <2>1 DEF Types, Labels
<1>4. len[p] \in Nat \ {0} /\ kbuf[p] \in Seq(Cells)
  BY <1>1 DEF Types, RingTypes, Carried
<1>5. Len(kbuf[p]) \in Nat /\ Len(kbuf[p]) <= len[p]
  <2>1. CASE kbuf[p] = <<>>
    BY <1>4, <2>1
  <2>2. CASE kbuf[p] = Oldest(min(count, len[p]))
    <3>1. min(count, len[p]) \in 0 .. count /\ min(count, len[p]) <= len[p]
      BY <1>4 DEF min, Types, IndexesAgree
    <3> QED BY <1>4, <2>2, <3>1, OldestIsSeq
  <2> QED BY <1>1, <2>1, <2>2 DEF Moving
<1>6. Types'
  BY <1>1, <1>3, <1>4 DEF Types
<1>7. buffer' \in [0 .. len[p] - 1 -> Cells]
  BY <1>1, <1>4, <1>5 DEF Cells
<1>8. RingTypes'
  BY <1>1, <1>7 DEF RingTypes
<1>9. LockHeld' /\ Sleepers' /\ Moving' /\ Carried'
  BY <1>1, <1>2, <1>3 DEF LockHeld, Inside, Sleepers, Moving, Carried
<1>10. Governed'
  BY <1>1 DEF Governed, NobodyResizes
<1>11. Len(kbuf[p]) % len[p] \in 0 .. len[p] - 1
  BY <1>4, <1>5
<1>12. IndexesAgree'
  BY <1>1, <1>4, <1>5, <1>11 DEF IndexesAgree
<1>13. (Oldest(count))' = kbuf[p]
  <2> DEFINE m == Len(kbuf[p])
  <2>1. (Oldest(count))' = [j \in 1 .. m |-> buffer'[(0 + j - 1) % len[p]]]
    BY <1>1 DEF Oldest
  <2>2. ASSUME NEW j \in 1 .. m
        PROVE  buffer'[(0 + j - 1) % len[p]] = kbuf[p][j]
    <3>1. j - 1 \in Nat /\ j - 1 < m /\ j - 1 < len[p] /\ (j - 1) + 1 = j
      BY <1>4, <1>5
    <3>2. (0 + j - 1) % len[p] = j - 1
      BY <1>4, <3>1
    <3>3. buffer'[j - 1] = kbuf[p][j]
      BY <1>1, <1>4, <3>1
    <3> QED BY <3>2, <3>3
  <2>3. kbuf[p] = [j \in 1 .. m |-> kbuf[p][j]]
    BY <1>4
  <2> QED BY <2>1, <2>2, <2>3
<1> QED BY <1>2, <1>6, <1>8, <1>9, <1>10, <1>12, <1>13

LEMMA FifoStep ==
  ASSUME FifoInv, Undisturbed, [Next]_vars
  PROVE  FifoInv'
<1> USE DeviceAssumption
<1>1. CASE UNCHANGED vars
  BY <1>1 DEF vars, ring, call, FifoInv, Types, RingTypes, Governed, NobodyResizes,
     LockHeld, Sleepers, Carried, Moving, IndexesAgree, Oldest
<1>2. ASSUME NEW p \in Procs,
             rb_read(p) \/ rb_write(p) \/ rb_ioctl(p) \/ Interrupted(p)
               \/ mutex_lock(p) \/ Step(p)
      PROVE  FifoInv'
  <2>1. CASE rb_read(p) \/ rb_write(p) \/ rb_ioctl(p)
    BY <2>1, EnterFifo
  <2>2. CASE Interrupted(p)
    BY <2>2, EndFifo DEF Interrupted, Finish, Goto
  <2>3. CASE mutex_lock(p)
    BY <2>3, MoveFifo DEF mutex_lock, CanLock, Goto, call
  <2>4. CASE TryRead(p)
    <3>1. CASE count = 0
      BY <2>4, <3>1, EndFifo DEF TryRead, Finish, Goto
    <3>2. CASE count # 0
      <4>1. /\ pc[p] = "try" /\ pc' = [pc EXCEPT ![p] = "lock"]
            /\ UNCHANGED <<ring, lock, waitq, op, len, kbuf>>
        BY <2>4, <3>2 DEF TryRead, Goto, call
      <4>2. op[p] # "write"
        BY <4>1 DEF FifoInv, Carried
      <4> QED BY <4>1, <4>2, MoveFifo
    <3> QED BY <3>1, <3>2
  <2>5. CASE wait_event(p)
    BY <2>5, MoveFifo DEF wait_event, Goto, call
  <2>6. CASE WriteCopy(p)
    <3>1. CASE count = size
      BY <2>6, <3>1, EndFifo DEF WriteCopy, Refuse, Finish, Goto, FifoInv, LockHeld, Inside
    <3> QED BY <2>6, <3>1, WriteCopyFifo
  <2>7. CASE ReadCopy(p)
    <3>1. CASE count = 0
      BY <2>7, <3>1, EndFifo DEF ReadCopy, Refuse, Finish, Goto, FifoInv, LockHeld, Inside
    <3> QED BY <2>7, <3>1, ReadCopyFifo
  <2>8. CASE SetBlocking(p)
    BY <2>8, EndFifo DEF SetBlocking, Finish, Goto, FifoInv, LockHeld, Inside
  <2>9. CASE ResizeUnlock(p)
    BY <2>9, MoveFifo DEF ResizeUnlock, Goto, call
  <2> QED BY <1>2, <2>1, <2>2, <2>3, <2>4, <2>5, <2>6, <2>7, <2>8, <2>9, WakeFifo,
             WriteCommitFifo, ReadCommitFifo, ClearFifo, ResizeCopyFifo, ResizeReplaceFifo
          DEF Step
<1> QED BY <1>1, <1>2 DEF Next

(* head is count bytes past tail, around the end of the buffer and through *)
(* every call of the driver, whatever the size and the lengths, for any    *)
(* number of processes that share the device without resizing it and for   *)
(* one process that resizes it.                                            *)
THEOREM IndexesAgreeHolds == ASSUME Undisturbed PROVE Spec => []IndexesAgree
<1>1. Init => FifoInv
  BY InitFifo
<1>2. FifoInv /\ [Next]_vars => FifoInv'
  BY Undisturbed, FifoStep
<1>3. FifoInv => IndexesAgree
  BY DEF FifoInv
<1> QED BY <1>1, <1>2, <1>3, PTL DEF Spec

-----------------------------------------------------------------------------
(* The refinement.  These are the substitutions of Fifo, and the lemma is  *)
(* the initial predicate and the next-state relation of ByteFifo under it. *)
Offered == [p \in Procs |-> IF op[p] = "write" /\ pc[p] \notin {"idle", "wake"}
                            THEN kbuf[p] ELSE <<>>]
Taken == [p \in Procs |-> IF op[p] = "read" /\ pc[p] = "wake" THEN kbuf[p] ELSE <<>>]

LEMMA FifoDefs ==
  /\ Fifo!Init <=> /\ Oldest(count) = <<>> /\ size = DefaultSize
                   /\ Offered = [p \in Procs |-> <<>>]
                   /\ Taken = [p \in Procs |-> <<>>]
  /\ [Fifo!Next]_(Fifo!vars) <=>
       \/ \E p \in Procs :
            \/ /\ Offered[p] = <<>> /\ Offered'[p] \in Seq(Bytes)
               /\ Offered' = [Offered EXCEPT ![p] = Offered'[p]]
               /\ UNCHANGED <<Oldest(count), size, Taken>>
            \/ /\ \E n \in 0 .. Len(Offered[p]) :
                    /\ n = Len(Offered[p]) \/ Len(Oldest(count)) + n = size
                    /\ Len(Oldest(count)) + n <= size
                    /\ (Oldest(count))' = Oldest(count) \o SubSeq(Offered[p], 1, n)
               /\ Offered' = [Offered EXCEPT ![p] = <<>>]
               /\ UNCHANGED <<size, Taken>>
            \/ /\ Offered' = [Offered EXCEPT ![p] = <<>>]
               /\ UNCHANGED <<Oldest(count), size, Taken>>
            \/ /\ Taken[p] = <<>>
               /\ \E n \in 1 .. Len(Oldest(count)) :
                    /\ Taken' = [Taken EXCEPT ![p] = SubSeq(Oldest(count), 1, n)]
                    /\ (Oldest(count))'
                         = SubSeq(Oldest(count), n + 1, Len(Oldest(count)))
               /\ UNCHANGED <<size, Offered>>
            \/ /\ Taken' = [Taken EXCEPT ![p] = <<>>]
               /\ UNCHANGED <<Oldest(count), size, Offered>>
       \/ (Oldest(count))' = <<>> /\ UNCHANGED <<size, Offered, Taken>>
       \/ /\ size' \in Nat
          /\ \/ (Oldest(count))' = SubSeq(Oldest(count), 1,
                    IF Len(Oldest(count)) < size' THEN Len(Oldest(count)) ELSE size')
             \/ (Oldest(count))' = <<>>
          /\ UNCHANGED <<Offered, Taken>>
       \/ UNCHANGED <<Oldest(count), size, Offered, Taken>>
  BY DEF Fifo!Init, Fifo!Next, Fifo!vars, Fifo!Offer, Fifo!Put, Fifo!GiveUp, Fifo!Take,
         Fifo!Return, Fifo!Clear, Fifo!SetCapacity, Fifo!Prefix, Offered, Taken

(* What a process offers and has taken, when its own call moves.           *)
LEMMA OnlyMine ==
  ASSUME NEW p \in Procs,
         \A q \in Procs \ {p} :
           /\ op'[q] = op[q] /\ kbuf'[q] = kbuf[q]
           /\ pc'[q] = pc[q] \/ (pc[q] = "asleep" /\ pc'[q] = "wait")
  PROVE  /\ Offered' = [Offered EXCEPT ![p] = Offered'[p]]
         /\ Taken' = [Taken EXCEPT ![p] = Taken'[p]]
  BY DEF Offered, Taken

(* A step that changes neither what is queued nor what is offered or taken *)
(* is invisible.                                                           *)
LEMMA Invisible ==
  ASSUME NEW p \in Procs, UNCHANGED <<Oldest(count), size>>,
         \A q \in Procs \ {p} :
           /\ op'[q] = op[q] /\ kbuf'[q] = kbuf[q]
           /\ pc'[q] = pc[q] \/ (pc[q] = "asleep" /\ pc'[q] = "wait"),
         Offered'[p] = Offered[p], Taken'[p] = Taken[p]
  PROVE  [Fifo!Next]_(Fifo!vars)
<1>1. UNCHANGED <<Offered, Taken>>
  <2>1. Offered = [Offered EXCEPT ![p] = Offered[p]] /\ Taken = [Taken EXCEPT ![p] = Taken[p]]
    BY DEF Offered, Taken
  <2> QED BY <2>1, OnlyMine
<1> QED BY <1>1, FifoDefs

(* A call that ends: what it offered is given up, what it took returned.   *)
LEMMA EndMaps ==
  ASSUME NEW p \in Procs, UNCHANGED ring, pc'[p] = "idle",
         \A q \in Procs \ {p} :
           /\ op'[q] = op[q] /\ kbuf'[q] = kbuf[q]
           /\ pc'[q] = pc[q] \/ (pc[q] = "asleep" /\ pc'[q] = "wait")
  PROVE  [Fifo!Next]_(Fifo!vars)
<1>1. UNCHANGED <<Oldest(count), size>>
  BY DEF ring, Oldest
<1>2. /\ Offered' = [Offered EXCEPT ![p] = <<>>]
      /\ Taken' = [Taken EXCEPT ![p] = <<>>]
  <2>1. Offered'[p] = <<>> /\ Taken'[p] = <<>>
    BY DEF Offered, Taken
  <2> QED BY <2>1, OnlyMine
<1>3. CASE pc[p] = "wake"
  <2>1. Offered' = Offered
    BY <1>2, <1>3 DEF Offered
  <2> QED BY <1>1, <1>2, <2>1, FifoDefs
<1>4. CASE pc[p] # "wake"
  <2>1. Taken' = Taken
    BY <1>2, <1>4 DEF Taken
  <2> QED BY <1>1, <1>2, <2>1, FifoDefs
<1> QED BY <1>3, <1>4

LEMMA EnterMaps ==
  ASSUME FifoInv, NEW p \in Procs, rb_read(p) \/ rb_write(p) \/ rb_ioctl(p)
  PROVE  [Fifo!Next]_(Fifo!vars)
<1> USE DeviceAssumption DEF FifoInv
<1>1. CASE rb_write(p)
  <2>1. PICK n \in Lens : \E bytes \in [1 .. n -> Bytes] :
          Enter(p, "write", n, bytes, IF blocking THEN "wait" ELSE "lock")
    BY <1>1 DEF rb_write
  <2>2. PICK bytes \in [1 .. n -> Bytes] :
          Enter(p, "write", n, bytes, IF blocking THEN "wait" ELSE "lock")
    BY <2>1
  <2>3. bytes \in Seq(Bytes)
    OBVIOUS
  <2>4. /\ pc[p] = "idle" /\ pc'[p] \in {"wait", "lock"} /\ op'[p] = "write"
        /\ kbuf'[p] = bytes
        /\ \A q \in Procs \ {p} :
             pc'[q] = pc[q] /\ op'[q] = op[q] /\ kbuf'[q] = kbuf[q]
        /\ UNCHANGED ring
    BY <2>2 DEF Enter, Types, RingTypes
  <2>5. /\ Offered[p] = <<>> /\ Offered'[p] = bytes
        /\ Taken[p] = <<>> /\ Taken'[p] = <<>>
    BY <2>4 DEF Offered, Taken
  <2>6. Offered' = [Offered EXCEPT ![p] = Offered'[p]] /\ Taken' = Taken
    <3>1. /\ Offered' = [Offered EXCEPT ![p] = Offered'[p]]
          /\ Taken' = [Taken EXCEPT ![p] = Taken'[p]]
      BY <2>4, OnlyMine
    <3>2. Taken = [Taken EXCEPT ![p] = Taken[p]]
      BY DEF Taken
    <3> QED BY <2>5, <3>1, <3>2
  <2>7. UNCHANGED <<Oldest(count), size>>
    BY <2>4 DEF ring, Oldest
  <2> QED BY <2>3, <2>5, <2>6, <2>7, FifoDefs
<1>2. CASE rb_read(p) \/ rb_ioctl(p)
  <2>1. PICK o \in Operations \ {"write"}, n \in Nat, label \in {"wait", "try", "lock"} :
          Enter(p, o, n, <<>>, label)
    <3>1. \A x \in BOOLEAN : (IF x THEN "wait" ELSE "try") \in {"wait", "try", "lock"}
      OBVIOUS
    <3> QED BY <1>2, <3>1 DEF rb_read, rb_ioctl, Operations
  <2>2. /\ pc[p] = "idle" /\ pc'[p] \in {"wait", "try", "lock"} /\ op'[p] # "write"
        /\ \A q \in Procs \ {p} :
             pc'[q] = pc[q] /\ op'[q] = op[q] /\ kbuf'[q] = kbuf[q]
        /\ UNCHANGED ring
    BY <2>1 DEF Enter, Types, RingTypes
  <2>3. Offered'[p] = Offered[p] /\ Taken'[p] = Taken[p]
    BY <2>2 DEF Offered, Taken
  <2>4. UNCHANGED <<Oldest(count), size>>
    BY <2>2 DEF ring, Oldest
  <2> QED BY <2>2, <2>3, <2>4, Invisible
<1> QED BY <1>1, <1>2

(* Waiting, sleeping, taking the mutex and the copies are invisible.       *)
LEMMA MoveMaps ==
  ASSUME FifoInv, NEW p \in Procs, NEW label \in Labels \ {"idle", "wake"},
         pc[p] \notin {"idle", "wake"},
         pc' = [pc EXCEPT ![p] = label], op' = op,
         kbuf' = [kbuf EXCEPT ![p] = kbuf'[p]],
         op[p] = "write" => kbuf'[p] = kbuf[p],
         UNCHANGED <<Oldest(count), size>>
  PROVE  [Fifo!Next]_(Fifo!vars)
<1> USE DEF FifoInv
<1>1. pc'[p] \notin {"idle", "wake"}
  BY DEF Types
<1>2. \A q \in Procs \ {p} : pc'[q] = pc[q] /\ op'[q] = op[q] /\ kbuf'[q] = kbuf[q]
  BY DEF Types, RingTypes
<1>3. Offered'[p] = Offered[p] /\ Taken'[p] = Taken[p]
  BY <1>1 DEF Offered, Taken
<1> QED BY <1>2, <1>3, Invisible

(* Moving on by c and then by j is moving on by c + j.                     *)
LEMMA Shift ==
  ASSUME NEW s \in Nat \ {0}, NEW t \in 0 .. s - 1, NEW c \in 0 .. s, NEW j \in 1 .. s - c
  PROVE  Mod(Mod(t + c, s) + j - 1, s) = Mod(t + (c + j) - 1, s)
<1> DEFINE x == Mod(t + c, s)
           y == x + j - 1
           z == t + (c + j) - 1
<1>1. x \in 0 .. s - 1 /\ x = IF t + c < s THEN t + c ELSE t + c - s
  BY Turn
<1> HIDE DEF x
<1>2. y \in Nat /\ y < s + s /\ z \in Nat /\ z < s + s
  BY <1>1
<1>3. y = IF t + c < s THEN z ELSE z - s
  BY <1>1
<1> HIDE DEF y, z
<1>4. /\ Mod(y, s) = IF y < s THEN y ELSE y - s
      /\ Mod(z, s) = IF z < s THEN z ELSE z - s
  BY <1>2, Turn
<1>5. t + c >= s => z >= s
  BY <1>1 DEF z
<1>6. Mod(y, s) = Mod(z, s)
  BY <1>2, <1>3, <1>4, <1>5
<1> QED BY <1>6 DEF x, y, z

LEMMA QueueIsSeq ==
  ASSUME FifoInv
  PROVE  /\ Oldest(count) \in Seq(Cells) /\ Len(Oldest(count)) = count
         /\ \A j \in 1 .. count : Oldest(count)[j] = buffer[Mod(tail + j - 1, size)]
<1>1. count \in 0 .. count
  BY DEF FifoInv, IndexesAgree, Types
<1> QED BY <1>1, OldestIsSeq DEF Mod

LEMMA WriteCommitMaps ==
  ASSUME FifoInv, NEW p \in Procs, WriteCommit(p)
  PROVE  [Fifo!Next]_(Fifo!vars)
<1> DEFINE n == len[p]
           Q == Oldest(count)
           K == SubSeq(kbuf[p], 1, n)
<1>1. /\ pc[p] = "commit" /\ op[p] = "write" /\ count' = count + n
      /\ pc' = [pc EXCEPT ![p] = "wake"]
      /\ UNCHANGED <<buffer, size, tail, op, len, kbuf>>
  BY DEF WriteCommit, Goto, call
<1>2. /\ size \in Nat \ {0} /\ count \in 0 .. size /\ tail \in 0 .. size - 1
      /\ head = Mod(tail + count, size)
      /\ n \in Nat /\ kbuf[p] \in Seq(Cells) /\ n <= Len(kbuf[p]) /\ count + n <= size
      /\ n = Len(kbuf[p]) \/ count + n = size
      /\ \A j \in 1 .. n : buffer[Mod(head + j - 1, size)] = kbuf[p][j]
  BY <1>1 DEF FifoInv, Types, RingTypes, IndexesAgree, Moving, Mod
<1>3. /\ Q \in Seq(Cells) /\ Len(Q) = count
      /\ \A j \in 1 .. count : Q[j] = buffer[Mod(tail + j - 1, size)]
  BY QueueIsSeq
<1>4. K \in Seq(Cells) /\ Len(K) = n /\ \A j \in 1 .. n : K[j] = kbuf[p][j]
  BY <1>2, SMTT(30)
<1>5. (Oldest(count))' = [j \in 1 .. count + n |-> buffer[Mod(tail + j - 1, size)]]
  BY <1>1 DEF Oldest, Mod
<1>6. Offered[p] = kbuf[p] /\ Offered'[p] = <<>> /\ Taken'[p] = Taken[p]
  <2>1. pc'[p] = "wake" /\ op'[p] = "write"
    BY <1>1 DEF FifoInv, Types
  <2> QED BY <1>1, <2>1 DEF Offered, Taken
<1>7. \A q \in Procs \ {p} : pc'[q] = pc[q] /\ op'[q] = op[q] /\ kbuf'[q] = kbuf[q]
  BY <1>1 DEF FifoInv, Types
<1> HIDE DEF n, Q, K
<1>8. (Oldest(count))' = Q \o K
  <2>1. /\ Q \o K \in Seq(Cells) /\ Len(Q \o K) = count + n
        /\ \A j \in 1 .. count + n :
             (Q \o K)[j] = IF j <= count THEN Q[j] ELSE K[j - count]
    <3>1. Q \in Seq(Cells) /\ K \in Seq(Cells)
      BY <1>3, <1>4
    <3>2. /\ Q \o K \in Seq(Cells) /\ Len(Q \o K) = Len(Q) + Len(K)
          /\ \A j \in 1 .. Len(Q) + Len(K) :
               (Q \o K)[j] = IF j <= Len(Q) THEN Q[j] ELSE K[j - Len(Q)]
      BY <3>1, ConcatProperties
    <3> QED BY <1>3, <1>4, <3>2
  <2>2. ASSUME NEW j \in 1 .. count + n
        PROVE  (Q \o K)[j] = buffer[Mod(tail + j - 1, size)]
    <3>1. CASE j <= count
      BY <1>2, <1>3, <2>1, <3>1
    <3>2. CASE j > count
      <4> DEFINE i == j - count
      <4>1. i \in 1 .. n /\ i \in 1 .. size - count /\ count + i = j
        BY <1>2, <3>2
      <4> HIDE DEF i
      <4>2. Mod(head + i - 1, size) = Mod(tail + (count + i) - 1, size)
        BY <1>2, <4>1, Shift
      <4>3. K[i] = buffer[Mod(tail + j - 1, size)]
        BY <1>2, <1>4, <4>1, <4>2
      <4>4. ~(j <= count)
        BY <1>2, <3>2
      <4>5. (Q \o K)[j] = K[j - count]
        BY <2>1, <4>4
      <4>6. (Q \o K)[j] = K[i]
        BY <4>5 DEF i
      <4> QED BY <4>3, <4>6
    <3>3. j <= count \/ j > count
      BY <1>2
    <3> QED BY <3>1, <3>2, <3>3
  <2>3. Q \o K = [j \in 1 .. count + n |-> (Q \o K)[j]]
    <3> DEFINE R == Q \o K
    <3> HIDE DEF R
    <3>1. R \in Seq(Cells) /\ Len(R) = count + n
      BY <2>1 DEF R
    <3>2. R = [j \in 1 .. count + n |-> R[j]]
      BY <3>1
    <3> QED BY <3>2 DEF R
  <2> QED BY <1>5, <2>2, <2>3
<1>9. Offered' = [Offered EXCEPT ![p] = <<>>] /\ Taken' = Taken
  <2>1. /\ Offered' = [Offered EXCEPT ![p] = Offered'[p]]
        /\ Taken' = [Taken EXCEPT ![p] = Taken'[p]]
    BY <1>7, OnlyMine
  <2>2. Taken = [Taken EXCEPT ![p] = Taken[p]]
    BY DEF Taken
  <2> QED BY <1>6, <2>1, <2>2
<1>10. \E m \in 0 .. Len(Offered[p]) :
         /\ m = Len(Offered[p]) \/ Len(Oldest(count)) + m = size
         /\ Len(Oldest(count)) + m <= size
         /\ (Oldest(count))' = Oldest(count) \o SubSeq(Offered[p], 1, m)
  <2>1. n \in 0 .. Len(Offered[p])
    BY <1>2, <1>6
  <2> QED BY <1>2, <1>3, <1>6, <1>8, <2>1 DEF Q, K
<1> QED BY <1>1, <1>9, <1>10, FifoDefs

LEMMA ReadCommitMaps ==
  ASSUME FifoInv, NEW p \in Procs, ReadCommit(p)
  PROVE  [Fifo!Next]_(Fifo!vars)
<1> DEFINE n == len[p]
           Q == Oldest(count)
<1>1. /\ pc[p] = "commit" /\ op[p] = "read"
      /\ tail' = Advance(tail, n) /\ count' = count - n
      /\ pc' = [pc EXCEPT ![p] = "wake"]
      /\ UNCHANGED <<buffer, size, op, len, kbuf>>
  BY DEF ReadCommit, Goto, call
<1>2. /\ size \in Nat \ {0} /\ count \in 0 .. size /\ tail \in 0 .. size - 1
      /\ n \in 0 .. size /\ n <= count /\ kbuf[p] = Oldest(n)
  BY <1>1 DEF FifoInv, Types, IndexesAgree, Moving
<1>3. /\ Q \in Seq(Cells) /\ Len(Q) = count
      /\ \A j \in 1 .. count : Q[j] = buffer[Mod(tail + j - 1, size)]
  BY QueueIsSeq
<1>4. Oldest(n) = [j \in 1 .. n |-> buffer[Mod(tail + j - 1, size)]]
  BY DEF Oldest, Mod
<1>5. (Oldest(count))' = [j \in 1 .. count - n |-> buffer[Mod(Advance(tail, n) + j - 1, size)]]
  BY <1>1 DEF Oldest, Mod
<1>6. /\ Taken[p] = <<>> /\ Taken'[p] = Oldest(n) /\ Offered'[p] = Offered[p]
  <2>1. pc'[p] = "wake" /\ op'[p] = "read" /\ kbuf'[p] = kbuf[p]
    BY <1>1 DEF FifoInv, Types
  <2> QED BY <1>1, <1>2, <2>1 DEF Offered, Taken
<1>7. \A q \in Procs \ {p} : pc'[q] = pc[q] /\ op'[q] = op[q] /\ kbuf'[q] = kbuf[q]
  BY <1>1 DEF FifoInv, Types
<1> HIDE DEF n, Q
<1>8. Advance(tail, n) = Mod(tail + n, size)
  <2>1. Advance(tail, n) = IF tail + n < size THEN tail + n ELSE tail + n - size
    BY <1>2, AdvanceWraps
  <2> QED BY <1>2, <2>1, Turn
<1>9. SubSeq(Q, 1, n) = Oldest(n)
  <2>1. SubSeq(Q, 1, n) = [j \in 1 .. n |-> Q[j]]
    BY <1>2, <1>3
  <2> QED BY <1>2, <1>3, <1>4, <2>1
<1>10. SubSeq(Q, n + 1, count) = (Oldest(count))'
  <2>1. SubSeq(Q, n + 1, count) = [j \in 1 .. count - n |-> Q[n + j]]
    BY <1>2, <1>3
  <2>2. ASSUME NEW j \in 1 .. count - n
        PROVE  Q[n + j] = buffer[Mod(Advance(tail, n) + j - 1, size)]
    <3>1. n + j \in 1 .. count /\ j \in 1 .. size - n
      BY <1>2
    <3>2. Mod(Mod(tail + n, size) + j - 1, size) = Mod(tail + (n + j) - 1, size)
      BY <1>2, <3>1, Shift
    <3> QED BY <1>3, <1>8, <3>1, <3>2
  <2> QED BY <1>5, <2>1, <2>2
<1>11. CASE n = 0
  <2>1. Oldest(n) = <<>>
    BY <1>4, <1>11
  <2>2. (Oldest(count))' = Oldest(count)
    <3>1. SubSeq(Q, n + 1, count) = Q
      BY <1>2, <1>3, <1>11
    <3> QED BY <1>10, <3>1 DEF Q
  <2> QED BY <1>1, <1>6, <1>7, <2>1, <2>2, Invisible
<1>12. CASE n # 0
  <2>1. n \in 1 .. Len(Oldest(count))
    BY <1>2, <1>3, <1>12 DEF Q
  <2>2. Taken' = [Taken EXCEPT ![p] = SubSeq(Oldest(count), 1, n)]
    BY <1>6, <1>7, <1>9, OnlyMine DEF Q
  <2>3. (Oldest(count))' = SubSeq(Oldest(count), n + 1, Len(Oldest(count)))
    BY <1>3, <1>10 DEF Q
  <2>4. Offered' = Offered
    <3>1. Offered' = [Offered EXCEPT ![p] = Offered'[p]]
      BY <1>7, OnlyMine
    <3>2. Offered = [Offered EXCEPT ![p] = Offered[p]]
      BY DEF Offered
    <3> QED BY <1>6, <3>1, <3>2
  <2> QED BY <1>1, <1>6, <2>1, <2>2, <2>3, <2>4, FifoDefs
<1> QED BY <1>11, <1>12

LEMMA ClearMaps ==
  ASSUME FifoInv, NEW p \in Procs, ring_buffer_clear(p)
  PROVE  [Fifo!Next]_(Fifo!vars)
<1>1. /\ pc[p] = "body" /\ op[p] = "clear" /\ count' = 0
      /\ pc' = [pc EXCEPT ![p] = "wake"]
      /\ UNCHANGED <<size, op, len, kbuf>>
  BY DEF ring_buffer_clear, Goto, call
<1>2. (Oldest(count))' = <<>>
  BY <1>1 DEF Oldest
<1>3. Offered' = Offered /\ Taken' = Taken
  <2>1. \A q \in Procs \ {p} : pc'[q] = pc[q]
    BY <1>1 DEF FifoInv, Types
  <2> QED BY <1>1, <2>1 DEF Offered, Taken
<1> QED BY <1>1, <1>2, <1>3, FifoDefs

LEMMA ResizeMaps ==
  ASSUME FifoInv, Undisturbed, NEW p \in Procs, ResizeReplace(p)
  PROVE  [Fifo!Next]_(Fifo!vars)
<1>1. /\ pc[p] = "commit" /\ op[p] = "resize" /\ size' = len[p]
      /\ UNCHANGED <<op, len, kbuf>>
  BY DEF ResizeReplace, call
<1>2. (Oldest(count))' = kbuf[p] /\ (\A q \in Procs : q = p)
  BY ResizeReplaceFifo
<1>3. Offered' = Offered /\ Taken' = Taken
  BY <1>1, <1>2 DEF Offered, Taken
<1>4. len[p] \in Nat /\ count \in Nat
  BY DEF FifoInv, Types, IndexesAgree
<1>5. kbuf[p] = <<>> \/ kbuf[p] = Oldest(min(count, len[p]))
  BY <1>1 DEF FifoInv, Moving
<1>6. Oldest(min(count, len[p]))
        = SubSeq(Oldest(count), 1, IF Len(Oldest(count)) < size'
                                   THEN Len(Oldest(count)) ELSE size')
  <2> DEFINE m == min(count, len[p])
             Q == Oldest(count)
  <2>1. m \in 0 .. count /\ m = IF count < size' THEN count ELSE size'
    BY <1>1, <1>4 DEF min
  <2>2. /\ Q \in Seq(Cells) /\ Len(Q) = count
        /\ \A j \in 1 .. count : Q[j] = buffer[Mod(tail + j - 1, size)]
    BY QueueIsSeq
  <2>3. Oldest(m) = [j \in 1 .. m |-> buffer[Mod(tail + j - 1, size)]]
    BY DEF Oldest, Mod
  <2> HIDE DEF m, Q
  <2>4. SubSeq(Q, 1, m) = [j \in 1 .. m |-> Q[j]]
    <3>1. m \in Nat /\ m <= Len(Q)
      BY <1>4, <2>1, <2>2
    <3> QED BY <2>2, <3>1
  <2>5. SubSeq(Q, 1, m) = Oldest(m)
    <3>1. \A j \in 1 .. m : j \in 1 .. count
      BY <1>4, <2>1
    <3>2. \A j \in 1 .. m : Q[j] = buffer[Mod(tail + j - 1, size)]
      BY <2>2, <3>1
    <3> QED BY <2>3, <2>4, <3>2
  <2> QED BY <2>1, <2>2, <2>5 DEF m, Q
<1> QED BY <1>1, <1>2, <1>3, <1>4, <1>5, <1>6, FifoDefs

(* Every step of the driver is a step of the queue, or invisible.          *)
LEMMA StepMaps ==
  ASSUME FifoInv, Undisturbed, [Next]_vars
  PROVE  [Fifo!Next]_(Fifo!vars)
<1>1. CASE UNCHANGED vars
  <2>1. UNCHANGED <<Oldest(count), size, Offered, Taken>>
    BY <1>1 DEF vars, ring, call, Oldest, Offered, Taken
  <2> QED BY <2>1, FifoDefs
<1>2. ASSUME NEW p \in Procs,
             rb_read(p) \/ rb_write(p) \/ rb_ioctl(p) \/ Interrupted(p)
               \/ mutex_lock(p) \/ Step(p)
      PROVE  [Fifo!Next]_(Fifo!vars)
  <2>0. /\ UNCHANGED ring => UNCHANGED <<Oldest(count), size>>
        /\ kbuf = [kbuf EXCEPT ![p] = kbuf[p]]
    <3>1. UNCHANGED ring => UNCHANGED <<Oldest(count), size>>
      BY DEF ring, Oldest
    <3>2. kbuf = [kbuf EXCEPT ![p] = kbuf[p]]
      BY DEF FifoInv, RingTypes
    <3> QED BY <3>1, <3>2
  <2>1. ASSUME pc' = [pc EXCEPT ![p] = "idle"], EndCall(p), UNCHANGED ring
        PROVE  [Fifo!Next]_(Fifo!vars)
    <3>1. /\ pc'[p] = "idle"
          /\ \A q \in Procs \ {p} : pc'[q] = pc[q] /\ op'[q] = op[q] /\ kbuf'[q] = kbuf[q]
      BY <2>1 DEF EndCall, FifoInv, Types, RingTypes
    <3> QED BY <2>1, <3>1, EndMaps
  <2>2. CASE Interrupted(p)
    BY <2>1, <2>2 DEF Interrupted, Finish, Goto
  <2>3. CASE mutex_lock(p)
    BY <2>0, <2>3, MoveMaps DEF mutex_lock, CanLock, Goto, call, Labels
  <2>4. CASE TryRead(p)
    <3>1. CASE count = 0
      BY <2>1, <2>4, <3>1 DEF TryRead, Finish, Goto
    <3>2. CASE count # 0
      BY <2>0, <2>4, <3>2, MoveMaps DEF TryRead, Goto, call, Labels
    <3> QED BY <3>1, <3>2
  <2>5. CASE wait_event(p)
    <3>1. PICK label \in {"lock", "asleep"} : pc' = [pc EXCEPT ![p] = label]
      BY <2>5 DEF wait_event, Goto
    <3>2. pc[p] = "wait" /\ UNCHANGED <<ring, op, kbuf>>
      BY <2>5 DEF wait_event, call
    <3>3. label \in Labels \ {"idle", "wake"}
      BY DEF Labels
    <3> QED BY <2>0, <3>1, <3>2, <3>3, MoveMaps
  <2>6. CASE WriteCopy(p)
    <3>1. CASE count = size
      BY <2>1, <2>6, <3>1 DEF WriteCopy, Refuse, Finish, Goto
    <3>2. CASE count # size
      <4>1. /\ (Oldest(count))' = Oldest(count) /\ pc[p] = "body"
            /\ pc' = [pc EXCEPT ![p] = "commit"] /\ UNCHANGED <<size, op, kbuf>>
        BY <2>6, <3>2, WriteCopyFifo DEF WriteCopy
      <4> QED BY <2>0, <4>1, MoveMaps DEF Labels
    <3> QED BY <3>1, <3>2
  <2>7. CASE ReadCopy(p)
    <3>1. CASE count = 0
      BY <2>1, <2>7, <3>1 DEF ReadCopy, Refuse, Finish, Goto
    <3>2. CASE count # 0
      <4>1. /\ pc[p] = "body" /\ op[p] = "read"
            /\ pc' = [pc EXCEPT ![p] = "commit"]
            /\ kbuf' = [kbuf EXCEPT ![p] = kbuf'[p]] /\ UNCHANGED <<ring, op>>
        BY <2>7, <3>2, ReadCopyFifo DEF ReadCopy
      <4> QED BY <2>0, <4>1, MoveMaps DEF Labels
    <3> QED BY <3>1, <3>2
  <2>8. CASE SetBlocking(p)
    BY <2>1, <2>8 DEF SetBlocking, Finish, Goto
  <2>9. CASE ResizeCopy(p)
    <3>1. /\ pc[p] = "body" /\ op[p] = "resize"
          /\ pc' = [pc EXCEPT ![p] = "commit"]
          /\ kbuf' = [kbuf EXCEPT ![p] = kbuf'[p]] /\ UNCHANGED <<ring, op>>
      BY <2>9, ResizeCopyFifo DEF ResizeCopy
    <3> QED BY <2>0, <3>1, MoveMaps DEF Labels
  <2>10. CASE ResizeUnlock(p)
    <3>1. /\ op[p] = "resize" /\ UNCHANGED <<ring, op, kbuf>>
          /\ \A q \in Procs \ {p} : pc'[q] = pc[q]
      BY <2>10 DEF ResizeUnlock, Goto, call, FifoInv, Carried, Types
    <3>2. Offered'[p] = Offered[p] /\ Taken'[p] = Taken[p]
      BY <3>1 DEF Offered, Taken
    <3> QED BY <2>0, <3>1, <3>2, Invisible
  <2>11. CASE WakeUp(p)
    <3>1. /\ UNCHANGED ring /\ pc'[p] = "idle"
          /\ \A q \in Procs \ {p} :
               /\ op'[q] = op[q] /\ kbuf'[q] = kbuf[q]
               /\ pc'[q] = pc[q] \/ (pc[q] = "asleep" /\ pc'[q] = "wait")
      <4>1. Wakes(op[p]) \subseteq Directions
        BY DEF Wakes, Directions
      <4> QED BY <2>11, <4>1 DEF WakeUp, EndCall, FifoInv, Types, RingTypes, Sleepers
    <3> QED BY <3>1, EndMaps
  <2> QED BY <1>2, <2>2, <2>3, <2>4, <2>5, <2>6, <2>7, <2>8, <2>9, <2>10, <2>11,
             EnterMaps, WriteCommitMaps, ReadCommitMaps, ClearMaps, ResizeMaps DEF Step
<1> QED BY <1>1, <1>2 DEF Next

(* The driver implements the byte queue: what read() returns is what       *)
(* write() put in, in order, nothing twice and nothing missing from the    *)
(* middle, with the copies and the updates of the indexes as separate      *)
(* steps of any number of processes (or of one that also resizes).         *)
THEOREM ImplementsFifoHolds == ASSUME Undisturbed PROVE Spec => ImplementsFifo
<1>1. Init => FifoInv
  BY InitFifo
<1>2. Init => Fifo!Init
  <2> SUFFICES ASSUME Init PROVE Fifo!Init
    OBVIOUS
  <2>1. Oldest(count) = <<>>
    BY DEF Init, Oldest
  <2>2. Offered = [p \in Procs |-> <<>>] /\ Taken = [p \in Procs |-> <<>>]
    BY DEF Init, Offered, Taken
  <2> QED BY <2>1, <2>2, FifoDefs DEF Init
<1>3. FifoInv /\ [Next]_vars => FifoInv'
  BY Undisturbed, FifoStep
<1>4. FifoInv /\ [Next]_vars => [Fifo!Next]_(Fifo!vars)
  BY Undisturbed, StepMaps
<1> QED BY <1>1, <1>2, <1>3, <1>4, PTL DEF Spec, ImplementsFifo, Fifo!Spec
=============================================================================
