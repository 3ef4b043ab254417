------------------------------ MODULE ByteFifo ------------------------------
(***************************************************************************)
(* What the ring buffer device promises: a bounded first-in-first-out      *)
(* queue of bytes shared by several callers.  A caller that writes offers  *)
(* a string of bytes, of which the longest prefix that fits is queued; a   *)
(* caller that reads takes a prefix of the queue.  There is no buffer, no  *)
(* index and no lock here.                                                 *)
(***************************************************************************)
EXTENDS Integers, Sequences

CONSTANTS
  Procs,   \* the callers
  Bytes,   \* what a byte can be
  Start    \* the capacity at first

VARIABLES
  queue,     \* the bytes, oldest first
  capacity,  \* how many fit
  offered,   \* what each caller wants to write
  taken      \* what each caller has read and not yet returned

vars == <<queue, capacity, offered, taken>>

Prefix(s, n) == SubSeq(s, 1, n)

Init ==
  /\ queue = <<>> /\ capacity = Start
  /\ offered = [p \in Procs |-> <<>>]
  /\ taken = [p \in Procs |-> <<>>]

Offer(p) ==
  /\ offered[p] = <<>>
  /\ offered'[p] \in Seq(Bytes)
  /\ offered' = [offered EXCEPT ![p] = offered'[p]]
  /\ UNCHANGED <<queue, capacity, taken>>

(* The longest prefix that fits, and never nothing while something fits.   *)
Put(p) ==
  /\ \E n \in 0 .. Len(offered[p]) :
       /\ n = Len(offered[p]) \/ Len(queue) + n = capacity
       /\ Len(queue) + n <= capacity
       /\ queue' = queue \o Prefix(offered[p], n)
  /\ offered' = [offered EXCEPT ![p] = <<>>]
  /\ UNCHANGED <<capacity, taken>>

GiveUp(p) ==
  /\ offered' = [offered EXCEPT ![p] = <<>>]
  /\ UNCHANGED <<queue, capacity, taken>>

Take(p) ==
  /\ taken[p] = <<>>
  /\ \E n \in 1 .. Len(queue) :
       /\ taken' = [taken EXCEPT ![p] = Prefix(queue, n)]
       /\ queue' = SubSeq(queue, n + 1, Len(queue))
  /\ UNCHANGED <<capacity, offered>>

Return(p) ==
  /\ taken' = [taken EXCEPT ![p] = <<>>]
  /\ UNCHANGED <<queue, capacity, offered>>

Clear ==
  /\ queue' = <<>>
  /\ UNCHANGED <<capacity, offered, taken>>

(* A change of capacity keeps the oldest bytes, as many as fit; without    *)
(* memory for the move it keeps none.                                      *)
SetCapacity ==
  /\ capacity' \in Nat
  /\ \/ queue' = Prefix(queue, IF Len(queue) < capacity' THEN Len(queue)
                                                         ELSE capacity')
     \/ queue' = <<>>
  /\ UNCHANGED <<offered, taken>>

Next ==
  \/ \E p \in Procs : Offer(p) \/ Put(p) \/ GiveUp(p) \/ Take(p) \/ Return(p)
  \/ Clear \/ SetCapacity

Spec == Init /\ [][Next]_vars
=============================================================================
