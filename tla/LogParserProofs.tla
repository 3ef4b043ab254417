--------------------------- MODULE LogParserProofs ---------------------------
(***************************************************************************)
(* For any number of threads, any files and any faults: the threads of the *)
(* log parser divide the files among them, what they merge adds up as if   *)
(* one of them had done it all, and what main prints is what the files say.*)
(***************************************************************************)
EXTENDS LogParser, Induction, FiniteSetTheorems, TLAPS

(* Where a thread can be, and what the file index needs of the types.      *)
Places == {"unborn", "start", "lock", "take", "process", "merge", "store", "gone"}

IndexTypes ==
  /\ next_file_index \in Nat \ {0}
  /\ pc \in [Threads -> Places]
  /\ file_index \in [Threads -> Nat]
  /\ batch \in [Threads -> SUBSET Nat]

(* Between its load of the index and its store a thread holds file_mutex,  *)
(* and what it has loaded is still the index: nobody else moved it.        *)
IndexHeld ==
  \A t \in Threads : pc[t] = "take" => file_mutex = t /\ file_index[t] = next_file_index

TakenInv == IndexTypes /\ IndexHeld /\ TakenOnce

-----------------------------------------------------------------------------
(* Of all steps only these two touch the file index and its mutex.         *)
LEMMA IndexSteps ==
  ASSUME [Next]_vars
  PROVE  \/ \E t \in Threads : LoadIndex(t)
         \/ \E t \in Threads : TakeFile(t)
         \/ /\ UNCHANGED <<next_file_index, file_mutex, file_index, batch>>
            /\ \/ UNCHANGED pc
               \/ \E t \in Threads, place \in Places :
                    place # "take" /\ pc' = [pc EXCEPT ![t] = place]
<1>1. CASE find_files \/ Report
  BY <1>1 DEF find_files, Report, shared, own, ghosts
<1>2. CASE CreateThread
  <2>1. UNCHANGED <<next_file_index, file_mutex, file_index, batch>>
    BY <1>2 DEF CreateThread, shared, ghosts
  <2>2. CASE created + 1 \in Threads /\ pc' = [pc EXCEPT ![created + 1] = "start"]
    BY <2>1, <2>2 DEF Places
  <2>3. CASE UNCHANGED pc
    BY <2>1, <2>3
  <2> QED BY <1>2, <2>2, <2>3 DEF CreateThread
<1>3. ASSUME NEW t \in Threads, ThreadStep(t)
      PROVE  \/ LoadIndex(t)
             \/ TakeFile(t)
             \/ /\ UNCHANGED <<next_file_index, file_mutex, file_index, batch>>
                /\ \/ UNCHANGED pc
                   \/ \E place \in Places : place # "take" /\ pc' = [pc EXCEPT ![t] = place]
  <2>1. CASE ThreadStart(t)
    BY <2>1 DEF ThreadStart, shared, ghosts, Places
  <2>2. CASE ProcessFile(t)
    BY <2>2 DEF ProcessFile, ghosts, Places
  <2>3. CASE LoadStats(t)
    BY <2>3 DEF LoadStats, ghosts, Places
  <2>4. CASE StoreStats(t)
    BY <2>4 DEF StoreStats, Places
  <2>5. CASE CompareNull(t)
    BY <2>5 DEF CompareNull, shared, own, ghosts
  <2> QED BY <1>3, <2>1, <2>2, <2>3, <2>4, <2>5 DEF ThreadStep
<1>4. CASE UNCHANGED vars
  BY <1>4 DEF vars, shared, own, ghosts
<1> QED BY <1>1, <1>2, <1>3, <1>4 DEF Next

(* A thread that gets the mutex loads the index as it is.                  *)
LEMMA LoadKeeps ==
  ASSUME TakenInv, NEW t \in Threads, LoadIndex(t)
  PROVE  TakenInv'
<1>1. /\ file_mutex = NoOne /\ file_mutex' = t
      /\ file_index' = [file_index EXCEPT ![t] = next_file_index]
      /\ pc' = [pc EXCEPT ![t] = "take"]
      /\ UNCHANGED <<next_file_index, batch>>
  BY DEF LoadIndex, LockFiles, ghosts
<1>2. IndexTypes'
  BY <1>1 DEF TakenInv, IndexTypes, Places
<1>3. \A s \in Threads : pc[s] # "take"
  BY <1>1, LogAssumption DEF TakenInv, IndexHeld
<1>4. IndexHeld'
  BY <1>1, <1>3 DEF TakenInv, IndexHeld, IndexTypes, Places
<1>5. TakenOnce'
  BY <1>1 DEF TakenInv, TakenOnce
<1> QED BY <1>2, <1>4, <1>5 DEF TakenInv

(* A thread that takes a file takes the one nobody has, and moves the      *)
(* index past it before anybody else can look.                             *)
LEMMA TakeKeeps ==
  ASSUME TakenInv, NEW t \in Threads, TakeFile(t)
  PROVE  TakenInv'
<1>1. pc[t] = "take" /\ file_mutex = t /\ file_index[t] = next_file_index
  BY DEF TakenInv, IndexHeld, TakeFile
<1>2. \A s \in Threads \ {t} : pc[s] # "take"
  BY <1>1 DEF TakenInv, IndexHeld
<1>3. CASE /\ next_file_index' = file_index[t] + 1
           /\ batch' = [batch EXCEPT ![t] = @ \cup {file_index[t]}]
           /\ pc' = [pc EXCEPT ![t] = "process"]
           /\ UNCHANGED file_index
  <2>1. IndexTypes'
    BY <1>1, <1>3 DEF TakenInv, IndexTypes, Places
  <2>2. IndexHeld'
    BY <1>2, <1>3 DEF TakenInv, IndexHeld, IndexTypes, Places
  <2>3. \A s \in Threads : next_file_index \notin batch[s]
    BY DEF TakenInv, TakenOnce, IndexTypes
  <2>4. /\ \A s \in Threads \ {t} : batch'[s] = batch[s]
        /\ batch'[t] = batch[t] \cup {next_file_index}
        /\ next_file_index' = next_file_index + 1
    BY <1>1, <1>3 DEF TakenInv, IndexTypes, Places
  <2>5. \A r, s \in Threads : r # s => batch'[r] \cap batch'[s] = {}
    BY <2>3, <2>4 DEF TakenInv, TakenOnce
  <2>6. UNION {batch'[s] : s \in Threads}
          = (UNION {batch[s] : s \in Threads}) \cup {next_file_index}
    BY <2>4
  <2>7. UNION {batch'[s] : s \in Threads} = 1 .. next_file_index' - 1
    BY <2>4, <2>6 DEF TakenInv, TakenOnce, IndexTypes
  <2> QED BY <2>1, <2>2, <2>5, <2>7 DEF TakenInv, TakenOnce
<1>4. CASE /\ UNCHANGED <<next_file_index, batch, file_index>>
           /\ \/ UNCHANGED <<pc, file_mutex>>
              \/ pc' = [pc EXCEPT ![t] = "merge"]
  <2>1. IndexTypes'
    BY <1>4 DEF TakenInv, IndexTypes, Places
  <2>2. IndexHeld'
    BY <1>2, <1>4 DEF TakenInv, IndexHeld, IndexTypes, Places
  <2>3. TakenOnce'
    BY <1>4 DEF TakenInv, TakenOnce
  <2> QED BY <2>1, <2>2, <2>3 DEF TakenInv
<1> QED BY <1>3, <1>4 DEF TakeFile

LEMMA TakenStep ==
  ASSUME TakenInv, [Next]_vars
  PROVE  TakenInv'
<1>1. CASE \E t \in Threads : LoadIndex(t)
  BY <1>1, LoadKeeps
<1>2. CASE \E t \in Threads : TakeFile(t)
  BY <1>2, TakeKeeps
<1>3. CASE /\ UNCHANGED <<next_file_index, file_mutex, file_index, batch>>
           /\ \/ UNCHANGED pc
              \/ \E t \in Threads, place \in Places :
                   place # "take" /\ pc' = [pc EXCEPT ![t] = place]
  <2>1. IndexTypes'
    BY <1>3 DEF TakenInv, IndexTypes, Places
  <2>2. \A s \in Threads : pc'[s] = "take" => pc[s] = "take"
    BY <1>3 DEF TakenInv, IndexTypes, Places
  <2>3. IndexHeld' /\ TakenOnce'
    BY <1>3, <2>2 DEF TakenInv, IndexHeld, TakenOnce
  <2> QED BY <2>1, <2>3 DEF TakenInv
<1> QED BY <1>1, <1>2, <1>3, IndexSteps

LEMMA TakenStarts == Init => TakenInv
<1> SUFFICES ASSUME Init PROVE TakenInv
  OBVIOUS
<1>1. IndexTypes /\ IndexHeld
  BY DEF Init, IndexTypes, IndexHeld, Places
<1>2. \A t \in Threads : batch[t] = {}
  BY DEF Init
<1>3. UNION {batch[t] : t \in Threads} = 1 .. next_file_index - 1
  BY <1>2 DEF Init
<1> QED BY <1>1, <1>2, <1>3 DEF TakenInv, TakenOnce

(* thread_func: however many threads there are, whichever of them leave    *)
(* early and whatever fails, every file below the index was taken by       *)
(* exactly one of them.                                                    *)
THEOREM TakenOnceHolds == LogSpec => []TakenOnce
<1>1. TakenInv => TakenOnce
  BY DEF TakenInv
<1> QED BY <1>1, TakenStarts, TakenStep, PTL DEF LogSpec

-----------------------------------------------------------------------------
(* The lines of all files are finitely many, so that sums over them exist. *)
LEMMA LinesFinite ==
  /\ IsFiniteSet(AllLines)
  /\ \A l \in AllLines : Bytes[l] \in Int
  /\ Tally!LinesOf(Tally!AllFiles) = AllLines
<1>1. ASSUME NEW f \in FileIdx PROVE IsFiniteSet(Lines[f])
  <2>0. Len(Logs[f]) \in Nat /\ DOMAIN Logs[f] = 1 .. Len(Logs[f])
    BY LogAssumption
  <2>a. IsFiniteSet(1 .. Len(Logs[f]))
    BY <2>0, FS_Interval
  <2>1. IsFiniteSet({f}) /\ IsFiniteSet(DOMAIN Logs[f])
    BY <2>0, <2>a, FS_Singleton, Zenon
  <2>2. Lines[f] = {f} \X DOMAIN Logs[f]
    BY DEF Lines
  <2> QED BY <2>1, <2>2, FS_Product
<1>2. IsFiniteSet({Lines[f] : f \in FileIdx})
  <2>1. IsFiniteSet(FileIdx)
    BY LogAssumption, FS_Interval DEF FileIdx
  <2>2. Lines \in Surjection(FileIdx, {Lines[f] : f \in FileIdx})
    BY DEF Surjection, Lines
  <2> QED BY <2>1, <2>2, FS_Surjection
<1>3. IsFiniteSet(AllLines)
  BY <1>1, <1>2, FS_UNION DEF AllLines
<1>4. ASSUME NEW l \in AllLines PROVE Bytes[l] \in Int
  BY LogAssumption DEF Bytes, AllLines, Lines, Text
<1>5. Tally!LinesOf(Tally!AllFiles) = AllLines
  BY DEF Tally!LinesOf, Tally!AllFiles, AllLines, Lines
<1> QED BY <1>3, <1>4, <1>5

First(s) == CHOOSE l \in s : TRUE

(* A sum is what its equation says.                                        *)
LEMMA SumEquation ==
  \A s \in SUBSET AllLines :
    /\ Tally!Sum[s] \in Int
    /\ Tally!Sum[s] = IF s = {} THEN 0 ELSE Bytes[First(s)] + Tally!Sum[s \ {First(s)}]
<1> DEFINE U == Tally!LinesOf(Tally!AllFiles)
           Eqn(f) == f = [s \in SUBSET U |-> IF s = {} THEN 0
                            ELSE LET l == CHOOSE l \in s : TRUE IN Bytes[l] + f[s \ {l}]]
           Upto(m) == \E g \in [SUBSET U -> Int] :
                        \A s \in SUBSET U : Cardinality(s) <= m =>
                          g[s] = IF s = {} THEN 0 ELSE Bytes[First(s)] + g[s \ {First(s)}]
           T == {m \in Nat : Upto(m)}
<1>1. IsFiniteSet(U) /\ U = AllLines /\ \A l \in U : Bytes[l] \in Int
  BY LinesFinite
<1>s. Tally!Sum = CHOOSE f : Eqn(f)
  BY DEF Tally!Sum
<1> HIDE DEF U
<1>2. \A s \in SUBSET U : IsFiniteSet(s) /\ Cardinality(s) \in Nat /\ (Cardinality(s) = 0 <=> s = {})
  BY <1>1, FS_Subset, FS_CardinalityType, FS_EmptySet
<1>3. \A s \in SUBSET U : s # {} =>
        /\ First(s) \in s /\ s \ {First(s)} \in SUBSET U
        /\ Bytes[First(s)] \in Int
        /\ Cardinality(s \ {First(s)}) = Cardinality(s) - 1
  BY <1>1, <1>2, FS_RemoveElement DEF First
<1>4. Upto(0)
  <2> DEFINE g == [s \in SUBSET U |-> 0]
  <2>1. g \in [SUBSET U -> Int] /\ \A s \in SUBSET U : g[s] = 0
    OBVIOUS
  <2>2. \A s \in SUBSET U : Cardinality(s) <= 0 => s = {}
    BY <1>2
  <2> QED BY <2>1, <2>2
<1>5. ASSUME NEW m \in Nat, Upto(m) PROVE Upto(m + 1)
  <2>1. PICK g \in [SUBSET U -> Int] :
          \A s \in SUBSET U : Cardinality(s) <= m =>
            g[s] = IF s = {} THEN 0 ELSE Bytes[First(s)] + g[s \ {First(s)}]
    BY <1>5
  <2> DEFINE f == [s \in SUBSET U |-> IF Cardinality(s) <= m THEN g[s]
                                     ELSE Bytes[First(s)] + g[s \ {First(s)}]]
  <2>2. \A s \in SUBSET U : ~(Cardinality(s) <= m) => s # {}
    BY <1>2
  <2>3. f \in [SUBSET U -> Int]
    <3>1. ASSUME NEW s \in SUBSET U, ~(Cardinality(s) <= m)
          PROVE  Bytes[First(s)] + g[s \ {First(s)}] \in Int
      <4>1. Bytes[First(s)] \in Int /\ s \ {First(s)} \in SUBSET U
        BY <1>3, <2>2, <3>1
      <4>2. g[s \ {First(s)}] \in Int
        BY <4>1
      <4> QED BY <4>1, <4>2
    <3> QED BY <3>1
  <2>4. ASSUME NEW s \in SUBSET U, Cardinality(s) <= m + 1
        PROVE  f[s] = IF s = {} THEN 0 ELSE Bytes[First(s)] + f[s \ {First(s)}]
    <3>1. CASE s = {}
      BY <1>2, <2>1, <3>1
    <3>2. CASE s # {}
      <4>1. s \ {First(s)} \in SUBSET U /\ Cardinality(s \ {First(s)}) <= m
        BY <1>2, <1>3, <2>4, <3>2
      <4>2. f[s \ {First(s)}] = g[s \ {First(s)}]
        BY <4>1
      <4> QED BY <2>1, <3>2, <4>2
    <3> QED BY <3>1, <3>2
  <2> HIDE DEF f
  <2> QED BY <2>3, <2>4
<1> HIDE DEF Upto
<1>6. 0 \in T /\ \A n \in Nat : n \in T => n + 1 \in T
  BY <1>4, <1>5
<1> HIDE DEF T
<1>7. Upto(Cardinality(U))
  <2>1. \A n \in Nat : n \in T
    BY <1>6, NatInductionSet
  <2>2. Cardinality(U) \in Nat
    BY <1>2
  <2> QED BY <2>1, <2>2 DEF T
<1>8. PICK g \in [SUBSET U -> Int] :
        \A s \in SUBSET U : Cardinality(s) <= Cardinality(U) =>
          g[s] = IF s = {} THEN 0 ELSE Bytes[First(s)] + g[s \ {First(s)}]
  BY <1>7 DEF Upto
<1>9. \A s \in SUBSET U : Cardinality(s) <= Cardinality(U)
  BY <1>1, FS_Subset
<1>10. Eqn(g)
  BY <1>8, <1>9 DEF First
<1> HIDE DEF Eqn
<1>11. Eqn(Tally!Sum)
  BY <1>10, <1>s
<1> DEFINE S == Tally!Sum
<1>12. \A s \in SUBSET U : S[s] = IF s = {} THEN 0 ELSE Bytes[First(s)] + S[s \ {First(s)}]
  BY <1>11 DEF First, Eqn
<1> HIDE DEF S
<1>a. S[{}] = 0 /\ \A s \in SUBSET U : s # {} => S[s] = Bytes[First(s)] + S[s \ {First(s)}]
  <2>1. {} \in SUBSET U
    OBVIOUS
  <2> QED BY <1>12, <2>1
<1> DEFINE Q == {m \in Nat : \A s \in SUBSET U : Cardinality(s) = m => S[s] \in Int}
<1>13. 0 \in Q
  <2>1. ASSUME NEW s \in SUBSET U, Cardinality(s) = 0 PROVE S[s] \in Int
    <3>1. s = {}
      BY <1>2, <2>1
    <3>2. S[s] = 0
      BY <1>a, <3>1, Zenon
    <3> QED BY <3>2
  <2> QED BY <2>1
<1>14. ASSUME NEW m \in Nat, m \in Q PROVE m + 1 \in Q
  <2> SUFFICES ASSUME NEW s \in SUBSET U, Cardinality(s) = m + 1 PROVE S[s] \in Int
    OBVIOUS
  <2>1. s # {}
    BY <1>2
  <2>2. Cardinality(s \ {First(s)}) = m /\ s \ {First(s)} \in SUBSET U
    BY <1>3, <2>1
  <2>3. S[s \ {First(s)}] \in Int
    BY <1>14, <2>2
  <2>4. S[s] = Bytes[First(s)] + S[s \ {First(s)}] /\ Bytes[First(s)] \in Int
    BY <1>3, <1>a, <2>1
  <2> QED BY <2>3, <2>4
<1>15. \A m \in Nat : m \in Q
  <2> HIDE DEF Q
  <2> QED BY <1>13, <1>14, NatInductionSet
<1>16. \A s \in SUBSET U : S[s] \in Int
  BY <1>2, <1>15
<1> QED BY <1>1, <1>12, <1>16 DEF S

(* Whichever line is taken out first, the sum is the same.                 *)
LEMMA SumTakesOut ==
  \A s \in SUBSET AllLines : \A x \in s :
    Tally!Sum[s] = Bytes[x] + Tally!Sum[s \ {x}]
<1> DEFINE S == Tally!Sum
           Holds(s) == \A x \in s : S[s] = Bytes[x] + S[s \ {x}]
           T == {m \in Nat : \A s \in SUBSET AllLines : Cardinality(s) = m => Holds(s)}
<1>1. \A s \in SUBSET AllLines : S[s] \in Int
  BY SumEquation
<1>2. \A s \in SUBSET AllLines : s # {} => S[s] = Bytes[First(s)] + S[s \ {First(s)}]
  BY SumEquation
<1> HIDE DEF S
<1>3. \A s \in SUBSET AllLines : IsFiniteSet(s) /\ Cardinality(s) \in Nat
  BY LinesFinite, FS_Subset, FS_CardinalityType
<1>4. \A l \in AllLines : Bytes[l] \in Int
  BY LinesFinite
<1>5. 0 \in T
  <2>1. ASSUME NEW s \in SUBSET AllLines, Cardinality(s) = 0 PROVE s = {}
    BY <1>3, <2>1, FS_EmptySet
  <2> QED BY <2>1
<1>6. ASSUME NEW m \in Nat, m \in T PROVE m + 1 \in T
  <2> SUFFICES ASSUME NEW s \in SUBSET AllLines, Cardinality(s) = m + 1, NEW x \in s
               PROVE  S[s] = Bytes[x] + S[s \ {x}]
    OBVIOUS
  <2>0. \A r \in SUBSET AllLines : Cardinality(r) = m => Holds(r)
    BY <1>6
  <2> DEFINE c == First(s)
             r == (s \ {c}) \ {x}
  <2>1. c \in s /\ S[s] = Bytes[c] + S[s \ {c}]
    BY <1>2 DEF First
  <2> HIDE DEF c
  <2>2. CASE x = c
    BY <2>1, <2>2
  <2>3. CASE x # c
    <3>1. /\ Cardinality(s \ {c}) = m /\ Cardinality(s \ {x}) = m
          /\ s \ {c} \in SUBSET AllLines /\ s \ {x} \in SUBSET AllLines
      BY <1>3, <2>1, FS_RemoveElement
    <3>2. x \in s \ {c} /\ c \in s \ {x} /\ (s \ {x}) \ {c} = r
      BY <2>1, <2>3
    <3>3. S[s \ {c}] = Bytes[x] + S[r]
      BY <2>0, <3>1, <3>2
    <3>4. S[s \ {x}] = Bytes[c] + S[r]
      BY <2>0, <3>1, <3>2
    <3>5. Bytes[c] \in Int /\ Bytes[x] \in Int /\ S[r] \in Int
      BY <1>1, <1>4, <2>1
    <3> HIDE DEF r
    <3> QED BY <2>1, <3>3, <3>4, <3>5
  <2> QED BY <2>2, <2>3
<1>7. \A m \in Nat : m \in T
  <2> HIDE DEF T
  <2> QED BY <1>5, <1>6, NatInductionSet
<1> QED BY <1>3, <1>7 DEF S

LEMMA SumAdds ==
  ASSUME NEW s \in SUBSET AllLines, NEW x \in AllLines \ s
  PROVE  Tally!Sum[s \cup {x}] = Tally!Sum[s] + Bytes[x]
<1>1. s \cup {x} \in SUBSET AllLines /\ x \in s \cup {x} /\ (s \cup {x}) \ {x} = s
  OBVIOUS
<1>2. Tally!Sum[s \cup {x}] = Bytes[x] + Tally!Sum[s]
  BY <1>1, SumTakesOut
<1>3. Bytes[x] \in Int /\ Tally!Sum[s] \in Int
  BY LinesFinite, SumEquation
<1> QED BY <1>2, <1>3

LEMMA SumOfNone == Tally!Sum[{}] = 0
BY SumEquation

LEMMA SumOfUnion ==
  ASSUME NEW a \in SUBSET AllLines, NEW b \in SUBSET AllLines, a \cap b = {}
  PROVE  Tally!Sum[a \cup b] = Tally!Sum[a] + Tally!Sum[b]
<1> DEFINE S == Tally!Sum
           T == {m \in Nat : \A c \in SUBSET b : Cardinality(c) = m => S[a \cup c] = S[a] + S[c]}
<1>1. \A s \in SUBSET AllLines : S[s] \in Int
  BY SumEquation
<1>2. S[{}] = 0
  BY SumOfNone
<1>3. \A s \in SUBSET AllLines : IsFiniteSet(s) /\ Cardinality(s) \in Nat
  BY LinesFinite, FS_Subset, FS_CardinalityType
<1> HIDE DEF S
<1>4. 0 \in T
  <2>1. ASSUME NEW c \in SUBSET b, Cardinality(c) = 0 PROVE S[a \cup c] = S[a] + S[c]
    <3>1. c = {} /\ a \cup c = a
      <4>1. c = {}
        BY <1>3, <2>1, FS_EmptySet
      <4> QED BY <4>1
    <3>2. S[c] = 0 /\ S[a \cup c] = S[a] /\ S[a] \in Int
      BY <1>1, <1>2, <3>1, Zenon
    <3> QED BY <3>2
  <2> QED BY <2>1
<1>5. ASSUME NEW m \in Nat, m \in T PROVE m + 1 \in T
  <2> SUFFICES ASSUME NEW c \in SUBSET b, Cardinality(c) = m + 1
               PROVE  S[a \cup c] = S[a] + S[c]
    OBVIOUS
  <2>1. PICK x : x \in c
    <3>1. c # {}
      BY FS_EmptySet
    <3> QED BY <3>1
  <2> DEFINE d == c \ {x}
  <2>2. d \in SUBSET b /\ Cardinality(d) = m
    BY <1>3, <2>1, FS_RemoveElement
  <2>3. S[a \cup d] = S[a] + S[d]
    BY <1>5, <2>2
  <2>4. /\ d \cup {x} = c /\ (a \cup d) \cup {x} = a \cup c
        /\ x \in AllLines /\ x \notin d /\ x \notin a \cup d
    BY <2>1
  <2> HIDE DEF d
  <2>a. d \in SUBSET AllLines /\ a \cup d \in SUBSET AllLines
    BY <2>2
  <2>5. S[c] = S[d] + Bytes[x] /\ S[a \cup c] = S[a \cup d] + Bytes[x]
    <3>1. S[d \cup {x}] = S[d] + Bytes[x]
      BY <2>4, <2>a, SumAdds DEF S
    <3>2. S[(a \cup d) \cup {x}] = S[a \cup d] + Bytes[x]
      BY <2>4, <2>a, SumAdds DEF S
    <3> QED BY <2>4, <3>1, <3>2
  <2>6. S[a] \in Int /\ S[d] \in Int /\ Bytes[x] \in Int
    BY <1>1, <2>a, <2>4, LinesFinite
  <2> QED BY <2>3, <2>5, <2>6
<1>6. \A m \in Nat : m \in T
  <2> HIDE DEF T
  <2> QED BY <1>4, <1>5, NatInductionSet
<1>7. b \in SUBSET b /\ Cardinality(b) \in Nat
  BY <1>3
<1> QED BY <1>6, <1>7 DEF S

-----------------------------------------------------------------------------
(* What the tables must hold when exactly the lines of a set are counted.  *)
Totals(lines) ==
  [bytes |-> Tally!Sum[lines], urls |-> UrlBytes(lines), referers |-> RefererCounts(lines)]

LEMMA TotalsOfNone == Totals({}) = Empty
<1>1. UrlBytes({}) = NoNodes /\ RefererCounts({}) = NoNodes
  BY DEF UrlBytes, RefererCounts, WithReferer, NoNodes
<1> QED BY <1>1, SumOfNone DEF Totals, Empty

(* A number that is not in a table is the number of no lines.              *)
UrlOf(u, lines)     == Tally!Sum[LinesWith(u, lines)]
RefererOf(r, lines) == Cardinality(LinesFrom(r, lines))

LEMMA TableEntries ==
  ASSUME NEW lines \in SUBSET AllLines
  PROVE  /\ \A u : /\ UrlOf(u, lines) \in Int
                   /\ UrlOf(u, lines) = IF u \in DOMAIN UrlBytes(lines)
                                         THEN UrlBytes(lines)[u] ELSE 0
         /\ \A r : /\ RefererOf(r, lines) \in Nat
                   /\ RefererOf(r, lines) = IF r \in DOMAIN RefererCounts(lines)
                                             THEN RefererCounts(lines)[r] ELSE 0
<1>1. ASSUME NEW u
      PROVE  /\ UrlOf(u, lines) \in Int
             /\ UrlOf(u, lines) = IF u \in DOMAIN UrlBytes(lines)
                                   THEN UrlBytes(lines)[u] ELSE 0
  <2>1. LinesWith(u, lines) \in SUBSET AllLines
    BY DEF LinesWith
  <2>2. UrlOf(u, lines) \in Int
    BY <2>1, SumEquation DEF UrlOf
  <2>3. CASE u \in DOMAIN UrlBytes(lines)
    BY <2>2, <2>3 DEF UrlOf, UrlBytes
  <2>4. CASE u \notin DOMAIN UrlBytes(lines)
    <3>1. LinesWith(u, lines) = {}
      BY <2>4 DEF LinesWith, UrlBytes
    <3> QED BY <2>2, <2>4, <3>1, SumOfNone DEF UrlOf
  <2> QED BY <2>3, <2>4
<1>2. ASSUME NEW r
      PROVE  /\ RefererOf(r, lines) \in Nat
             /\ RefererOf(r, lines) = IF r \in DOMAIN RefererCounts(lines)
                                       THEN RefererCounts(lines)[r] ELSE 0
  <2>1. LinesFrom(r, lines) \in SUBSET AllLines
    BY DEF LinesFrom, WithReferer
  <2>2. RefererOf(r, lines) \in Nat
    BY <2>1, LinesFinite, FS_Subset, FS_CardinalityType DEF RefererOf
  <2>3. CASE r \in DOMAIN RefererCounts(lines)
    BY <2>2, <2>3 DEF RefererOf, RefererCounts
  <2>4. CASE r \notin DOMAIN RefererCounts(lines)
    <3>1. LinesFrom(r, lines) = {}
      BY <2>4 DEF LinesFrom, RefererCounts
    <3> QED BY <2>2, <2>4, <3>1, FS_EmptySet DEF RefererOf
  <2> QED BY <2>3, <2>4
<1> QED BY <1>1, <1>2

LEMMA TablesAreFunctions ==
  ASSUME NEW lines
  PROVE  /\ UrlBytes(lines) = [u \in DOMAIN UrlBytes(lines) |-> UrlOf(u, lines)]
         /\ DOMAIN UrlBytes(lines) = {Text(l).url : l \in lines}
         /\ RefererCounts(lines) = [r \in DOMAIN RefererCounts(lines) |-> RefererOf(r, lines)]
         /\ DOMAIN RefererCounts(lines) = {Text(l).referer : l \in WithReferer(lines)}
BY DEF UrlBytes, UrlOf, RefererCounts, RefererOf

(* Numbers of disjoint sets of lines add up.                               *)
LEMMA EntriesAddUp ==
  ASSUME NEW a \in SUBSET AllLines, NEW b \in SUBSET AllLines, a \cap b = {}
  PROVE  /\ \A u : UrlOf(u, a \cup b) = UrlOf(u, a) + UrlOf(u, b)
         /\ \A r : RefererOf(r, a \cup b) = RefererOf(r, a) + RefererOf(r, b)
<1>1. ASSUME NEW u PROVE UrlOf(u, a \cup b) = UrlOf(u, a) + UrlOf(u, b)
  <2>1. /\ LinesWith(u, a \cup b) = LinesWith(u, a) \cup LinesWith(u, b)
        /\ LinesWith(u, a) \in SUBSET AllLines /\ LinesWith(u, b) \in SUBSET AllLines
        /\ LinesWith(u, a) \cap LinesWith(u, b) = {}
    BY DEF LinesWith
  <2> QED BY <2>1, SumOfUnion DEF UrlOf
<1>2. ASSUME NEW r PROVE RefererOf(r, a \cup b) = RefererOf(r, a) + RefererOf(r, b)
  <2> DEFINE x == LinesFrom(r, a)
             y == LinesFrom(r, b)
  <2>1. /\ LinesFrom(r, a \cup b) = x \cup y
        /\ x \in SUBSET AllLines /\ y \in SUBSET AllLines /\ x \cap y = {}
    BY DEF LinesFrom, WithReferer
  <2> HIDE DEF x, y
  <2>2. IsFiniteSet(x) /\ IsFiniteSet(y)
    BY <2>1, LinesFinite, FS_Subset
  <2>3. Cardinality(x) \in Nat /\ Cardinality(y) \in Nat /\ Cardinality({}) = 0
    BY <2>2, FS_CardinalityType, FS_EmptySet
  <2>4. Cardinality(x \cup y) = Cardinality(x) + Cardinality(y) - Cardinality(x \cap y)
    BY <2>2, FS_Union
  <2>a. Cardinality(x \cap y) = 0
    BY <2>1, <2>3, Zenon
  <2>5. Cardinality(x \cup y) = Cardinality(x) + Cardinality(y)
    BY <2>a, <2>3, <2>4
  <2> QED BY <2>1, <2>5 DEF RefererOf, x, y
<1> QED BY <1>1, <1>2

LEMMA DomainsUnite ==
  ASSUME NEW a, NEW b
  PROVE  /\ DOMAIN UrlBytes(a \cup b) = DOMAIN UrlBytes(a) \cup DOMAIN UrlBytes(b)
         /\ DOMAIN RefererCounts(a \cup b) = DOMAIN RefererCounts(a) \cup DOMAIN RefererCounts(b)
BY DEF UrlBytes, RefererCounts, WithReferer

LEMMA MergedPointwise ==
  ASSUME NEW x, NEW y, NEW n, n = [k \in DOMAIN n |-> n[k]],
         DOMAIN n = DOMAIN x \cup DOMAIN y,
         \A k \in DOMAIN n : n[k] = (IF k \in DOMAIN y THEN y[k] ELSE 0)
                                   + (IF k \in DOMAIN x THEN x[k] ELSE 0)
  PROVE  merge_tables(x, y, {}) = n
<1>1. DOMAIN y \cup (DOMAIN x \ {}) = DOMAIN n
  OBVIOUS
<1>2. merge_tables(x, y, {}) = [k \in DOMAIN n |-> (IF k \in DOMAIN y THEN y[k] ELSE 0)
                                                  + (IF k \in DOMAIN x THEN x[k] ELSE 0)]
  BY <1>1, Zenon DEF merge_tables
<1>3. merge_tables(x, y, {}) = [k \in DOMAIN n |-> n[k]]
  BY <1>2
<1> QED BY <1>3

(* merge_url_tables and merge_referer_tables add two sets of lines.        *)
LEMMA MergeAddsUp ==
  ASSUME NEW a \in SUBSET AllLines, NEW b \in SUBSET AllLines, a \cap b = {}
  PROVE  /\ merge_tables(UrlBytes(a), UrlBytes(b), {}) = UrlBytes(a \cup b)
         /\ merge_tables(RefererCounts(a), RefererCounts(b), {}) = RefererCounts(a \cup b)
<1> DEFINE c == a \cup b
<1>c. c \in SUBSET AllLines
  OBVIOUS
<1>u. \A u : UrlOf(u, c) = UrlOf(u, a) + UrlOf(u, b)
  BY EntriesAddUp
<1>r. \A r : RefererOf(r, c) = RefererOf(r, a) + RefererOf(r, b)
  BY EntriesAddUp
<1>d. /\ DOMAIN UrlBytes(c) = DOMAIN UrlBytes(a) \cup DOMAIN UrlBytes(b)
      /\ DOMAIN RefererCounts(c) = DOMAIN RefererCounts(a) \cup DOMAIN RefererCounts(b)
  BY DomainsUnite
<1> HIDE DEF c
<1>1. merge_tables(UrlBytes(a), UrlBytes(b), {}) = UrlBytes(c)
  <2> DEFINE x == UrlBytes(a)
             y == UrlBytes(b)
             n == UrlBytes(c)
  <2>1. n = [u \in DOMAIN n |-> n[u]]
    BY DEF UrlBytes
  <2>2. ASSUME NEW u \in DOMAIN n
        PROVE  n[u] = (IF u \in DOMAIN y THEN y[u] ELSE 0) + (IF u \in DOMAIN x THEN x[u] ELSE 0)
    <3>1. /\ n[u] = UrlOf(u, c) /\ UrlOf(u, a) \in Int /\ UrlOf(u, b) \in Int
          /\ UrlOf(u, a) = IF u \in DOMAIN x THEN x[u] ELSE 0
          /\ UrlOf(u, b) = IF u \in DOMAIN y THEN y[u] ELSE 0
      BY <1>c, TableEntries
    <3>2. UrlOf(u, c) = UrlOf(u, a) + UrlOf(u, b)
      BY <1>u
    <3> HIDE DEF n, x, y
    <3> QED BY <3>1, <3>2
  <2>3. DOMAIN n = DOMAIN x \cup DOMAIN y
    BY <1>d
  <2> HIDE DEF n, x, y
  <2>4. merge_tables(x, y, {}) = n
    BY <2>1, <2>2, <2>3, MergedPointwise
  <2> QED BY <2>4 DEF n, x, y
<1>2. merge_tables(RefererCounts(a), RefererCounts(b), {}) = RefererCounts(c)
  <2> DEFINE x == RefererCounts(a)
             y == RefererCounts(b)
             n == RefererCounts(c)
  <2>1. n = [r \in DOMAIN n |-> n[r]]
    BY DEF RefererCounts
  <2>2. ASSUME NEW r \in DOMAIN n
        PROVE  n[r] = (IF r \in DOMAIN y THEN y[r] ELSE 0) + (IF r \in DOMAIN x THEN x[r] ELSE 0)
    <3>1. /\ n[r] = RefererOf(r, c) /\ RefererOf(r, a) \in Nat /\ RefererOf(r, b) \in Nat
          /\ RefererOf(r, a) = IF r \in DOMAIN x THEN x[r] ELSE 0
          /\ RefererOf(r, b) = IF r \in DOMAIN y THEN y[r] ELSE 0
      BY <1>c, TableEntries
    <3>2. RefererOf(r, c) = RefererOf(r, a) + RefererOf(r, b)
      BY <1>r
    <3> HIDE DEF n, x, y
    <3> QED BY <3>1, <3>2
  <2>3. DOMAIN n = DOMAIN x \cup DOMAIN y
    BY <1>d
  <2> HIDE DEF n, x, y
  <2>4. merge_tables(x, y, {}) = n
    BY <2>1, <2>2, <2>3, MergedPointwise
  <2> QED BY <2>4 DEF n, x, y
<1> QED BY <1>1, <1>2 DEF c

IsUpdate(x, key, v, n) ==
  /\ n = [k \in DOMAIN n |-> n[k]] /\ x = [k \in DOMAIN x |-> x[k]]
  /\ v \in Int /\ \A k \in DOMAIN x : x[k] \in Int
  /\ DOMAIN n = DOMAIN x \cup {key}
  /\ \A k \in DOMAIN n : n[k] = (IF k \in DOMAIN x THEN x[k] ELSE 0)
                                + (IF k = key THEN v ELSE 0)

LEMMA UpdatedPointwise ==
  ASSUME NEW x, NEW key, NEW v, NEW n, IsUpdate(x, key, v, n)
  PROVE  update_table(x, key, v, TRUE) = n
<1> USE DEF IsUpdate
<1>1. CASE key \in DOMAIN x
  <2>1. DOMAIN n = DOMAIN x /\ update_table(x, key, v, TRUE) = [x EXCEPT ![key] = @ + v]
    BY <1>1 DEF update_table
  <2>2. \A k \in DOMAIN n : [x EXCEPT ![key] = @ + v][k] = n[k]
    BY <1>1, <2>1
  <2> QED BY <2>1, <2>2
<1>2. CASE key \notin DOMAIN x
  <2>1. update_table(x, key, v, TRUE) = [k \in DOMAIN n |-> IF k = key THEN v ELSE x[k]]
    BY <1>2 DEF update_table
  <2>2. \A k \in DOMAIN n : n[k] = IF k = key THEN v ELSE x[k]
    BY <1>2
  <2> QED BY <2>1, <2>2
<1> QED BY <1>1, <1>2

(* One line alone.                                                         *)
LEMMA TotalsOfOne ==
  ASSUME NEW l \in AllLines
  PROVE  /\ DOMAIN UrlBytes({l}) = {Text(l).url}
         /\ \A u : UrlOf(u, {l}) = IF u = Text(l).url THEN Text(l).bytes ELSE 0
         /\ Text(l).bytes \in Int /\ Tally!Sum[{l}] = Text(l).bytes
         /\ DOMAIN RefererCounts({l}) = IF Text(l).shape = "full" THEN {Text(l).referer} ELSE {}
         /\ \A r : RefererOf(r, {l}) = IF Text(l).shape = "full" /\ r = Text(l).referer
                                       THEN 1 ELSE 0
<1>1. Bytes[l] = Text(l).bytes /\ Text(l).bytes \in Int
  BY LinesFinite DEF Bytes
<1>2. Tally!Sum[{l}] = Bytes[l]
  <2>1. {} \in SUBSET AllLines /\ l \in AllLines \ {} /\ {} \cup {l} = {l}
    OBVIOUS
  <2>2. Tally!Sum[{} \cup {l}] = Tally!Sum[{}] + Bytes[l]
    BY <2>1, SumAdds
  <2>3. Tally!Sum[{l}] = 0 + Bytes[l]
    BY <2>1, <2>2, SumOfNone
  <2> QED BY <1>1, <2>3
<1>3. DOMAIN UrlBytes({l}) = {Text(l).url}
  BY DEF UrlBytes
<1>4. ASSUME NEW u PROVE UrlOf(u, {l}) = IF u = Text(l).url THEN Text(l).bytes ELSE 0
  <2>1. CASE u = Text(l).url
    <3>1. LinesWith(u, {l}) = {l}
      BY <2>1 DEF LinesWith
    <3> QED BY <1>1, <1>2, <2>1, <3>1 DEF UrlOf
  <2>2. CASE u # Text(l).url
    <3>1. LinesWith(u, {l}) = {}
      BY <2>2 DEF LinesWith
    <3> QED BY <2>2, <3>1, SumOfNone DEF UrlOf
  <2> QED BY <2>1, <2>2
<1>5. DOMAIN RefererCounts({l}) = IF Text(l).shape = "full" THEN {Text(l).referer} ELSE {}
  BY DEF RefererCounts, WithReferer
<1>6. ASSUME NEW r
      PROVE  RefererOf(r, {l}) = IF Text(l).shape = "full" /\ r = Text(l).referer THEN 1 ELSE 0
  <2>1. CASE Text(l).shape = "full" /\ r = Text(l).referer
    <3>1. LinesFrom(r, {l}) = {l}
      BY <2>1 DEF LinesFrom, WithReferer
    <3> QED BY <2>1, <3>1, FS_Singleton DEF RefererOf
  <2>2. CASE ~(Text(l).shape = "full" /\ r = Text(l).referer)
    <3>1. LinesFrom(r, {l}) = {}
      BY <2>2 DEF LinesFrom, WithReferer
    <3> QED BY <2>2, <3>1, FS_EmptySet DEF RefererOf
  <2> QED BY <2>1, <2>2
<1> QED BY <1>1, <1>2, <1>3, <1>4, <1>5, <1>6

(* CountLine: a line that is accepted is added to what the tables hold.    *)
LEMMA CountsLine ==
  ASSUME NEW lines \in SUBSET AllLines, NEW l \in AllLines \ lines, Text(l).shape \in GoodShapes
  PROVE  CountLine(Totals(lines), Text(l), "nothing") = Totals(lines \cup {l})
<1> DEFINE c == lines \cup {l}
<1>c. c \in SUBSET AllLines /\ {l} \in SUBSET AllLines /\ lines \cap {l} = {}
  OBVIOUS
<1>e. /\ \A u : UrlOf(u, c) = UrlOf(u, lines) + UrlOf(u, {l})
      /\ \A r : RefererOf(r, c) = RefererOf(r, lines) + RefererOf(r, {l})
  BY <1>c, EntriesAddUp
<1>d. /\ DOMAIN UrlBytes(c) = DOMAIN UrlBytes(lines) \cup DOMAIN UrlBytes({l})
      /\ DOMAIN RefererCounts(c) = DOMAIN RefererCounts(lines) \cup DOMAIN RefererCounts({l})
  BY DomainsUnite
<1>1. Tally!Sum[c] = Tally!Sum[lines] + Text(l).bytes
  <2>1. Tally!Sum[c] = Tally!Sum[lines] + Tally!Sum[{l}]
    BY <1>c, SumOfUnion
  <2>2. Tally!Sum[{l}] = Text(l).bytes
    BY TotalsOfOne
  <2> QED BY <2>1, <2>2
<1> HIDE DEF c
<1>2. update_table(UrlBytes(lines), Text(l).url, Text(l).bytes, TRUE) = UrlBytes(c)
  <2> DEFINE x == UrlBytes(lines)
             n == UrlBytes(c)
             key == Text(l).url
             v == Text(l).bytes
  <2>1. n = [u \in DOMAIN n |-> n[u]] /\ x = [u \in DOMAIN x |-> x[u]]
    BY DEF UrlBytes
  <2>2. ASSUME NEW u \in DOMAIN n
        PROVE  n[u] = (IF u \in DOMAIN x THEN x[u] ELSE 0) + (IF u = key THEN v ELSE 0)
    <3>1. n[u] = UrlOf(u, c) /\ UrlOf(u, lines) = IF u \in DOMAIN x THEN x[u] ELSE 0
      BY <1>c, TableEntries
    <3>2. UrlOf(u, c) = UrlOf(u, lines) + UrlOf(u, {l})
      BY <1>e
    <3>3. UrlOf(u, {l}) = IF u = key THEN v ELSE 0
      BY TotalsOfOne
    <3> HIDE DEF n, x, key, v
    <3> QED BY <3>1, <3>2, <3>3
  <2>3. DOMAIN n = DOMAIN x \cup {key} /\ v \in Int
    BY <1>d, TotalsOfOne
  <2>4. \A u \in DOMAIN x : x[u] \in Int
    BY TableEntries
  <2> HIDE DEF n, x, key, v
  <2>5. update_table(x, key, v, TRUE) = n
    <3>1. IsUpdate(x, key, v, n)
      BY <2>1, <2>2, <2>3, <2>4, Zenon DEF IsUpdate
    <3> QED BY <3>1, UpdatedPointwise
  <2> QED BY <2>5 DEF n, x, key, v
<1>3. CASE Text(l).shape = "full"
  <2> DEFINE x == RefererCounts(lines)
             n == RefererCounts(c)
             key == Text(l).referer
  <2>1. n = [r \in DOMAIN n |-> n[r]] /\ x = [r \in DOMAIN x |-> x[r]]
    BY DEF RefererCounts
  <2>2. ASSUME NEW r \in DOMAIN n
        PROVE  n[r] = (IF r \in DOMAIN x THEN x[r] ELSE 0) + (IF r = key THEN 1 ELSE 0)
    <3>1. n[r] = RefererOf(r, c) /\ RefererOf(r, lines) = IF r \in DOMAIN x THEN x[r] ELSE 0
      BY <1>c, TableEntries
    <3>2. RefererOf(r, c) = RefererOf(r, lines) + RefererOf(r, {l})
      BY <1>e
    <3>3. RefererOf(r, {l}) = IF r = key THEN 1 ELSE 0
      BY <1>3, TotalsOfOne
    <3> HIDE DEF n, x, key
    <3> QED BY <3>1, <3>2, <3>3
  <2>3. DOMAIN n = DOMAIN x \cup {key} /\ 1 \in Int
    <3>1. DOMAIN RefererCounts({l}) = {key}
      BY <1>3, TotalsOfOne
    <3> QED BY <1>d, <3>1
  <2>4. \A r \in DOMAIN x : x[r] \in Int
    BY TableEntries
  <2> HIDE DEF n, x, key
  <2>5. update_table(x, key, 1, TRUE) = n
    <3>1. IsUpdate(x, key, 1, n)
      BY <2>1, <2>2, <2>3, <2>4, Zenon DEF IsUpdate
    <3> QED BY <3>1, UpdatedPointwise
  <2>6. update_table(RefererCounts(lines), Text(l).referer, 1, TRUE) = RefererCounts(c)
    BY <2>5 DEF n, x, key
  <2>7. Referer(Text(l)) = {Text(l).referer} /\ parse_log_line(Text(l))
    BY <1>3 DEF Referer, parse_log_line, GoodShapes
  <2> QED BY <1>1, <1>2, <2>6, <2>7 DEF CountLine, Totals, c
<1>4. CASE Text(l).shape # "full"
  <2>1. DOMAIN RefererCounts(c) = DOMAIN RefererCounts(lines)
    BY <1>4, <1>d, TotalsOfOne
  <2>2. \A r : RefererOf(r, c) = RefererOf(r, lines)
    <3>1. \A r : RefererOf(r, {l}) = 0
      BY <1>4, TotalsOfOne
    <3>2. \A r : RefererOf(r, lines) \in Nat
      BY TableEntries
    <3> QED BY <1>e, <3>1, <3>2
  <2>3. RefererCounts(c) = RefererCounts(lines)
    <3> DEFINE D == DOMAIN RefererCounts(lines)
    <3>1. RefererCounts(c) = [r \in D |-> RefererOf(r, c)]
      BY <2>1, TablesAreFunctions, Zenon
    <3>2. RefererCounts(lines) = [r \in D |-> RefererOf(r, lines)]
      BY TablesAreFunctions, Zenon
    <3> HIDE DEF D
    <3> QED BY <2>2, <3>1, <3>2
  <2>4. Referer(Text(l)) = {} /\ parse_log_line(Text(l))
    BY <1>4 DEF Referer, parse_log_line, GoodShapes
  <2> QED BY <1>1, <1>2, <2>3, <2>4 DEF CountLine, Totals, c
<1> QED BY <1>3, <1>4

-----------------------------------------------------------------------------
(* process_file goes through the lines one after the other.                *)
LineByLine(upto, stats, lines, at, lost) ==
  /\ upto[0] = stats
  /\ \A i \in 1 .. Len(lines) :
       upto[i] = CountLine(upto[i - 1], lines[i], Meets(i, at, lost))

LEMMA ProcessEquation ==
  ASSUME NEW stats, NEW lines, Len(lines) \in Nat, NEW at, NEW lost
  PROVE  \E upto : /\ LineByLine(upto, stats, lines, at, lost)
                   /\ process_file(stats, lines, at, lost) = upto[Len(lines)]
<1> DEFINE n == Len(lines)
           Count(v, i) == CountLine(v, lines[i], Meets(i, at, lost))
           Eqn(f) == f = [i \in 0 .. n |-> IF i = 0 THEN stats ELSE Count(f[i - 1], i)]
           Upto(m) == \E g : g = [i \in 0 .. m |-> IF i = 0 THEN stats ELSE Count(g[i - 1], i)]
           T == {m \in Nat : Upto(m)}
           u == CHOOSE f : Eqn(f)
<1>p. process_file(stats, lines, at, lost) = u[n]
  BY DEF process_file
<1>n. n \in Nat
  OBVIOUS
<1> HIDE DEF n, Count
<1>1. Upto(0)
  <2> DEFINE g == [i \in 0 .. 0 |-> stats]
  <2>1. \A i \in 0 .. 0 : i = 0
    OBVIOUS
  <2>2. g = [i \in 0 .. 0 |-> IF i = 0 THEN stats ELSE Count(g[i - 1], i)]
    BY <2>1
  <2> QED BY <2>2
<1>2. ASSUME NEW m \in Nat, Upto(m) PROVE Upto(m + 1)
  <2>1. PICK g : g = [i \in 0 .. m |-> IF i = 0 THEN stats ELSE Count(g[i - 1], i)]
    BY <1>2
  <2>2. \A i \in 0 .. m : g[i] = IF i = 0 THEN stats ELSE Count(g[i - 1], i)
    BY <2>1
  <2> DEFINE f == [i \in 0 .. m + 1 |-> IF i = m + 1 THEN Count(g[m], m + 1) ELSE g[i]]
  <2>3. ASSUME NEW i \in 0 .. m + 1
        PROVE  f[i] = IF i = 0 THEN stats ELSE Count(f[i - 1], i)
    <3>1. CASE i = m + 1
      <4>1. f[i] = Count(g[m], m + 1) /\ f[i - 1] = g[m] /\ i # 0
        BY <3>1
      <4> QED BY <3>1, <4>1
    <3>2. CASE i # m + 1 /\ i # 0
      <4>1. i \in 0 .. m /\ i - 1 \in 0 .. m
        BY <3>2
      <4>2. f[i] = g[i] /\ f[i - 1] = g[i - 1]
        BY <4>1
      <4> QED BY <2>2, <3>2, <4>1, <4>2
    <3>3. CASE i # m + 1 /\ i = 0
      <4>1. i \in 0 .. m
        BY <3>3
      <4>2. f[i] = g[i]
        BY <4>1
      <4> QED BY <2>2, <3>3, <4>1, <4>2
    <3> QED BY <3>1, <3>2, <3>3
  <2>4. f = [i \in 0 .. m + 1 |-> f[i]]
    OBVIOUS
  <2> HIDE DEF f
  <2>5. f = [i \in 0 .. m + 1 |-> IF i = 0 THEN stats ELSE Count(f[i - 1], i)]
    BY <2>3, <2>4
  <2> QED BY <2>5
<1> HIDE DEF Upto
<1>3. 0 \in T /\ \A m \in Nat : m \in T => m + 1 \in T
  BY <1>1, <1>2
<1>4. \A m \in Nat : m \in T
  <2> HIDE DEF T
  <2> QED BY <1>3, NatInductionSet
<1>5. Upto(n)
  BY <1>4, <1>n
<1>6. \E f : Eqn(f)
  BY <1>5 DEF Upto
<1>7. Eqn(u)
  <2> HIDE DEF Eqn
  <2> QED BY <1>6
<1> HIDE DEF u
<1>8. u[0] = stats /\ \A i \in 1 .. n : u[i] = Count(u[i - 1], i)
  BY <1>7, <1>n
<1>9. LineByLine(u, stats, lines, at, lost)
  BY <1>8 DEF LineByLine, n, Count
<1> QED BY <1>9, <1>p DEF n

LEMMA FileLines ==
  ASSUME NEW f \in FileIdx
  PROVE  /\ Len(Logs[f]) \in Nat /\ Lines[f] \in SUBSET AllLines
         /\ \A l \in Lines[f] : l = <<f, l[2]>> /\ l[2] \in 1 .. Len(Logs[f])
         /\ \A n \in 1 .. Len(Logs[f]) : /\ <<f, n>> \in Lines[f]
                                         /\ Text(<<f, n>>) = Logs[f][n]
<1>1. Len(Logs[f]) \in Nat /\ DOMAIN Logs[f] = 1 .. Len(Logs[f])
  BY LogAssumption
<1>2. Lines[f] = {f} \X (1 .. Len(Logs[f]))
  BY <1>1 DEF Lines
<1> QED BY <1>1, <1>2 DEF AllLines, Text

Good(lines) == {l \in lines : Text(l).shape \in GoodShapes}

(* A file that is read without loss adds its accepted lines.               *)
LEMMA FileIsCounted ==
  ASSUME NEW f \in FileIdx, NEW lines \in SUBSET AllLines, lines \cap Lines[f] = {}
  PROVE  process_file(Totals(lines), Logs[f], 0, "nothing") = Totals(lines \cup Good(Lines[f]))
<1> DEFINE n == Len(Logs[f])
           Part(i) == {l \in Good(Lines[f]) : l[2] <= i}
<1>0. n \in Nat
  BY FileLines
<1>1. PICK u : /\ LineByLine(u, Totals(lines), Logs[f], 0, "nothing")
               /\ process_file(Totals(lines), Logs[f], 0, "nothing") = u[n]
  BY <1>0, ProcessEquation
<1>2. u[0] = Totals(lines) /\ \A i \in 1 .. n : u[i] = CountLine(u[i - 1], Logs[f][i], "nothing")
  BY <1>0, <1>1 DEF LineByLine, Meets
<1>3. Part(0) = {} /\ Part(n) = Good(Lines[f])
  BY FileLines, <1>0 DEF Good
<1>4. ASSUME NEW i \in Nat, i < n, u[i] = Totals(lines \cup Part(i))
      PROVE  u[i + 1] = Totals(lines \cup Part(i + 1))
  <2> DEFINE l == <<f, i + 1>>
  <2>1. i + 1 \in 1 .. n /\ (i + 1) - 1 = i
    BY <1>0, <1>4
  <2>2. l \in Lines[f] /\ Text(l) = Logs[f][i + 1] /\ l[2] = i + 1 /\ l \in AllLines
    BY <2>1, FileLines
  <2>3. \A k \in Lines[f] : k[2] \in Nat /\ (k[2] = i + 1 => k = l)
    BY FileLines
  <2>4. u[i + 1] = CountLine(Totals(lines \cup Part(i)), Text(l), "nothing")
    BY <1>2, <1>4, <2>1, <2>2
  <2> HIDE DEF l
  <2>5. CASE Text(l).shape \in GoodShapes
    <3>1. Part(i + 1) = Part(i) \cup {l}
      BY <2>2, <2>3, <2>5 DEF Good
    <3>2. lines \cup Part(i) \in SUBSET AllLines /\ l \in AllLines \ (lines \cup Part(i))
      BY <2>2, FileLines DEF Good
    <3>3. lines \cup Part(i + 1) = (lines \cup Part(i)) \cup {l}
      BY <3>1
    <3> HIDE DEF Part
    <3>4. CountLine(Totals(lines \cup Part(i)), Text(l), "nothing")
            = Totals((lines \cup Part(i)) \cup {l})
      BY <2>5, <3>2, CountsLine
    <3> QED BY <2>4, <3>3, <3>4
  <2>6. CASE Text(l).shape \notin GoodShapes
    <3>1. Part(i + 1) = Part(i)
      BY <2>2, <2>3, <2>6 DEF Good
    <3>2. ~parse_log_line(Text(l))
      BY <2>6 DEF parse_log_line, GoodShapes
    <3> HIDE DEF Part
    <3> QED BY <2>4, <3>1, <3>2 DEF CountLine
  <2> QED BY <2>5, <2>6
<1> HIDE DEF Part
<1> DEFINE T == {i \in Nat : i <= n => u[i] = Totals(lines \cup Part(i))}
<1>5. 0 \in T
  <2>1. lines \cup Part(0) = lines
    BY <1>3
  <2> QED BY <1>2, <2>1
<1> HIDE DEF n
<1>6. ASSUME NEW i \in Nat, i \in T PROVE i + 1 \in T
  <2> SUFFICES ASSUME i + 1 <= n PROVE u[i + 1] = Totals(lines \cup Part(i + 1))
    OBVIOUS
  <2>1. i < n /\ i <= n
    BY <1>0
  <2> QED BY <1>4, <1>6, <2>1
<1>7. \A i \in Nat : i \in T
  <2> HIDE DEF T
  <2> QED BY <1>5, <1>6, NatInductionSet
<1>8. u[n] = Totals(lines \cup Part(n))
  BY <1>0, <1>7
<1> QED BY <1>1, <1>3, <1>8

(* Whatever is lost, the bytes that are added are those of lines of the    *)
(* file, each at most once.                                                *)
AddsLines(f, stats, at, lost) ==
  \E lines \in SUBSET Lines[f] :
    process_file(stats, Logs[f], at, lost).bytes = stats.bytes + Tally!Sum[lines]

LEMMA FileAddsLines ==
  ASSUME NEW f \in FileIdx, NEW stats, stats.bytes \in Int, NEW at, NEW lost
  PROVE  AddsLines(f, stats, at, lost)
<1> DEFINE n == Len(Logs[f])
           S == Tally!Sum
           b == stats.bytes
           Part(i) == {l \in Lines[f] : l[2] <= i}
           Adds(i, v) == \E lines \in SUBSET Part(i) : v.bytes = b + S[lines]
<1>0. n \in Nat
  BY FileLines
<1>1. PICK u : LineByLine(u, stats, Logs[f], at, lost) /\ process_file(stats, Logs[f], at, lost) = u[n]
  BY <1>0, ProcessEquation
<1> DEFINE lose(i) == Meets(i, at, lost)
<1>2. u[0] = stats /\ \A i \in 1 .. n : u[i] = CountLine(u[i - 1], Logs[f][i], lose(i))
  BY <1>0, <1>1 DEF LineByLine
<1> HIDE DEF lose
<1>3. Adds(0, u[0])
  <2>1. {} \in SUBSET Part(0) /\ u[0].bytes = b + S[{}]
    BY <1>2, SumOfNone
  <2> HIDE DEF S, Part
  <2> QED BY <2>1
<1>4. ASSUME NEW i \in Nat, i < n, Adds(i, u[i]) PROVE Adds(i + 1, u[i + 1])
  <2> DEFINE l == <<f, i + 1>>
  <2>1. i + 1 \in 1 .. n /\ (i + 1) - 1 = i
    BY <1>0, <1>4
  <2>2. /\ l \in Lines[f] /\ Text(l) = Logs[f][i + 1] /\ l[2] = i + 1 /\ l \in AllLines
        /\ Lines[f] \in SUBSET AllLines /\ \A k \in Lines[f] : k[2] \in Nat
    BY <2>1, FileLines
  <2>3. u[i + 1] = CountLine(u[i], Text(l), lose(i + 1))
    BY <1>2, <2>1, <2>2
  <2> HIDE DEF l
  <2>4. PICK lines \in SUBSET Part(i) : u[i].bytes = b + S[lines]
    BY <1>4
  <2>5. Part(i) \subseteq Part(i + 1) /\ l \in Part(i + 1) /\ l \notin Part(i)
    BY <2>2
  <2>6. lines \in SUBSET AllLines /\ lines \cup {l} \in SUBSET Part(i + 1) /\ lines \in SUBSET Part(i + 1)
    BY <2>2, <2>4, <2>5
  <2>7. S[lines \cup {l}] = S[lines] + Bytes[l] /\ Bytes[l] = Text(l).bytes
    BY <2>2, <2>4, <2>5, <2>6, SumAdds DEF Bytes
  <2>8. S[lines] \in Int /\ Bytes[l] \in Int
    BY <2>2, <2>6, SumEquation, LinesFinite
  <2>9. u[i + 1].bytes = u[i].bytes \/ u[i + 1].bytes = u[i].bytes + Text(l).bytes
    BY <2>3 DEF CountLine
  <2> HIDE DEF S, b, Part
  <2>10. u[i + 1].bytes = b + S[lines] \/ u[i + 1].bytes = b + S[lines \cup {l}]
    <3>1. b \in Int
      BY DEF b
    <3> QED BY <3>1, <2>4, <2>7, <2>8, <2>9
  <2> QED BY <2>6, <2>10
<1> HIDE DEF Adds
<1> DEFINE T == {i \in Nat : i <= n => Adds(i, u[i])}
<1>5. 0 \in T
  BY <1>3
<1> HIDE DEF n
<1>6. ASSUME NEW i \in Nat, i \in T PROVE i + 1 \in T
  <2> SUFFICES ASSUME i + 1 <= n PROVE Adds(i + 1, u[i + 1])
    OBVIOUS
  <2>1. i < n /\ i <= n
    BY <1>0
  <2> QED BY <1>4, <1>6, <2>1
<1>7. \A i \in Nat : i \in T
  <2> HIDE DEF T
  <2> QED BY <1>5, <1>6, NatInductionSet
<1>8. Adds(n, u[n])
  BY <1>0, <1>7
<1>9. \E lines \in SUBSET Lines[f] :
        process_file(stats, Logs[f], at, lost).bytes = stats.bytes + Tally!Sum[lines]
  BY <1>1, <1>8 DEF Adds
<1> QED BY <1>9 DEF AddsLines

-----------------------------------------------------------------------------
(* The files a thread has been through, and the accepted lines of files.   *)
Read(t) == IF pc[t] = "process" THEN batch[t] \ {file_index[t]} ELSE batch[t]
LinesIn(files, failures) ==
  {l \in AllLines : /\ Text(l).shape \in GoodShapes /\ l[1] \in files
                    /\ <<"open", l[1]>> \notin failures}

WorkTypes ==
  /\ batch \in [Threads -> SUBSET FileIdx]
  /\ DOMAIN local = Threads /\ DOMAIN seen = Threads
  /\ total_files \in Int /\ created \in Nat

(* find_files: before it nothing has happened; after it total_files is the *)
(* number of files, or 1 for a directory that could not be opened, and     *)
(* then no name was ever read.                                             *)
Listed ==
  /\ main_pc = "scan" => /\ faults = {} /\ next_file_index = 1
                         /\ \A t \in Threads : pc[t] = "unborn"
  /\ main_pc \in {"create", "join"} =>
       IF <<"opendir", 0>> \in faults THEN total_files = 1 /\ next_file_index = 1
       ELSE total_files = NumFiles

(* Where a thread is tells what it has done: it has no file before it      *)
(* starts, or when it left for want of memory, and it merges only when it  *)
(* found that no file was left.                                            *)
Progress ==
  \A t \in Threads :
    /\ t > created => pc[t] = "unborn"
    /\ pc[t] \in {"unborn", "start"} => batch[t] = {}
    /\ pc[t] = "process" => file_index[t] \in batch[t]
    /\ <<"thread", t>> \in faults => pc[t] = "gone" /\ batch[t] = {}
    /\ \/ pc[t] \in {"merge", "store"}
       \/ pc[t] = "gone" /\ <<"thread", t>> \notin faults
       => next_file_index > total_files

(* Between its load of the tables and its store a thread holds stats_mutex *)
(* and has the tables as they still are; counted are the files of the      *)
(* threads that are gone.                                                  *)
StatsHeld ==
  /\ \A t \in Threads : pc[t] = "store" => stats_mutex = t /\ seen[t] = global
  /\ counted = UNION {batch[t] : t \in {s \in Threads : pc[s] = "gone"}}

(* A file that could not be opened is one that some thread was through.    *)
OpenFailed == \A f \in FileIdx : <<"open", f>> \in faults => \E t \in Threads : f \in Read(t)

PrintedLast == report # NoReport => main_pc = "done"

(* What a thread has counted are lines of its files, each once.            *)
PartsCounted ==
  \A t \in Threads : \E lines \in SUBSET Tally!LinesOf(Read(t)) :
    local[t].bytes = Tally!Sum[lines]

(* Unless something was lost, a thread's tables are exact, so are the      *)
(* global ones, and every node has its key.                                *)
Exact ==
  ~Happened(Losses) =>
    /\ global = Totals(LinesIn(counted, faults)) /\ nameless = {}
    /\ \A t \in Threads : local[t] = Totals(LinesIn(Read(t), faults))

WorkInv == /\ TakenInv /\ WorkTypes /\ Listed /\ Progress /\ StatsHeld /\ OpenFailed
           /\ PrintedLast /\ PartsCounted

LEMMA FaultAdds ==
  ASSUME NEW kind, NEW where, Fault(kind, where)
  PROVE  /\ \A k, w : <<k, w>> \in faults' <=> (<<k, w>> \in faults \/ (k = kind /\ w = where))
         /\ faults \subseteq faults'
         /\ main_pc \notin {"done", "failed", "crashed"}
BY DEF Fault

(* All of WorkInv but TakenInv, which is invariant by itself.              *)
Rest == /\ WorkTypes /\ Listed /\ Progress /\ StatsHeld /\ OpenFailed /\ PrintedLast
        /\ PartsCounted

(* Steps of main.                                                          *)
LEMMA FindFilesKeeps ==
  ASSUME WorkInv, find_files
  PROVE  Rest'
<1>1. /\ main_pc = "scan" /\ UNCHANGED <<created, report, shared, own, ghosts>>
      /\ main_pc' \in {"create", "failed"}
  BY DEF find_files
<1>2. /\ faults = {} /\ next_file_index = 1 /\ \A t \in Threads : pc[t] = "unborn"
      /\ report = NoReport
  BY <1>1 DEF WorkInv, Listed, PrintedLast
<1>3. \/ total_files' = NumFiles /\ faults' = {}
      \/ total_files' = 1 /\ faults' = {<<"opendir", 0>>}
      \/ total_files' = -1 /\ faults' = {<<"realloc", 0>>} /\ main_pc' = "failed"
  BY <1>2 DEF find_files, Fault
<1>4. UNCHANGED <<created, report, next_file_index, file_mutex, stats_mutex, global, pc,
                  file_index, local, seen, batch, counted>>
  BY <1>1 DEF shared, own, ghosts
<1>5. WorkTypes'
  BY <1>3, <1>4, LogAssumption DEF WorkInv, WorkTypes
<1>6. Listed'
  BY <1>1, <1>2, <1>3, <1>4 DEF Listed
<1>7. Progress'
  <2>1. \A t \in Threads : <<"thread", t>> \notin faults'
    BY <1>3
  <2> QED BY <1>2, <1>4, <2>1 DEF WorkInv, Progress
<1>8. StatsHeld'
  BY <1>4 DEF WorkInv, StatsHeld
<1>9. OpenFailed' /\ PrintedLast'
  BY <1>2, <1>3, <1>4 DEF OpenFailed, PrintedLast
<1>10. PartsCounted'
  BY <1>4 DEF WorkInv, PartsCounted, Read
<1> QED BY <1>5, <1>6, <1>7, <1>8, <1>9, <1>10 DEF Rest

LEMMA CreateKeeps ==
  ASSUME WorkInv, CreateThread
  PROVE  Rest'
<1>1. /\ main_pc = "create" /\ main_pc' \in {"create", "join", "failed"}
      /\ UNCHANGED <<total_files, report, next_file_index, file_mutex, stats_mutex, global,
                     file_index, local, seen, batch, counted>>
  BY DEF CreateThread, shared, ghosts
<1>2. /\ faults \subseteq faults'
      /\ \A w : /\ <<"thread", w>> \in faults' <=> <<"thread", w>> \in faults
                /\ <<"open", w>> \in faults' <=> <<"open", w>> \in faults
                /\ <<"opendir", w>> \in faults' <=> <<"opendir", w>> \in faults
  <2>1. CASE UNCHANGED faults
    BY <2>1
  <2>2. CASE Fault("tables", 0) \/ Fault("create", created + 1)
    BY <2>2, FaultAdds
  <2> QED BY <2>1, <2>2 DEF CreateThread
<1>3. /\ created \in Nat /\ created' \in Nat /\ created <= created'
      /\ \A t \in Threads :
           pc'[t] = pc[t] \/ (t = created + 1 /\ created' = created + 1 /\ pc'[t] = "start")
      /\ \A t \in Threads : pc[t] = "unborn" => pc'[t] \in {"unborn", "start"}
  BY DEF CreateThread, WorkInv, TakenInv, IndexTypes, WorkTypes
<1>4. \A t \in Threads : t \in Nat
  BY DEF Threads
<1>5. ASSUME NEW t \in Threads
      PROVE  pc'[t] = pc[t] \/ (pc[t] = "unborn" /\ pc'[t] = "start")
  <2>1. t > created => pc[t] = "unborn"
    BY DEF WorkInv, Progress
  <2> QED BY <1>3, <1>4, <2>1
<1>6. \A t \in Threads : Read(t)' = Read(t)
  BY <1>1, <1>5 DEF Read
<1>7. WorkTypes' /\ Listed' /\ PrintedLast'
  BY <1>1, <1>2, <1>3 DEF WorkInv, WorkTypes, Listed, PrintedLast
<1>8. Progress'
  <2> SUFFICES ASSUME NEW t \in Threads
               PROVE  /\ t > created' => pc'[t] = "unborn"
                      /\ pc'[t] \in {"unborn", "start"} => batch'[t] = {}
                      /\ pc'[t] = "process" => file_index'[t] \in batch'[t]
                      /\ <<"thread", t>> \in faults' => pc'[t] = "gone" /\ batch'[t] = {}
                      /\ \/ pc'[t] \in {"merge", "store"}
                         \/ pc'[t] = "gone" /\ <<"thread", t>> \notin faults'
                         => next_file_index' > total_files'
    BY DEF Progress
  <2>1. t > created => pc[t] = "unborn"
    BY DEF WorkInv, Progress
  <2>2. t > created' => pc'[t] = "unborn"
    BY <1>3, <1>4, <2>1
  <2> QED BY <1>1, <1>2, <1>5, <2>2 DEF WorkInv, Progress
<1>9. StatsHeld'
  <2>1. {t \in Threads : pc'[t] = "gone"} = {t \in Threads : pc[t] = "gone"}
    BY <1>5
  <2> QED BY <1>1, <1>5, <2>1 DEF WorkInv, StatsHeld
<1>10. OpenFailed' /\ PartsCounted'
  BY <1>1, <1>2, <1>6 DEF WorkInv, OpenFailed, PartsCounted
<1> QED BY <1>7, <1>8, <1>9, <1>10 DEF Rest

(* Steps of the threads.                                                   *)
LEMMA StartKeeps ==
  ASSUME WorkInv, NEW t \in Threads, ThreadStart(t)
  PROVE  Rest'
<1>1. /\ main_pc \in {"create", "join"} /\ pc[t] = "start"
      /\ UNCHANGED <<main_pc, created, total_files, report, next_file_index, file_mutex,
                     stats_mutex, global, file_index, local, seen, batch, counted>>
  BY DEF ThreadStart, Running, shared, ghosts
<1>2. /\ pc' \in [Threads -> Places] /\ pc'[t] \in {"lock", "gone"}
      /\ \A s \in Threads \ {t} : pc'[s] = pc[s]
      /\ \A k, w : <<k, w>> \in faults' <=> \/ <<k, w>> \in faults
                                            \/ k = "thread" /\ w = t /\ pc'[t] = "gone"
  <2>p. pc \in [Threads -> Places]
    BY DEF WorkInv, TakenInv, IndexTypes
  <2>1. CASE pc' = [pc EXCEPT ![t] = "lock"] /\ UNCHANGED faults
    BY <2>p, <2>1 DEF Places
  <2>2. CASE Fault("thread", t) /\ pc' = [pc EXCEPT ![t] = "gone"]
    BY <2>p, <2>2, FaultAdds DEF Places
  <2> QED BY <2>1, <2>2 DEF ThreadStart
<1>3. batch[t] = {} /\ ~(t > created) /\ <<"thread", t>> \notin faults
  BY <1>1 DEF WorkInv, Progress
<1>4. \A s \in Threads : Read(s)' = Read(s)
  BY <1>1, <1>2, <1>3 DEF Read
<1>5. WorkTypes' /\ PrintedLast'
  BY <1>1 DEF WorkInv, WorkTypes, PrintedLast
<1>6. Listed'
  BY <1>1, <1>2 DEF WorkInv, Listed
<1>7. Progress'
  <2> SUFFICES ASSUME NEW s \in Threads
               PROVE  /\ s > created' => pc'[s] = "unborn"
                      /\ pc'[s] \in {"unborn", "start"} => batch'[s] = {}
                      /\ pc'[s] = "process" => file_index'[s] \in batch'[s]
                      /\ <<"thread", s>> \in faults' => pc'[s] = "gone" /\ batch'[s] = {}
                      /\ \/ pc'[s] \in {"merge", "store"}
                         \/ pc'[s] = "gone" /\ <<"thread", s>> \notin faults'
                         => next_file_index' > total_files'
    BY DEF Progress
  <2>1. CASE s = t
    BY <1>1, <1>2, <1>3, <2>1
  <2>2. CASE s # t
    BY <1>1, <1>2, <2>2 DEF WorkInv, Progress
  <2> QED BY <2>1, <2>2
<1>8. StatsHeld'
  <2>1. \A s \in Threads : pc'[s] = "store" => pc[s] = "store"
    BY <1>2
  <2>2. UNION {batch[s] : s \in {r \in Threads : pc'[r] = "gone"}}
          = UNION {batch[s] : s \in {r \in Threads : pc[r] = "gone"}}
    BY <1>1, <1>2, <1>3
  <2> QED BY <1>1, <2>1, <2>2 DEF WorkInv, StatsHeld
<1>9. OpenFailed' /\ PartsCounted'
  BY <1>1, <1>2, <1>4 DEF WorkInv, OpenFailed, PartsCounted
<1> QED BY <1>5, <1>6, <1>7, <1>8, <1>9 DEF Rest

(* A step of a thread that has started, does not take a file and does not  *)
(* touch the tables: what is left to show is the place it goes to.         *)
LEMMA MovesOn ==
  ASSUME WorkInv, NEW t \in Threads, NEW place \in {"take", "merge"},
         pc[t] \in {"lock", "take"}, pc' = [pc EXCEPT ![t] = place],
         place = "merge" => next_file_index > total_files,
         UNCHANGED <<main_pc, created, total_files, report, next_file_index, stats_mutex,
                     global, local, seen, batch, counted, faults>>,
         \A s \in Threads : s # t => file_index'[s] = file_index[s]
  PROVE  Rest'
<1>2. /\ pc'[t] = place /\ \A s \in Threads \ {t} : pc'[s] = pc[s]
  BY DEF WorkInv, TakenInv, IndexTypes
<1>3. ~(t > created) /\ <<"thread", t>> \notin faults
  BY DEF WorkInv, Progress
<1>4. \A s \in Threads : Read(s)' = Read(s)
  BY <1>2 DEF Read
<1>5. WorkTypes' /\ PrintedLast'
  BY DEF WorkInv, WorkTypes, PrintedLast
<1>6. Listed'
  BY <1>2 DEF WorkInv, Listed
<1>7. Progress'
  <2> SUFFICES ASSUME NEW s \in Threads
               PROVE  /\ s > created' => pc'[s] = "unborn"
                      /\ pc'[s] \in {"unborn", "start"} => batch'[s] = {}
                      /\ pc'[s] = "process" => file_index'[s] \in batch'[s]
                      /\ <<"thread", s>> \in faults' => pc'[s] = "gone" /\ batch'[s] = {}
                      /\ \/ pc'[s] \in {"merge", "store"}
                         \/ pc'[s] = "gone" /\ <<"thread", s>> \notin faults'
                         => next_file_index' > total_files'
    BY DEF Progress
  <2>1. CASE s = t
    BY <1>2, <1>3, <2>1
  <2>2. CASE s # t
    BY <1>2, <2>2 DEF WorkInv, Progress
  <2> QED BY <2>1, <2>2
<1>8. StatsHeld'
  <2>1. /\ \A s \in Threads : pc'[s] = "store" => pc[s] = "store"
        /\ {s \in Threads : pc'[s] = "gone"} = {s \in Threads : pc[s] = "gone"}
    BY <1>2
  <2> QED BY <2>1 DEF WorkInv, StatsHeld
<1>9. OpenFailed' /\ PartsCounted'
  BY <1>4 DEF WorkInv, OpenFailed, PartsCounted
<1> QED BY <1>5, <1>6, <1>7, <1>8, <1>9 DEF Rest

LEMMA LoadIndexKeeps ==
  ASSUME WorkInv, NEW t \in Threads, LoadIndex(t)
  PROVE  Rest'
<1>1. /\ pc[t] \in {"lock", "take"} /\ pc' = [pc EXCEPT ![t] = "take"]
      /\ UNCHANGED <<main_pc, created, total_files, report, next_file_index, stats_mutex,
                     global, local, seen, batch, counted, faults>>
      /\ \A s \in Threads : s # t => file_index'[s] = file_index[s]
  BY DEF LoadIndex, ghosts, WorkInv, TakenInv, IndexTypes
<1> QED BY <1>1, MovesOn

LEMMA TakeFileKeeps ==
  ASSUME WorkInv, NEW t \in Threads, TakeFile(t)
  PROVE  Rest'
<1>1. /\ main_pc \in {"create", "join"} /\ pc[t] = "take" /\ file_index[t] = next_file_index
      /\ next_file_index \in Nat /\ total_files \in Int
      /\ UNCHANGED <<created, total_files, report, stats_mutex, global, file_index, local,
                     seen, counted, faults>>
  BY DEF TakeFile, Running, WorkInv, TakenInv, IndexHeld, IndexTypes, WorkTypes
<1>2. CASE /\ InRange(file_index[t]) /\ HasName(file_index[t])
           /\ next_file_index' = file_index[t] + 1
           /\ batch' = [batch EXCEPT ![t] = @ \cup {file_index[t]}]
           /\ pc' = [pc EXCEPT ![t] = "process"]
           /\ UNCHANGED main_pc
  <2> DEFINE f == file_index[t]
  <2>1. f \in FileIdx /\ <<"opendir", 0>> \notin faults
    BY <1>2 DEF HasName
  <2>2. f \notin batch[t]
    BY <1>1 DEF WorkInv, TakenInv, TakenOnce, IndexTypes
  <2>3. /\ pc'[t] = "process" /\ batch'[t] = batch[t] \cup {f}
        /\ \A s \in Threads \ {t} : pc'[s] = pc[s] /\ batch'[s] = batch[s]
    BY <1>2 DEF WorkInv, TakenInv, IndexTypes
  <2>4. \A s \in Threads : Read(s)' = Read(s)
    <3>1. Read(t)' = (batch[t] \cup {f}) \ {f} /\ Read(t) = batch[t]
      BY <1>1, <2>3 DEF Read
    <3>2. Read(t)' = Read(t)
      BY <2>2, <3>1
    <3>3. \A s \in Threads \ {t} : Read(s)' = Read(s)
      BY <1>1, <2>3 DEF Read
    <3> QED BY <3>2, <3>3
  <2>5. WorkTypes'
    BY <1>1, <1>2, <2>1 DEF WorkInv, WorkTypes
  <2>6. PrintedLast' /\ Listed'
    BY <1>1, <1>2, <2>1 DEF WorkInv, PrintedLast, Listed
  <2>7. ~(t > created) /\ <<"thread", t>> \notin faults
    BY <1>1 DEF WorkInv, Progress
  <2>8. Progress'
    <3> SUFFICES ASSUME NEW s \in Threads
                 PROVE  /\ s > created' => pc'[s] = "unborn"
                        /\ pc'[s] \in {"unborn", "start"} => batch'[s] = {}
                        /\ pc'[s] = "process" => file_index'[s] \in batch'[s]
                        /\ <<"thread", s>> \in faults' => pc'[s] = "gone" /\ batch'[s] = {}
                        /\ \/ pc'[s] \in {"merge", "store"}
                           \/ pc'[s] = "gone" /\ <<"thread", s>> \notin faults'
                           => next_file_index' > total_files'
      BY DEF Progress
    <3>1. CASE s = t
      BY <1>1, <2>3, <2>7, <3>1
    <3>2. CASE s # t
      <4>1. next_file_index > total_files => next_file_index' > total_files'
        BY <1>1, <1>2
      <4> QED BY <1>1, <2>3, <3>2, <4>1 DEF WorkInv, Progress
    <3> QED BY <3>1, <3>2
  <2>9. StatsHeld'
    <3>1. /\ \A s \in Threads : pc'[s] = "store" => pc[s] = "store"
          /\ {s \in Threads : pc'[s] = "gone"} = {s \in Threads : pc[s] = "gone"}
          /\ \A s \in Threads : pc[s] = "gone" => batch'[s] = batch[s]
      BY <1>1, <2>3
    <3>2. UNION {batch'[s] : s \in {r \in Threads : pc'[r] = "gone"}}
            = UNION {batch[s] : s \in {r \in Threads : pc[r] = "gone"}}
      BY <3>1
    <3> QED BY <1>1, <3>1, <3>2 DEF WorkInv, StatsHeld
  <2>10. OpenFailed' /\ PartsCounted'
    BY <1>1, <2>4 DEF WorkInv, OpenFailed, PartsCounted
  <2> QED BY <2>5, <2>6, <2>8, <2>9, <2>10 DEF Rest
<1>3. CASE main_pc' = "crashed" /\ UNCHANGED <<next_file_index, batch, pc>>
  <2>1. \A s \in Threads : Read(s)' = Read(s)
    BY <1>1, <1>3 DEF Read
  <2>2. WorkTypes' /\ Listed' /\ PrintedLast'
    BY <1>1, <1>3 DEF WorkInv, WorkTypes, Listed, PrintedLast
  <2>3. Progress' /\ StatsHeld'
    BY <1>1, <1>3 DEF WorkInv, Progress, StatsHeld
  <2>4. OpenFailed' /\ PartsCounted'
    BY <1>1, <2>1 DEF WorkInv, OpenFailed, PartsCounted
  <2> QED BY <2>2, <2>3, <2>4 DEF Rest
<1>4. CASE /\ ~InRange(file_index[t])
           /\ pc' = [pc EXCEPT ![t] = "merge"]
           /\ UNCHANGED <<main_pc, next_file_index, batch>>
  <2>1. next_file_index > total_files
    BY <1>1, <1>4 DEF InRange
  <2> QED BY <1>1, <1>4, <2>1, MovesOn
<1> QED BY <1>2, <1>3, <1>4 DEF TakeFile

(* What has been read by one thread has not been read by another.          *)
LEMMA ReadOnce ==
  ASSUME WorkInv
  PROVE  /\ \A t \in Threads : Read(t) \subseteq batch[t] /\ Read(t) \subseteq FileIdx
         /\ \A s, t \in Threads : s # t => batch[s] \cap batch[t] = {}
         /\ counted \subseteq FileIdx
         /\ \A t \in Threads : pc[t] # "gone" => counted \cap batch[t] = {}
<1>1. \A t \in Threads : batch[t] \in SUBSET FileIdx
  BY DEF WorkInv, WorkTypes
<1>2. \A s, t \in Threads : s # t => batch[s] \cap batch[t] = {}
  BY DEF WorkInv, TakenInv, TakenOnce
<1>3. counted = UNION {batch[t] : t \in {s \in Threads : pc[s] = "gone"}}
  BY DEF WorkInv, StatsHeld
<1>4. \A t \in Threads : Read(t) \subseteq batch[t] /\ Read(t) \subseteq FileIdx
  BY <1>1 DEF Read
<1>5. counted \subseteq FileIdx
  BY <1>1, <1>3
<1>6. \A t \in Threads : pc[t] # "gone" => counted \cap batch[t] = {}
  BY <1>2, <1>3
<1> QED BY <1>2, <1>4, <1>5, <1>6

(* A file that is being processed, and what becomes of what was read.      *)
LEMMA ProcessReads ==
  ASSUME WorkInv, NEW t \in Threads, ProcessFile(t)
  PROVE  LET f == file_index[t] IN
         /\ main_pc \in {"create", "join"} /\ pc[t] = "process" /\ f \in batch[t] /\ f \in FileIdx
         /\ f \notin Read(t) /\ Read(t)' = Read(t) \cup {f}
         /\ pc'[t] = "lock" /\ \A s \in Threads \ {t} : pc'[s] = pc[s] /\ Read(s)' = Read(s)
         /\ \A s \in Threads : f \notin Read(s)
         /\ UNCHANGED <<main_pc, created, total_files, report, next_file_index, file_mutex,
                        stats_mutex, global, file_index, seen, batch, counted>>
<1>1. /\ main_pc \in {"create", "join"} /\ pc[t] = "process" /\ pc' = [pc EXCEPT ![t] = "lock"]
      /\ UNCHANGED <<main_pc, created, total_files, report, next_file_index, file_mutex,
                     stats_mutex, global, file_index, seen, batch, counted>>
  BY DEF ProcessFile, Running, ghosts
<1>2. pc'[t] = "lock" /\ \A s \in Threads \ {t} : pc'[s] = pc[s]
  BY <1>1 DEF WorkInv, TakenInv, IndexTypes
<1>3. file_index[t] \in batch[t] /\ batch[t] \in SUBSET FileIdx
  BY <1>1 DEF WorkInv, Progress, WorkTypes
<1>4. \A s \in Threads \ {t} : Read(s)' = Read(s)
  BY <1>1, <1>2 DEF Read
<1>5. Read(t) = batch[t] \ {file_index[t]} /\ Read(t)' = batch[t]
  BY <1>1, <1>2 DEF Read
<1>6. Read(t)' = Read(t) \cup {file_index[t]} /\ file_index[t] \notin Read(t)
  BY <1>3, <1>5
<1>7. \A s \in Threads : file_index[t] \notin Read(s)
  BY <1>3, <1>6, ReadOnce
<1> QED BY <1>1, <1>2, <1>3, <1>4, <1>6, <1>7

LEMMA ProcessFileKeeps ==
  ASSUME WorkInv, NEW t \in Threads, ProcessFile(t)
  PROVE  Rest'
<1> DEFINE f == file_index[t]
<1>1. /\ main_pc \in {"create", "join"} /\ pc[t] = "process" /\ f \in batch[t] /\ f \in FileIdx
      /\ f \notin Read(t) /\ Read(t)' = Read(t) \cup {f}
      /\ pc'[t] = "lock" /\ \A s \in Threads \ {t} : pc'[s] = pc[s] /\ Read(s)' = Read(s)
      /\ UNCHANGED <<main_pc, created, total_files, report, next_file_index, file_mutex,
                     stats_mutex, global, file_index, seen, batch, counted>>
  BY ProcessReads
<1>2. /\ \A w : /\ <<"thread", w>> \in faults' <=> <<"thread", w>> \in faults
                /\ <<"opendir", w>> \in faults' <=> <<"opendir", w>> \in faults
                /\ <<"open", w>> \in faults' => <<"open", w>> \in faults \/ w = f
      /\ \/ UNCHANGED local
         \/ \E at, lost : local' = [local EXCEPT ![t] = process_file(@, Logs[f], at, lost)]
  <2>1. CASE /\ local' = [local EXCEPT ![t] = process_file(@, Logs[f], 0, "nothing")]
             /\ UNCHANGED faults
    BY <2>1
  <2>2. CASE Fault("open", f) /\ UNCHANGED local
    BY <2>2, FaultAdds
  <2>3. ASSUME NEW at \in DOMAIN Logs[f], NEW lost \in LineFaults,
               Fault(lost, f), local' = [local EXCEPT ![t] = process_file(@, Logs[f], at, lost)]
        PROVE  /\ \A w : /\ <<"thread", w>> \in faults' <=> <<"thread", w>> \in faults
                         /\ <<"opendir", w>> \in faults' <=> <<"opendir", w>> \in faults
                         /\ <<"open", w>> \in faults' => <<"open", w>> \in faults \/ w = f
               /\ \E a, l : local' = [local EXCEPT ![t] = process_file(@, Logs[f], a, l)]
    <3>1. lost \notin {"thread", "opendir", "open"}
      BY DEF LineFaults
    <3>2. /\ \A w : /\ <<"thread", w>> \in faults' <=> <<"thread", w>> \in faults
                    /\ <<"opendir", w>> \in faults' <=> <<"opendir", w>> \in faults
                    /\ <<"open", w>> \in faults' <=> <<"open", w>> \in faults
      BY <2>3, <3>1, FaultAdds
    <3> QED BY <2>3, <3>2
  <2> QED BY <2>1, <2>2, <2>3 DEF ProcessFile
<1>3. DOMAIN local = Threads
  BY DEF WorkInv, WorkTypes
<1>4. ~(t > created) /\ <<"thread", t>> \notin faults
  BY <1>1 DEF WorkInv, Progress
<1> HIDE DEF f
<1>5. WorkTypes'
  BY <1>1, <1>2, <1>3 DEF WorkInv, WorkTypes
<1>6. Listed' /\ PrintedLast'
  BY <1>1, <1>2 DEF WorkInv, Listed, PrintedLast
<1>7. Progress'
  <2> SUFFICES ASSUME NEW s \in Threads
               PROVE  /\ s > created' => pc'[s] = "unborn"
                      /\ pc'[s] \in {"unborn", "start"} => batch'[s] = {}
                      /\ pc'[s] = "process" => file_index'[s] \in batch'[s]
                      /\ <<"thread", s>> \in faults' => pc'[s] = "gone" /\ batch'[s] = {}
                      /\ \/ pc'[s] \in {"merge", "store"}
                         \/ pc'[s] = "gone" /\ <<"thread", s>> \notin faults'
                         => next_file_index' > total_files'
    BY DEF Progress
  <2>1. CASE s = t
    BY <1>1, <1>2, <1>4, <2>1
  <2>2. CASE s # t
    BY <1>1, <1>2, <2>2 DEF WorkInv, Progress
  <2> QED BY <2>1, <2>2
<1>8. StatsHeld'
  <2>1. /\ \A s \in Threads : pc'[s] = "store" => pc[s] = "store"
        /\ {s \in Threads : pc'[s] = "gone"} = {s \in Threads : pc[s] = "gone"}
    BY <1>1
  <2> QED BY <1>1, <2>1 DEF WorkInv, StatsHeld
<1>9. OpenFailed'
  BY <1>1, <1>2 DEF WorkInv, OpenFailed
<1>10. ASSUME NEW s \in Threads
       PROVE  \E lines \in SUBSET Tally!LinesOf(Read(s)') : local'[s].bytes = Tally!Sum[lines]
  <2>1. PICK lines \in SUBSET Tally!LinesOf(Read(s)) : local[s].bytes = Tally!Sum[lines]
    BY DEF WorkInv, PartsCounted
  <2>2. CASE local'[s] = local[s]
    <3>1. lines \in SUBSET Tally!LinesOf(Read(s)')
      BY <1>1, <2>1 DEF Tally!LinesOf
    <3> QED BY <2>1, <2>2, <3>1
  <2>3. ASSUME s = t, NEW at, NEW lost, local'[s] = process_file(local[s], Logs[f], at, lost)
        PROVE  \E more \in SUBSET Tally!LinesOf(Read(s)') : local'[s].bytes = Tally!Sum[more]
    <3>1. lines \in SUBSET AllLines /\ Lines[f] \in SUBSET AllLines /\ lines \cap Lines[f] = {}
      <4>1. Read(t) \in SUBSET FileIdx
        BY ReadOnce
      <4>2. ASSUME NEW l \in Tally!LinesOf(Read(t)) PROVE l \in AllLines /\ l[1] \in Read(t)
        <5>1. PICK g \in Read(t) : l \in Lines[g]
          BY DEF Tally!LinesOf
        <5>2. g \in FileIdx
          BY <4>1
        <5>3. l \in AllLines /\ l = <<g, l[2]>>
          BY <5>1, <5>2, FileLines
        <5> QED BY <5>1, <5>3
      <4>3. \A l \in Lines[f] : l[1] = f
        BY <1>1 DEF Lines
      <4> QED BY <1>1, <2>1, <2>3, <4>2, <4>3, FileLines
    <3>2. local[s].bytes \in Int
      BY <2>1, <3>1, SumEquation
    <3>3. PICK added \in SUBSET Lines[f] :
            process_file(local[s], Logs[f], at, lost).bytes = local[s].bytes + Tally!Sum[added]
      <4>1. AddsLines(f, local[s], at, lost)
        BY <1>1, <3>2, FileAddsLines
      <4> QED BY <4>1 DEF AddsLines
    <3>4. Tally!Sum[lines \cup added] = Tally!Sum[lines] + Tally!Sum[added]
      <4>1. added \in SUBSET AllLines /\ lines \cap added = {}
        BY <3>1, <3>3
      <4> QED BY <3>1, <4>1, SumOfUnion
    <3>5. lines \cup added \in SUBSET Tally!LinesOf(Read(s)')
      BY <1>1, <2>1, <2>3, <3>3 DEF Tally!LinesOf
    <3> QED BY <2>1, <2>3, <3>3, <3>4, <3>5
  <2>4. CASE s # t
    BY <1>2, <1>3, <2>2, <2>4
  <2>5. CASE s = t
    BY <1>2, <1>3, <2>2, <2>3, <2>5
  <2> QED BY <2>4, <2>5
<1>11. PartsCounted'
  BY <1>10 DEF PartsCounted
<1> QED BY <1>5, <1>6, <1>7, <1>8, <1>9, <1>11 DEF Rest

LEMMA LoadStatsKeeps ==
  ASSUME WorkInv, NEW t \in Threads, LoadStats(t)
  PROVE  Rest'
<1>1. /\ pc[t] = "merge" /\ stats_mutex = NoOne /\ stats_mutex' = t
      /\ seen' = [seen EXCEPT ![t] = global] /\ pc' = [pc EXCEPT ![t] = "store"]
      /\ UNCHANGED <<main_pc, created, total_files, report, next_file_index, file_mutex,
                     global, file_index, local, batch, counted, faults>>
  BY DEF LoadStats, LockStats, ghosts
<1>2. /\ pc'[t] = "store" /\ seen'[t] = global /\ DOMAIN seen' = Threads
      /\ \A s \in Threads \ {t} : pc'[s] = pc[s]
  BY <1>1 DEF WorkInv, WorkTypes, TakenInv, IndexTypes
<1>3. \A s \in Threads : pc[s] # "store"
  BY <1>1, LogAssumption DEF WorkInv, StatsHeld
<1>4. \A s \in Threads : Read(s)' = Read(s)
  BY <1>1, <1>2 DEF Read
<1>5. WorkTypes' /\ PrintedLast'
  BY <1>1, <1>2 DEF WorkInv, WorkTypes, PrintedLast
<1>6. Listed' /\ Progress'
  BY <1>1, <1>2 DEF WorkInv, Listed, Progress
<1>7. StatsHeld'
  <2>1. \A s \in Threads : pc'[s] = "store" => s = t
    BY <1>2, <1>3
  <2>2. {s \in Threads : pc'[s] = "gone"} = {s \in Threads : pc[s] = "gone"}
    BY <1>1, <1>2
  <2>3. counted' = UNION {batch'[s] : s \in {r \in Threads : pc'[r] = "gone"}}
    BY <1>1, <2>2 DEF WorkInv, StatsHeld
  <2> QED BY <1>1, <1>2, <2>1, <2>3 DEF StatsHeld
<1>8. OpenFailed' /\ PartsCounted'
  BY <1>1, <1>4 DEF WorkInv, OpenFailed, PartsCounted
<1> QED BY <1>5, <1>6, <1>7, <1>8 DEF Rest

LEMMA StoreStatsKeeps ==
  ASSUME WorkInv, NEW t \in Threads, StoreStats(t)
  PROVE  Rest'
<1>1. /\ main_pc \in {"create", "join"} /\ pc[t] = "store" /\ pc' = [pc EXCEPT ![t] = "gone"]
      /\ counted' = counted \cup batch[t]
      /\ UNCHANGED <<main_pc, created, total_files, report, next_file_index, file_mutex,
                     file_index, local, seen, batch>>
  BY DEF StoreStats, Running
<1>2. pc'[t] = "gone" /\ \A s \in Threads \ {t} : pc'[s] = pc[s]
  BY <1>1 DEF WorkInv, TakenInv, IndexTypes
<1>3. \A w : /\ <<"thread", w>> \in faults' <=> <<"thread", w>> \in faults
             /\ <<"opendir", w>> \in faults' <=> <<"opendir", w>> \in faults
             /\ <<"open", w>> \in faults' <=> <<"open", w>> \in faults
  <2>1. CASE UNCHANGED faults
    BY <2>1
  <2>2. CASE \E u : Fault("merge", u) \/ Fault("merge_name", u)
    BY <2>2, FaultAdds
  <2> QED BY <2>1, <2>2 DEF StoreStats
<1>4. \A s \in Threads : Read(s)' = Read(s)
  BY <1>1, <1>2 DEF Read
<1>5. \A s \in Threads : pc[s] = "store" => s = t
  BY <1>1 DEF WorkInv, StatsHeld
<1>6. ~(t > created) /\ next_file_index > total_files
  BY <1>1 DEF WorkInv, Progress
<1>7. WorkTypes' /\ Listed' /\ PrintedLast'
  BY <1>1, <1>3 DEF WorkInv, WorkTypes, Listed, PrintedLast
<1>8. Progress'
  <2> SUFFICES ASSUME NEW s \in Threads
               PROVE  /\ s > created' => pc'[s] = "unborn"
                      /\ pc'[s] \in {"unborn", "start"} => batch'[s] = {}
                      /\ pc'[s] = "process" => file_index'[s] \in batch'[s]
                      /\ <<"thread", s>> \in faults' => pc'[s] = "gone" /\ batch'[s] = {}
                      /\ \/ pc'[s] \in {"merge", "store"}
                         \/ pc'[s] = "gone" /\ <<"thread", s>> \notin faults'
                         => next_file_index' > total_files'
    BY DEF Progress
  <2>1. CASE s = t
    BY <1>1, <1>2, <1>3, <1>6, <2>1 DEF WorkInv, Progress
  <2>2. CASE s # t
    BY <1>1, <1>2, <1>3, <2>2 DEF WorkInv, Progress
  <2> QED BY <2>1, <2>2
<1>9. StatsHeld'
  <2>1. \A s \in Threads : pc'[s] # "store"
    BY <1>2, <1>5
  <2>2. {s \in Threads : pc'[s] = "gone"} = {s \in Threads : pc[s] = "gone"} \cup {t}
    BY <1>2
  <2>3. counted' = UNION {batch'[s] : s \in {r \in Threads : pc'[r] = "gone"}}
    BY <1>1, <2>2 DEF WorkInv, StatsHeld
  <2> QED BY <2>1, <2>3 DEF StatsHeld
<1>10. OpenFailed' /\ PartsCounted'
  BY <1>1, <1>3, <1>4 DEF WorkInv, OpenFailed, PartsCounted
<1> QED BY <1>7, <1>8, <1>9, <1>10 DEF Rest

(* The comparison that ends the process: only main_pc and faults change.    *)
LEMMA CompareFaults ==
  ASSUME NEW t \in Threads, CompareNull(t)
  PROVE  UNCHANGED faults \/ \E w : \E kind \in LineFaults \cup {"merge_name"} : Fault(kind, w)
<1>1. CASE MergeFails(t)
  BY <1>1 DEF MergeFails
<1>2. CASE ~MergeFails(t)
  BY <1>2 DEF CompareNull
<1> QED BY <1>1, <1>2

LEMMA CompareNullKeeps ==
  ASSUME WorkInv, NEW t \in Threads, CompareNull(t)
  PROVE  Rest'
<1>1. /\ main_pc \in {"create", "join"} /\ main_pc' = "crashed"
      /\ UNCHANGED <<created, total_files, report, next_file_index, file_mutex, stats_mutex,
                     global, pc, file_index, local, seen, batch, counted>>
  BY DEF CompareNull, Running, shared, own, ghosts
<1>2. \A w : /\ <<"thread", w>> \in faults' <=> <<"thread", w>> \in faults
             /\ <<"open", w>> \in faults' <=> <<"open", w>> \in faults
  BY CompareFaults, FaultAdds DEF LineFaults
<1>3. \A s \in Threads : Read(s)' = Read(s)
  BY <1>1 DEF Read
<1>4. WorkTypes' /\ Listed' /\ PrintedLast'
  BY <1>1 DEF WorkInv, WorkTypes, Listed, PrintedLast
<1>5. Progress' /\ StatsHeld'
  BY <1>1, <1>2 DEF WorkInv, Progress, StatsHeld
<1>6. OpenFailed' /\ PartsCounted'
  BY <1>1, <1>2, <1>3 DEF WorkInv, OpenFailed, PartsCounted
<1> QED BY <1>4, <1>5, <1>6 DEF Rest

LEMMA ReportKeeps ==
  ASSUME WorkInv, Report
  PROVE  Rest'
<1>1. /\ main_pc = "join" /\ main_pc' \in {"done", "crashed"}
      /\ report' # report => main_pc' = "done"
      /\ UNCHANGED <<created, total_files, next_file_index, file_mutex, stats_mutex, global,
                     pc, file_index, local, seen, batch, counted>>
  BY DEF Report, shared, own, ghosts
<1>2. \A w : /\ <<"thread", w>> \in faults' <=> <<"thread", w>> \in faults
             /\ <<"open", w>> \in faults' <=> <<"open", w>> \in faults
  <2>1. CASE UNCHANGED faults
    BY <2>1
  <2>2. CASE Fault("array", 0)
    BY <2>2, FaultAdds
  <2> QED BY <2>1, <2>2 DEF Report
<1>3. \A s \in Threads : Read(s)' = Read(s)
  BY <1>1 DEF Read
<1>4. WorkTypes' /\ Listed' /\ PrintedLast'
  BY <1>1 DEF WorkInv, WorkTypes, Listed, PrintedLast
<1>5. Progress' /\ StatsHeld'
  BY <1>1, <1>2 DEF WorkInv, Progress, StatsHeld
<1>6. OpenFailed' /\ PartsCounted'
  BY <1>1, <1>2, <1>3 DEF WorkInv, OpenFailed, PartsCounted
<1> QED BY <1>4, <1>5, <1>6 DEF Rest

LEMMA WorkStep ==
  ASSUME WorkInv, [Next]_vars
  PROVE  WorkInv'
<1>1. TakenInv'
  BY TakenStep DEF WorkInv
<1>2. Rest'
  <2>1. CASE UNCHANGED vars
    <3>1. UNCHANGED <<main_pc, created, total_files, report, next_file_index, file_mutex,
                      stats_mutex, global, pc, file_index, local, seen, batch, counted, faults>>
      BY <2>1 DEF vars, shared, own, ghosts
    <3>2. \A s \in Threads : Read(s)' = Read(s)
      BY <3>1 DEF Read
    <3>3. WorkTypes' /\ Listed' /\ PrintedLast'
      BY <3>1 DEF WorkInv, WorkTypes, Listed, PrintedLast
    <3>4. Progress' /\ StatsHeld'
      BY <3>1 DEF WorkInv, Progress, StatsHeld
    <3>5. OpenFailed' /\ PartsCounted'
      BY <3>1, <3>2 DEF WorkInv, OpenFailed, PartsCounted
    <3> QED BY <3>3, <3>4, <3>5 DEF Rest
  <2>2. ASSUME NEW t \in Threads, ThreadStep(t) PROVE Rest'
    BY <2>2, StartKeeps, LoadIndexKeeps, TakeFileKeeps, ProcessFileKeeps, LoadStatsKeeps,
       StoreStatsKeeps, CompareNullKeeps DEF ThreadStep
  <2> QED BY <2>1, <2>2, FindFilesKeeps, CreateKeeps, ReportKeeps DEF Next
<1> QED BY <1>1, <1>2 DEF WorkInv, Rest

LEMMA WorkStarts == Init => WorkInv
<1> SUFFICES ASSUME Init PROVE WorkInv
  OBVIOUS
<1>1. TakenInv
  BY TakenStarts
<1>2. WorkTypes /\ Listed /\ Progress /\ PrintedLast
  BY DEF Init, WorkTypes, Listed, Progress, PrintedLast
<1>3. StatsHeld
  <2>1. \A t \in Threads : pc[t] = "unborn"
    BY DEF Init
  <2> QED BY <2>1 DEF Init, StatsHeld
<1>4. OpenFailed
  BY DEF Init, OpenFailed
<1>5. PartsCounted
  <2>1. \A t \in Threads : local[t].bytes = 0
    BY DEF Init, Empty
  <2> QED BY <2>1, SumOfNone DEF PartsCounted
<1> QED BY <1>1, <1>2, <1>3, <1>4, <1>5 DEF WorkInv

LEMMA WorkHolds == LogSpec => []WorkInv
BY WorkStarts, WorkStep, PTL DEF LogSpec

-----------------------------------------------------------------------------
(* The refinement: only StoreStats and Report change what Tally sees.      *)
LEMMA TallyStutters ==
  ASSUME [Next]_vars, ~Report, \A t \in Threads : ~StoreStats(t)
  PROVE  UNCHANGED <<global, report, counted>>
<1>1. CASE find_files \/ CreateThread \/ UNCHANGED vars
  BY <1>1 DEF find_files, CreateThread, vars, shared, own, ghosts
<1>2. ASSUME NEW t \in Threads, ThreadStep(t) PROVE UNCHANGED <<global, report, counted>>
  <2>1. CASE ThreadStart(t)
    BY <2>1 DEF ThreadStart, shared, ghosts
  <2>2. CASE LoadIndex(t)
    BY <2>2 DEF LoadIndex, ghosts
  <2>3. CASE TakeFile(t)
    BY <2>3 DEF TakeFile
  <2>4. CASE ProcessFile(t)
    BY <2>4 DEF ProcessFile, ghosts
  <2>5. CASE LoadStats(t)
    BY <2>5 DEF LoadStats, ghosts
  <2>6. CASE CompareNull(t)
    BY <2>6 DEF CompareNull, shared, ghosts
  <2> QED BY <1>2, <2>1, <2>2, <2>3, <2>4, <2>5, <2>6 DEF ThreadStep
<1> QED BY <1>1, <1>2 DEF Next

(* What a thread merges are lines of its own files, and the tables it adds *)
(* them to are the ones it stores them over.                               *)
LEMMA StoreIsAddBatch ==
  ASSUME WorkInv, NEW t \in Threads, StoreStats(t)
  PROVE  Tally!AddBatch
<1>1. /\ Running /\ pc[t] = "store" /\ counted' = counted \cup batch[t] /\ report' = report
      /\ global'.bytes = seen[t].bytes + local[t].bytes
  <2>1. \E urls, referers : global' = [bytes |-> seen[t].bytes + local[t].bytes,
                                      urls |-> urls, referers |-> referers]
    BY DEF StoreStats
  <2> QED BY <2>1 DEF StoreStats
<1>2. report = NoReport
  BY <1>1 DEF WorkInv, PrintedLast, Running
<1>3. seen[t] = global
  BY <1>1 DEF WorkInv, StatsHeld
<1>4. PICK lines \in SUBSET Tally!LinesOf(batch[t]) : local[t].bytes = Tally!Sum[lines]
  <2>1. Read(t) = batch[t]
    BY <1>1 DEF Read
  <2> QED BY <2>1 DEF WorkInv, PartsCounted
<1>5. batch[t] \in SUBSET (Tally!AllFiles \ counted)
  <2>1. batch[t] \in SUBSET FileIdx /\ DOMAIN Lines = FileIdx
    BY DEF WorkInv, WorkTypes, Lines
  <2>2. \A s \in Threads : pc[s] = "gone" => batch[s] \cap batch[t] = {}
    BY <1>1 DEF WorkInv, TakenInv, TakenOnce
  <2>3. counted \cap batch[t] = {}
    BY <2>2 DEF WorkInv, StatsHeld
  <2> QED BY <2>1, <2>3 DEF Tally!AllFiles
<1>6. global.bytes' = global.bytes + Tally!Sum[lines]
  BY <1>1, <1>3, <1>4
<1> QED BY <1>1, <1>2, <1>4, <1>5, <1>6 DEF Tally!AddBatch

(* When main has joined the threads, they have merged every file between   *)
(* them, or none of them has merged any.                                   *)
LEMMA AllOrNothing ==
  ASSUME WorkInv, main_pc = "join", Joined
  PROVE  IF \A t \in Threads : <<"thread", t>> \in faults
         THEN counted = {} ELSE counted = FileIdx
<1>1. counted = UNION {batch[t] : t \in Threads}
  BY DEF WorkInv, StatsHeld, Joined
<1>2. counted = 1 .. next_file_index - 1
  BY <1>1 DEF WorkInv, TakenInv, TakenOnce
<1>3. counted \in SUBSET FileIdx /\ next_file_index \in Nat \ {0}
  BY <1>1 DEF WorkInv, WorkTypes, TakenInv, IndexTypes
<1>4. CASE \A t \in Threads : <<"thread", t>> \in faults
  BY <1>1, <1>4 DEF WorkInv, Progress
<1>5. ASSUME NEW t \in Threads, <<"thread", t>> \notin faults PROVE counted = FileIdx
  <2>1. next_file_index > total_files
    BY <1>5 DEF WorkInv, Progress, Joined
  <2>2. next_file_index > NumFiles
    BY <2>1 DEF WorkInv, Listed
  <2> QED BY <1>2, <1>3, <2>2, LogAssumption DEF FileIdx
<1> QED BY <1>4, <1>5

LEMMA ReportIsPrint ==
  ASSUME WorkInv, Report
  PROVE  \/ Tally!PrintTotal
         \/ /\ UNCHANGED <<counted, global>>
            /\ report = NoReport /\ report' = NoReport
<1>1. main_pc = "join" /\ Joined /\ UNCHANGED <<counted, global>>
  BY DEF Report, shared, ghosts
<1>2. report = NoReport
  BY <1>1 DEF WorkInv, PrintedLast
<1>3. counted \in {{}, Tally!AllFiles}
  <2>1. Tally!AllFiles = FileIdx
    BY DEF Tally!AllFiles, Lines
  <2> QED BY <1>1, <2>1, AllOrNothing
<1>4. CASE report'.total_bytes = global.bytes /\ report' # NoReport
  BY <1>1, <1>2, <1>3, <1>4 DEF Tally!PrintTotal
<1>5. report'.total_bytes = global.bytes \/ report' = NoReport
  BY <1>2 DEF Report
<1> QED BY <1>1, <1>2, <1>4, <1>5

(* thread_func and main: whatever the threads do, the totals grow as if    *)
(* the files were added one batch after the other, no line of them twice,  *)
(* and what main prints is the total of all files or of none.              *)
THEOREM ImplementsTallyHolds == LogSpec => ImplementsTally
<1>1. Init => Tally!Init
  BY DEF Init, Tally!Init, Empty
<1>2. WorkInv /\ [Next]_vars => [Tally!AddBatch \/ Tally!PrintTotal]_Tally!vars
  <2> SUFFICES ASSUME WorkInv, [Next]_vars
               PROVE  Tally!AddBatch \/ Tally!PrintTotal \/ UNCHANGED Tally!vars
    OBVIOUS
  <2>1. CASE UNCHANGED <<global, report, counted>>
    BY <2>1 DEF Tally!vars
  <2>2. CASE Report
    BY <2>2, ReportIsPrint DEF Tally!vars
  <2> QED BY <2>1, <2>2, TallyStutters, StoreIsAddBatch
<1> QED BY <1>1, <1>2, WorkHolds, PTL DEF LogSpec, ImplementsTally, Tally!Spec

-----------------------------------------------------------------------------
(* The tables hold what was read: sets of lines that do not change, grow   *)
(* by a file, or are put together.                                         *)
LEMMA LinesInFacts ==
  ASSUME NEW files, NEW failures
  PROVE  /\ LinesIn(files, failures) \in SUBSET AllLines
         /\ \A l \in LinesIn(files, failures) : l[1] \in files
BY DEF LinesIn

LEMMA SameLines ==
  ASSUME NEW files, NEW a, NEW b,
         \A f \in files : <<"open", f>> \in a <=> <<"open", f>> \in b
  PROVE  LinesIn(files, a) = LinesIn(files, b)
BY DEF LinesIn

LEMMA FaultHappens ==
  ASSUME NEW kinds, NEW kind \in kinds, NEW where, Fault(kind, where)
  PROVE  Happened(kinds)'
<1>1. <<kind, where>> \in faults' /\ <<kind, where>>[1] = kind
  BY DEF Fault
<1> QED BY <1>1 DEF Happened

(* A file that could be opened is read as a whole.                         *)
LEMMA FileIsRead ==
  ASSUME NEW f \in FileIdx, NEW files, NEW failures, f \notin files,
         <<"open", f>> \notin failures
  PROVE  process_file(Totals(LinesIn(files, failures)), Logs[f], 0, "nothing")
           = Totals(LinesIn(files \cup {f}, failures))
<1> DEFINE lines == LinesIn(files, failures)
<1>1. lines \in SUBSET AllLines /\ \A l \in lines : l[1] \in files
  BY LinesInFacts
<1>2. \A l \in Lines[f] : l[1] = f
  BY FileLines
<1>3. lines \cap Lines[f] = {}
  BY <1>1, <1>2
<1>4. lines \cup Good(Lines[f]) = LinesIn(files \cup {f}, failures)
  <2>1. \A l \in AllLines : l[1] = f => l \in Lines[f]
    <3> SUFFICES ASSUME NEW g \in FileIdx, NEW l \in Lines[g], l[1] = f PROVE l \in Lines[f]
      BY DEF AllLines
    <3>1. l[1] = g
      BY FileLines
    <3> QED BY <3>1
  <2>2. Lines[f] \in SUBSET AllLines
    BY FileLines
  <2> QED BY <1>2, <2>1, <2>2 DEF LinesIn, Good
<1> HIDE DEF lines
<1>5. process_file(Totals(lines), Logs[f], 0, "nothing") = Totals(lines \cup Good(Lines[f]))
  BY <1>1, <1>3, FileIsCounted
<1> QED BY <1>4, <1>5 DEF lines

(* The merge of a thread's tables into the global ones.                    *)
LEMMA MergeIsUnion ==
  ASSUME NEW a, NEW b, NEW failures, a \cap b = {}
  PROVE  LET x == Totals(LinesIn(a, failures))
             y == Totals(LinesIn(b, failures))
         IN  [bytes |-> x.bytes + y.bytes, urls |-> merge_tables(y.urls, x.urls, {}),
              referers |-> merge_tables(y.referers, x.referers, {})]
               = Totals(LinesIn(a \cup b, failures))
<1> DEFINE p == LinesIn(a, failures)
           q == LinesIn(b, failures)
<1>1. p \in SUBSET AllLines /\ q \in SUBSET AllLines /\ p \cap q = {}
  BY DEF LinesIn
<1>2. LinesIn(a \cup b, failures) = q \cup p
  BY DEF LinesIn
<1> HIDE DEF p, q
<1>3. /\ merge_tables(UrlBytes(q), UrlBytes(p), {}) = UrlBytes(q \cup p)
      /\ merge_tables(RefererCounts(q), RefererCounts(p), {}) = RefererCounts(q \cup p)
  <2>1. q \cap p = {}
    BY <1>1
  <2> QED BY <1>1, <2>1, MergeAddsUp
<1>4. Tally!Sum[p] + Tally!Sum[q] = Tally!Sum[q \cup p]
  <2>1. p \cup q = q \cup p
    OBVIOUS
  <2>2. Tally!Sum[p \cup q] = Tally!Sum[p] + Tally!Sum[q]
    BY <1>1, SumOfUnion
  <2> QED BY <2>1, <2>2
<1>5. [bytes |-> Totals(p).bytes + Totals(q).bytes,
       urls |-> merge_tables(Totals(q).urls, Totals(p).urls, {}),
       referers |-> merge_tables(Totals(q).referers, Totals(p).referers, {})]
         = Totals(q \cup p)
  BY <1>3, <1>4 DEF Totals
<1> QED BY <1>2, <1>5 DEF p, q

(* Of all steps only ProcessFile and StoreStats change what was read or    *)
(* what the tables hold, and only ProcessFile fails to open a file.        *)
LEMMA QuietSteps ==
  ASSUME WorkInv, [Next]_vars, \A t \in Threads : ~ProcessFile(t) /\ ~StoreStats(t)
  PROVE  /\ UNCHANGED <<global, nameless, local, counted>> /\ \A s \in Threads : Read(s)' = Read(s)
         /\ faults \subseteq faults'
         /\ \A w : <<"open", w>> \in faults' <=> <<"open", w>> \in faults
<1> DEFINE Quiet ==
      /\ UNCHANGED <<global, nameless, local, counted>> /\ \A s \in Threads : Read(s)' = Read(s)
      /\ faults \subseteq faults'
      /\ \A w : <<"open", w>> \in faults' <=> <<"open", w>> \in faults
<1>p. pc \in [Threads -> Places] /\ batch \in [Threads -> SUBSET Nat]
  BY DEF WorkInv, TakenInv, IndexTypes
<1>f. ASSUME UNCHANGED faults \/ \E w : \E kind \in Faults \ {"open"} : Fault(kind, w)
      PROVE  /\ faults \subseteq faults'
             /\ \A w : <<"open", w>> \in faults' <=> <<"open", w>> \in faults
  BY <1>f, FaultAdds
<1>1. CASE find_files
  <2>1. UNCHANGED <<global, nameless, local, counted, pc, file_index, batch>>
    BY <1>1 DEF find_files, shared, own, ghosts
  <2>2. UNCHANGED faults \/ \E w : \E kind \in Faults \ {"open"} : Fault(kind, w)
    BY <1>1 DEF find_files, Faults
  <2> QED BY <2>1, <2>2, <1>f DEF Read
<1>2. CASE CreateThread
  <2>1. UNCHANGED <<global, nameless, local, counted, file_index, batch>>
    BY <1>2 DEF CreateThread, shared, ghosts
  <2>2. UNCHANGED faults \/ \E w : \E kind \in Faults \ {"open"} : Fault(kind, w)
    BY <1>2 DEF CreateThread, Faults
  <2>3. ASSUME NEW s \in Threads PROVE pc'[s] = "process" <=> pc[s] = "process"
    <3>1. CASE UNCHANGED pc
      BY <3>1
    <3>2. CASE created + 1 \in Threads /\ pc' = [pc EXCEPT ![created + 1] = "start"]
      <4>1. created + 1 > created
        BY DEF WorkInv, WorkTypes
      <4>2. pc[created + 1] = "unborn"
        BY <3>2, <4>1 DEF WorkInv, Progress
      <4> QED BY <1>p, <3>2, <4>2
    <3> QED BY <1>2, <3>1, <3>2 DEF CreateThread
  <2>4. \A s \in Threads : Read(s)' = Read(s)
    BY <2>1, <2>3 DEF Read
  <2> QED BY <2>1, <2>2, <2>4, <1>f
<1>3. CASE Report
  <2>1. UNCHANGED <<global, nameless, local, counted, pc, file_index, batch>>
    BY <1>3 DEF Report, shared, own, ghosts
  <2>2. UNCHANGED faults \/ \E w : \E kind \in Faults \ {"open"} : Fault(kind, w)
    BY <1>3 DEF Report, Faults
  <2> QED BY <2>1, <2>2, <1>f DEF Read
<1>4. ASSUME NEW t \in Threads, ThreadStep(t) PROVE Quiet
  <2>1. CASE ThreadStart(t)
    <3>1. UNCHANGED <<global, nameless, local, counted, file_index, batch>> /\ pc[t] = "start"
      BY <2>1 DEF ThreadStart, shared, ghosts
    <3>2. UNCHANGED faults \/ \E w : \E kind \in Faults \ {"open"} : Fault(kind, w)
      BY <2>1 DEF ThreadStart, Faults
    <3>3. \A s \in Threads : pc'[s] = "process" <=> pc[s] = "process"
      BY <1>p, <2>1, <3>1 DEF ThreadStart
    <3>4. \A s \in Threads : Read(s)' = Read(s)
      BY <3>1, <3>3 DEF Read
    <3> QED BY <3>1, <3>2, <3>4, <1>f
  <2>2. CASE LoadIndex(t)
    <3>1. /\ UNCHANGED <<global, nameless, local, counted, batch, faults>> /\ pc[t] = "lock"
          /\ pc' = [pc EXCEPT ![t] = "take"]
          /\ \A s \in Threads \ {t} : file_index'[s] = file_index[s]
      BY <2>2 DEF LoadIndex, ghosts, WorkInv, TakenInv, IndexTypes
    <3>3. \A s \in Threads : pc'[s] = "process" <=> pc[s] = "process"
      BY <1>p, <3>1
    <3>4. \A s \in Threads : Read(s)' = Read(s)
      BY <3>1, <3>3 DEF Read
    <3> QED BY <3>1, <3>4
  <2>3. CASE TakeFile(t)
    <3>1. /\ UNCHANGED <<global, nameless, local, counted, file_index, faults>> /\ pc[t] = "take"
          /\ file_index[t] = next_file_index
      BY <2>3 DEF TakeFile, WorkInv, TakenInv, IndexHeld
    <3>2. next_file_index \notin batch[t]
      BY DEF WorkInv, TakenInv, TakenOnce, IndexTypes
    <3>3. CASE /\ batch' = [batch EXCEPT ![t] = @ \cup {file_index[t]}]
               /\ pc' = [pc EXCEPT ![t] = "process"]
      <4>1. Read(t) = batch[t] /\ Read(t)' = (batch[t] \cup {next_file_index}) \ {next_file_index}
        BY <1>p, <3>1, <3>3 DEF Read
      <4>2. \A s \in Threads \ {t} : Read(s)' = Read(s)
        BY <1>p, <3>1, <3>3 DEF Read
      <4> QED BY <3>1, <3>2, <4>1, <4>2
    <3>4. CASE UNCHANGED batch /\ (UNCHANGED pc \/ pc' = [pc EXCEPT ![t] = "merge"])
      <4>1. \A s \in Threads : Read(s)' = Read(s)
        BY <1>p, <3>1, <3>4 DEF Read
      <4> QED BY <3>1, <4>1
    <3> QED BY <2>3, <3>3, <3>4 DEF TakeFile
  <2>4. CASE LoadStats(t)
    <3>1. /\ UNCHANGED <<global, nameless, local, counted, file_index, batch, faults>>
          /\ pc[t] = "merge" /\ pc' = [pc EXCEPT ![t] = "store"]
      BY <2>4 DEF LoadStats, ghosts
    <3>2. \A s \in Threads : Read(s)' = Read(s)
      BY <1>p, <3>1 DEF Read
    <3> QED BY <3>1, <3>2
  <2>5. CASE CompareNull(t)
    <3>1. UNCHANGED <<global, nameless, local, counted, pc, file_index, batch>>
      BY <2>5 DEF CompareNull, shared, own, ghosts
    <3>2. UNCHANGED faults \/ \E w : \E kind \in Faults \ {"open"} : Fault(kind, w)
      BY <2>5, CompareFaults DEF Faults, LineFaults
    <3> QED BY <3>1, <3>2, <1>f DEF Read
  <2> QED BY <1>4, <2>1, <2>2, <2>3, <2>4, <2>5 DEF ThreadStep
<1>5. CASE UNCHANGED vars
  BY <1>5 DEF vars, shared, own, ghosts, Read
<1> QED BY <1>1, <1>2, <1>3, <1>4, <1>5 DEF Next

LEMMA ProcessKeepsExact ==
  ASSUME WorkInv, Exact, NEW t \in Threads, ProcessFile(t), ~Happened(Losses)'
  PROVE  Exact'
<1> DEFINE f == file_index[t]
<1>1. /\ f \in FileIdx /\ f \notin Read(t) /\ Read(t)' = Read(t) \cup {f}
      /\ \A s \in Threads \ {t} : Read(s)' = Read(s)
      /\ \A s \in Threads : f \notin Read(s)
      /\ pc[t] = "process" /\ f \in batch[t] /\ UNCHANGED <<global, counted>>
  BY ProcessReads
<1>2. <<"open", f>> \notin faults
  BY <1>1 DEF WorkInv, OpenFailed
<1>3. DOMAIN local = Threads /\ f \notin counted
  BY <1>1, ReadOnce DEF WorkInv, WorkTypes
<1>4. \/ /\ local' = [local EXCEPT ![t] = process_file(@, Logs[f], 0, "nothing")]
         /\ UNCHANGED <<nameless, faults>>
      \/ Fault("open", f) /\ UNCHANGED <<local, nameless>>
  <2>1. ASSUME NEW at, NEW lost \in LineFaults, Fault(lost, f) PROVE FALSE
    BY <2>1, FaultHappens DEF Losses
  <2> QED BY <2>1 DEF ProcessFile
<1>5. \A w : w # f => (<<"open", w>> \in faults' <=> <<"open", w>> \in faults)
  BY <1>4, FaultAdds
<1>6. ~Happened(Losses)
  BY <1>4 DEF Happened, Fault
<1>7. /\ global = Totals(LinesIn(counted, faults)) /\ nameless = {}
      /\ \A s \in Threads : local[s] = Totals(LinesIn(Read(s), faults))
  BY <1>6 DEF Exact
<1> HIDE DEF f
<1>8. LinesIn(counted, faults') = LinesIn(counted, faults)
  <2>1. \A w \in counted : <<"open", w>> \in faults' <=> <<"open", w>> \in faults
    BY <1>3, <1>5
  <2> QED BY <2>1, SameLines
<1>9. \A s \in Threads : LinesIn(Read(s), faults') = LinesIn(Read(s), faults)
  <2> SUFFICES ASSUME NEW s \in Threads
               PROVE  LinesIn(Read(s), faults') = LinesIn(Read(s), faults)
    OBVIOUS
  <2>1. \A w \in Read(s) : <<"open", w>> \in faults' <=> <<"open", w>> \in faults
    BY <1>1, <1>5
  <2> QED BY <2>1, SameLines
<1>10. local'[t] = Totals(LinesIn(Read(t) \cup {f}, faults'))
  <2>1. CASE /\ local' = [local EXCEPT ![t] = process_file(@, Logs[f], 0, "nothing")]
             /\ UNCHANGED faults
    <3>1. local'[t] = process_file(Totals(LinesIn(Read(t), faults)), Logs[f], 0, "nothing")
      BY <1>3, <1>7, <2>1
    <3>2. process_file(Totals(LinesIn(Read(t), faults)), Logs[f], 0, "nothing")
            = Totals(LinesIn(Read(t) \cup {f}, faults))
      BY <1>1, <1>2, FileIsRead
    <3> QED BY <2>1, <3>1, <3>2
  <2>2. CASE Fault("open", f) /\ UNCHANGED local
    <3>1. <<"open", f>> \in faults'
      BY <2>2 DEF Fault
    <3>2. LinesIn(Read(t) \cup {f}, faults') = LinesIn(Read(t), faults')
      BY <3>1 DEF LinesIn
    <3> QED BY <1>7, <1>9, <2>2, <3>2
  <2> QED BY <1>4, <2>1, <2>2
<1>11. nameless' = nameless /\ \A s \in Threads \ {t} : local'[s] = local[s]
  BY <1>3, <1>4
<1> QED BY <1>1, <1>7, <1>8, <1>9, <1>10, <1>11 DEF Exact

LEMMA StoreKeepsExact ==
  ASSUME WorkInv, Exact, NEW t \in Threads, StoreStats(t), ~Happened(Losses)'
  PROVE  Exact'
<1>1. /\ pc[t] = "store" /\ pc' = [pc EXCEPT ![t] = "gone"] /\ counted' = counted \cup batch[t]
      /\ UNCHANGED <<file_index, local, batch>>
  BY DEF StoreStats
<1>2. /\ UNCHANGED <<nameless, faults>>
      /\ global' = [bytes    |-> seen[t].bytes + local[t].bytes,
                    urls     |-> merge_tables(local[t].urls, seen[t].urls, {}),
                    referers |-> merge_tables(local[t].referers, seen[t].referers, {})]
  <2>1. ASSUME NEW u, Fault("merge", u) \/ Fault("merge_name", u) PROVE FALSE
    BY <2>1, FaultHappens DEF Losses
  <2> QED BY <2>1 DEF StoreStats
<1>3. /\ global = Totals(LinesIn(counted, faults)) /\ nameless = {}
      /\ \A s \in Threads : local[s] = Totals(LinesIn(Read(s), faults))
  BY <1>2 DEF Exact, Happened
<1>4. seen[t] = global /\ Read(t) = batch[t] /\ counted \cap batch[t] = {}
  BY <1>1, ReadOnce DEF WorkInv, StatsHeld, Read
<1>5. global' = Totals(LinesIn(counted', faults))
  BY <1>1, <1>2, <1>3, <1>4, MergeIsUnion
<1>6. \A s \in Threads : Read(s)' = Read(s)
  BY <1>1 DEF Read, WorkInv, TakenInv, IndexTypes
<1> QED BY <1>1, <1>2, <1>3, <1>5, <1>6 DEF Exact

LEMMA ExactStep ==
  ASSUME WorkInv, Exact, [Next]_vars
  PROVE  Exact'
<1> SUFFICES ASSUME ~Happened(Losses)' PROVE Exact'
  BY DEF Exact
<1>1. CASE \A t \in Threads : ~ProcessFile(t) /\ ~StoreStats(t)
  <2>1. /\ UNCHANGED <<global, nameless, local, counted>> /\ \A s \in Threads : Read(s)' = Read(s)
        /\ faults \subseteq faults'
        /\ \A w : <<"open", w>> \in faults' <=> <<"open", w>> \in faults
    BY <1>1, QuietSteps
  <2>2. ~Happened(Losses)
    BY <2>1 DEF Happened
  <2>3. \A files : LinesIn(files, faults') = LinesIn(files, faults)
    BY <2>1, SameLines
  <2> QED BY <2>1, <2>2, <2>3 DEF Exact
<1> QED BY <1>1, ProcessKeepsExact, StoreKeepsExact

LEMMA ExactStarts == Init => Exact
<1> SUFFICES ASSUME Init PROVE Exact
  OBVIOUS
<1>1. counted = {} /\ global = Empty /\ nameless = {} /\ \A t \in Threads : Read(t) = {} /\ local[t] = Empty
  BY DEF Init, Read
<1>2. LinesIn({}, faults) = {}
  BY DEF LinesIn
<1> QED BY <1>1, <1>2, TotalsOfNone DEF Exact

-----------------------------------------------------------------------------
(* What main prints: the first entries of a sorted table are the largest.  *)
LEMMA TopIsRight ==
  ASSUME NEW table, IsFiniteSet(DOMAIN table), TopN \in Nat,
         \A k \in DOMAIN table : table[k] \in Int,
         NEW top \in TopLists(table)
  PROVE  RightTop([j \in DOMAIN top |-> <<top[j], table[top[j]]>>], table)
<1> DEFINE n == IF Cardinality(DOMAIN table) < TopN THEN Cardinality(DOMAIN table) ELSE TopN
           list == [j \in DOMAIN top |-> <<top[j], table[top[j]]>>]
           shown == {list[j][1] : j \in DOMAIN list}
<1>1. /\ top \in [1 .. n -> DOMAIN table]
      /\ \A i, j \in 1 .. n : i # j => top[i] # top[j]
      /\ \A j \in 1 .. n : \A k \in DOMAIN table \ {top[i] : i \in 1 .. j} : table[top[j]] >= table[k]
  BY DEF TopLists, Before
<1>2. n \in Nat
  BY FS_CardinalityType
<1>3. list = [j \in 1 .. n |-> <<top[j], table[top[j]]>>]
  BY <1>1
<1>4. Len(list) = n /\ DOMAIN list = 1 .. n
  BY <1>2, <1>3
<1>5. shown = {top[j] : j \in 1 .. n}
  BY <1>3
<1> HIDE DEF n
<1>6. Cardinality(shown) = n
  <2>1. top \in [1 .. n -> shown]
    BY <1>1, <1>5
  <2>2. top \in Surjection(1 .. n, shown)
    BY <1>5, <2>1 DEF Surjection
  <2> HIDE DEF shown
  <2>3. top \in Injection(1 .. n, shown)
    BY <1>1, <2>1 DEF Injection, IsInjective
  <2>4. IsFiniteSet(1 .. n) /\ Cardinality(1 .. n) = n
    BY <1>2, FS_Interval
  <2> QED BY <2>2, <2>3, <2>4, FS_Surjection
<1>7. \A j \in DOMAIN list : list[j][2] = table[list[j][1]]
  BY <1>3
<1>8. ASSUME NEW k \in DOMAIN table \ shown, NEW u \in shown PROVE table[k] <= table[u]
  <2>1. PICK j \in 1 .. n : u = top[j]
    BY <1>5
  <2>2. k \notin {top[i] : i \in 1 .. j}
    BY <1>2, <1>5
  <2>3. table[top[j]] >= table[k] /\ top[j] \in DOMAIN table
    BY <1>1, <2>2
  <2> QED BY <2>1, <2>3
<1>9. shown \subseteq DOMAIN table
  BY <1>1, <1>5
<1> HIDE DEF list
<1>10. /\ Len(list) = IF Cardinality(DOMAIN table) < TopN THEN Cardinality(DOMAIN table) ELSE TopN
       /\ Cardinality(shown) = Len(list)
  BY <1>4, <1>6 DEF n
<1> QED BY <1>7, <1>8, <1>9, <1>10 DEF RightTop, list

LEMMA NumbersFinite ==
  ASSUME NEW lines \in SUBSET AllLines
  PROVE  /\ IsFiniteSet(DOMAIN UrlBytes(lines)) /\ IsFiniteSet(DOMAIN RefererCounts(lines))
         /\ \A u \in DOMAIN UrlBytes(lines) : UrlBytes(lines)[u] \in Int
         /\ \A r \in DOMAIN RefererCounts(lines) : RefererCounts(lines)[r] \in Int
<1>1. IsFiniteSet(lines) /\ IsFiniteSet(WithReferer(lines))
  <2>1. WithReferer(lines) \in SUBSET AllLines
    BY DEF WithReferer
  <2> QED BY <2>1, LinesFinite, FS_Subset
<1>2. IsFiniteSet(DOMAIN UrlBytes(lines))
  <2> DEFINE url == [l \in lines |-> Text(l).url]
  <2>1. url \in Surjection(lines, DOMAIN UrlBytes(lines))
    BY DEF Surjection, UrlBytes
  <2> QED BY <1>1, <2>1, FS_Surjection
<1>3. IsFiniteSet(DOMAIN RefererCounts(lines))
  <2> DEFINE referer == [l \in WithReferer(lines) |-> Text(l).referer]
  <2>1. referer \in Surjection(WithReferer(lines), DOMAIN RefererCounts(lines))
    BY DEF Surjection, RefererCounts
  <2> QED BY <1>1, <2>1, FS_Surjection
<1>4. ASSUME NEW u \in DOMAIN UrlBytes(lines) PROVE UrlBytes(lines)[u] \in Int
  BY TableEntries
<1>5. ASSUME NEW r \in DOMAIN RefererCounts(lines) PROVE RefererCounts(lines)[r] \in Int
  BY TableEntries
<1> QED BY <1>2, <1>3, <1>4, <1>5

(* A table without entries is printed as no list at all.                   *)
LEMMA TopOfNone ==
  ASSUME NEW top \in TopLists(NoNodes), NEW table
  PROVE  [j \in DOMAIN top |-> <<top[j], table[top[j]]>>] = <<>>
<1>1. Cardinality(DOMAIN NoNodes) = 0
  BY FS_EmptySet DEF NoNodes
<1>2. top \in [1 .. 0 -> {}] \/ (~(0 < TopN) /\ top \in [1 .. TopN -> {}])
  BY <1>1 DEF TopLists, NoNodes
<1>3. TopN \in Nat
  BY LogAssumption
<1>4. DOMAIN top = {}
  BY <1>2, <1>3
<1> QED BY <1>4

(* After the report nothing moves.                                         *)
LEMMA DoneIsLast ==
  ASSUME main_pc = "done", [Next]_vars
  PROVE  UNCHANGED vars
BY DEF Next, find_files, CreateThread, Report, ThreadStep, ThreadStart, LoadIndex, TakeFile,
       ProcessFile, LoadStats, StoreStats, CompareNull, Running

LEMMA ReportStep ==
  ASSUME WorkInv, Exact, Report, report' # report
  PROVE  ReportRight'
<1> SUFFICES ASSUME ~Happened(Losses)' PROVE ReportRight'
  BY DEF ReportRight, Losses
<1>1. main_pc = "join" /\ Joined /\ UNCHANGED faults
  BY DEF Report
<1>n. nameless = {} /\ global = Totals(LinesIn(counted, faults))
  BY <1>1 DEF Exact, Happened
<1>k. \A table, key : Printed(table, key) = key
  BY <1>n DEF Printed
<1>2. PICK urls \in TopLists(global.urls), referers \in TopLists(global.referers) :
        report' = [total_bytes |-> global.bytes,
                   urls     |-> [j \in DOMAIN urls |-> <<urls[j], global.urls[urls[j]]>>],
                   referers |-> [j \in DOMAIN referers |->
                                   <<referers[j], global.referers[referers[j]]>>]]
  BY <1>k DEF Report
<1>3. global = Totals(LinesIn(counted, faults))
  BY <1>n
<1>4. GoodLines' = GoodLines
  BY <1>1 DEF GoodLines
<1>5. CASE \A t \in Threads : <<"thread", t>> \in faults
  <2>1. counted = {}
    BY <1>1, <1>5, AllOrNothing
  <2>2. LinesIn(counted, faults) = {}
    BY <2>1 DEF LinesIn
  <2>3. global = Empty
    BY <1>3, <2>2, TotalsOfNone
  <2>4. global.bytes = 0 /\ urls \in TopLists(NoNodes) /\ referers \in TopLists(NoNodes)
    BY <1>2, <2>3 DEF Empty
  <2>5. /\ [j \in DOMAIN urls |-> <<urls[j], global.urls[urls[j]]>>] = <<>>
        /\ [j \in DOMAIN referers |-> <<referers[j], global.referers[referers[j]]>>] = <<>>
    BY <2>4, TopOfNone
  <2>6. report'.total_bytes = 0 /\ report'.urls = <<>> /\ report'.referers = <<>>
    BY <1>2, <2>4, <2>5
  <2> QED BY <1>1, <1>5, <2>6 DEF ReportRight
<1>6. CASE ~(\A t \in Threads : <<"thread", t>> \in faults)
  <2>1. counted = FileIdx
    BY <1>1, <1>6, AllOrNothing
  <2>2. LinesIn(counted, faults) = GoodLines
    BY <2>1, FileLines DEF LinesIn, GoodLines, AllLines, Lines
  <2>3. /\ global.bytes = Tally!Sum[GoodLines] /\ global.urls = UrlBytes(GoodLines)
        /\ global.referers = RefererCounts(GoodLines)
    BY <1>3, <2>2 DEF Totals
  <2>4. GoodLines \in SUBSET AllLines /\ TopN \in Nat
    BY LogAssumption DEF GoodLines
  <2>5. RightTop(report'.urls, UrlBytes(GoodLines))
    <3> DEFINE table == UrlBytes(GoodLines)
    <3>1. IsFiniteSet(DOMAIN table) /\ \A k \in DOMAIN table : table[k] \in Int
      BY <2>4, NumbersFinite
    <3>2. urls \in TopLists(table)
            /\ report'.urls = [j \in DOMAIN urls |-> <<urls[j], table[urls[j]]>>]
      BY <1>2, <2>3
    <3> HIDE DEF table
    <3>3. RightTop([j \in DOMAIN urls |-> <<urls[j], table[urls[j]]>>], table)
      BY <2>4, <3>1, <3>2, TopIsRight
    <3> QED BY <3>2, <3>3 DEF table
  <2>6. RightTop(report'.referers, RefererCounts(GoodLines))
    <3> DEFINE table == RefererCounts(GoodLines)
    <3>1. IsFiniteSet(DOMAIN table) /\ \A k \in DOMAIN table : table[k] \in Int
      BY <2>4, NumbersFinite
    <3>2. referers \in TopLists(table)
            /\ report'.referers = [j \in DOMAIN referers |-> <<referers[j], table[referers[j]]>>]
      BY <1>2, <2>3
    <3> HIDE DEF table
    <3>3. RightTop([j \in DOMAIN referers |-> <<referers[j], table[referers[j]]>>], table)
      BY <2>4, <3>1, <3>2, TopIsRight
    <3> QED BY <3>2, <3>3 DEF table
  <2>7. report'.total_bytes = Tally!Sum[GoodLines]
    BY <1>2, <2>3
  <2> QED BY <1>1, <1>4, <1>6, <2>5, <2>6, <2>7 DEF ReportRight
<1> QED BY <1>5, <1>6

(* Report: what is printed is right, whichever threads did the work, in    *)
(* whatever order, and however many of them left early.                    *)
THEOREM ReportRightHolds == LogSpec => []ReportRight
<1>1. Init => Exact /\ ReportRight
  BY ExactStarts DEF Init, ReportRight
<1>2. WorkInv /\ Exact /\ ReportRight /\ [Next]_vars => (Exact /\ ReportRight)'
  <2> SUFFICES ASSUME WorkInv, Exact, ReportRight, [Next]_vars PROVE ReportRight'
    BY ExactStep
  <2>1. CASE report = NoReport /\ report' = report
    BY <2>1 DEF ReportRight
  <2>2. CASE report # NoReport
    <3>1. UNCHANGED <<report, faults>>
      BY <2>2, DoneIsLast DEF WorkInv, PrintedLast, vars
    <3> QED BY <3>1 DEF ReportRight, Happened, GoodLines
  <2>3. CASE report' # report
    <3>1. Report
      BY <2>3, TallyStutters, StoreIsAddBatch DEF StoreStats
    <3> QED BY <2>3, <3>1, ReportStep
  <2> QED BY <2>1, <2>2, <2>3
<1> QED BY <1>1, <1>2, WorkHolds, PTL DEF LogSpec
=============================================================================
