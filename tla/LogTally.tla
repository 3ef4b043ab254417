------------------------------ MODULE LogTally ------------------------------
(***************************************************************************)
(* What the log parser promises, without threads, mutexes or tables: files *)
(* are added to the total in batches, each file at most once, and one      *)
(* total is printed, of all files or, when nobody could work, of none.     *)
(* Lines that cannot be parsed or stored may be missing, none counts twice.*)
(***************************************************************************)
EXTENDS Integers

CONSTANTS
  Lines,    \* the lines of each file
  Bytes,    \* the bytes of each line
  Nothing   \* no total was printed

VARIABLES
  done,     \* files whose lines are in the total
  total,    \* the running total
  printed   \* the total that was printed

vars == <<done, total, printed>>

AllFiles == DOMAIN Lines
LinesOf(files) == UNION {Lines[f] : f \in files}

(* The bytes of a set of lines.                                            *)
Sum[lines \in SUBSET LinesOf(AllFiles)] ==
  IF lines = {} THEN 0
  ELSE LET l == CHOOSE l \in lines : TRUE IN Bytes[l] + Sum[lines \ {l}]

Init == done = {} /\ total = 0 /\ printed = Nothing

AddBatch ==
  /\ printed = Nothing
  /\ \E batch \in SUBSET (AllFiles \ done) : \E lines \in SUBSET LinesOf(batch) :
       done' = done \cup batch /\ total' = total + Sum[lines]
  /\ UNCHANGED printed

PrintTotal ==
  /\ printed = Nothing /\ done \in {{}, AllFiles}
  /\ printed' = total
  /\ UNCHANGED <<done, total>>

Spec == Init /\ [][AddBatch \/ PrintTotal]_vars
=============================================================================
