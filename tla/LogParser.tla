------------------------------ MODULE LogParser ------------------------------
(***************************************************************************)
(* The log parser (HW_10-Log-Parser/parser.c).  main lists the regular     *)
(* files of a directory and starts the threads; each thread takes the next *)
(* file index under file_mutex, parses that file into tables of its own,   *)
(* and when no file is left merges them into the global ones under         *)
(* stats_mutex; main joins all threads and prints totals and top lists.    *)
(*                                                                         *)
(* A thread works on shared data in two steps, one that loads and one that *)
(* stores, so that it is the mutexes which keep the threads apart.  What a *)
(* thread does to its own tables is one step.                              *)
(***************************************************************************)
EXTENDS Integers, Sequences, FiniteSets

CONSTANTS
  num_threads, \* number of threads, from the command line
  Logs,       \* the regular files of the directory, each a sequence of lines
  TopN,       \* TOP_N
  FaultKinds, \* which faults the environment may inject
  MaxFaults,  \* bound on the faults in one behaviour
  HASH_TABLE_SIZE, \* buckets of a thread's tables; the global ones have twice as many
  hash_string(_),  \* the hash of a key
  NoOne,      \* nobody holds the mutex
  NoReport    \* main has printed nothing

Threads    == 1 .. num_threads
NumFiles   == Len(Logs)
FileIdx    == 1 .. NumFiles
LineFaults == {"line", "url", "node", "referer", "url_name", "referer_name"}
Faults     == {"opendir", "realloc", "tables", "create", "thread", "open",
               "merge", "merge_name", "array"} \cup LineFaults

ASSUME LogAssumption ==
  /\ num_threads \in Nat \ {0}
  /\ NumFiles \in Nat /\ TopN \in Nat /\ MaxFaults \in Nat
  /\ \A f \in FileIdx : /\ Len(Logs[f]) \in Nat /\ DOMAIN Logs[f] = 1 .. Len(Logs[f])
                        /\ \A n \in DOMAIN Logs[f] : Logs[f][n].bytes \in Int
  /\ FaultKinds \subseteq Faults /\ HASH_TABLE_SIZE \in Nat \ {0}
  /\ NoOne \notin Threads

VARIABLES
  main_pc,         \* where main is
  created,         \* threads created so far
  total_files,     \* what find_files returned
  next_file_index, \* index of the next file to take
  file_mutex,      \* who holds file_mutex
  stats_mutex,     \* who holds stats_mutex
  pc,              \* where each thread is
  file_index,      \* the thread's local copy of the index
  local,           \* the thread's tables and total
  seen,            \* the global ones as the merging thread loaded them
  global,          \* total_bytes, global_url_table, global_referer_table
  nameless,        \* nodes whose key could not be copied
  report,          \* what main printed
  batch,           \* history: files each thread has taken
  counted,         \* history: files whose numbers are in the global tables
  faults           \* history: the faults that happened, <<kind, where>>

shared == <<next_file_index, file_mutex, stats_mutex, global, nameless>>
own    == <<pc, file_index, local, seen>>
ghosts == <<batch, counted>>
vars   == <<main_pc, created, total_files, report, shared, own, ghosts, faults>>

(* Something fails that the code looks at, or should.                      *)
Fault(kind, where) ==
  /\ kind \in FaultKinds /\ Cardinality(faults) < MaxFaults
  /\ main_pc \notin {"done", "failed", "crashed"}
  /\ faults' = faults \cup {<<kind, where>>}

Happened(kinds) == \E e \in faults : e[1] \in kinds

-----------------------------------------------------------------------------
(* A hash table is a function from the keys that have a node.              *)
NoNodes == [k \in {} |-> 0]
Empty   == [bytes |-> 0, urls |-> NoNodes, referers |-> NoNodes]

(* update_url_table and update_referer_table: add to the node of the key,  *)
(* which is made if there is none and mem is left for it and for its key.  *)
update_table(table, key, n, mem) ==
  IF key \in DOMAIN table THEN [table EXCEPT ![key] = @ + n]
  ELSE IF mem THEN [k \in DOMAIN table \cup {key} |-> IF k = key THEN n ELSE table[k]]
  ELSE table

(* parse_log_line: the shapes of a line it tells apart.  Without bracket,  *)
(* request or URL, or with a quote left open, a line is rejected; it may   *)
(* end before the referer, and a referer of dashes or of nothing is none.  *)
parse_log_line(line) == line.shape \in {"no_referer", "dashes", "no_text", "full"}

Referer(line) == IF line.shape = "full" THEN {line.referer} ELSE {}

(* One line of process_file, with what could not be allocated for it: the  *)
(* line or its URL (it is not counted), the node of the URL or of the      *)
(* referer, or the key of one of them.                                     *)
CountLine(stats, line, lost) ==
  IF ~parse_log_line(line) \/ lost \in {"line", "url"} THEN stats
  ELSE [bytes |-> stats.bytes + line.bytes,
        urls  |-> update_table(stats.urls, line.url, line.bytes,
                               lost \notin {"node", "url_name"}),
        referers |-> IF Referer(line) = {} THEN stats.referers
                     ELSE update_table(stats.referers, line.referer, 1,
                                       lost \notin {"referer", "referer_name"})]

(* The lines of a file one after the other; `at' is the line that meets    *)
(* the fault `lost', and no line is read after getline has failed.         *)
Meets(n, at, lost) ==
  IF n = at \/ (lost = "line" /\ n > at) THEN lost ELSE "nothing"
process_file(stats, lines, at, lost) ==
  LET upto[n \in 0 .. Len(lines)] ==
        IF n = 0 THEN stats
        ELSE CountLine(upto[n - 1], lines[n], Meets(n, at, lost))
  IN  upto[Len(lines)]

(* A node whose key could not be copied (parser.c:85, 111) has none.  In a *)
(* thread's table it is as good as lost, for the merge passes it by; in a  *)
(* global one it has its number and is printed.  But every key that falls  *)
(* into its bucket from then on is compared with it, which ends the        *)
(* process.                                                                *)
Main == 0
Node(owner, table, key) == [owner |-> owner, table |-> table, key |-> key]
Size(owner) == IF owner = Main THEN 2 * HASH_TABLE_SIZE ELSE HASH_TABLE_SIZE
SameBucket(x, y) == /\ x.owner = y.owner /\ x.table = y.table
                    /\ hash_string(x.key) % Size(x.owner) = hash_string(y.key) % Size(y.owner)
ComparedWith(nodes, x) == \E y \in nodes : SameBucket(x, y)

(* The nodes thread t looks for at a line, and those a fault leaves        *)
(* without a key.                                                          *)
Updated(t, line, lost) ==
  IF ~parse_log_line(line) \/ lost \in {"line", "url"} THEN {}
  ELSE {Node(t, "url", line.url)} \cup {Node(t, "referer", r) : r \in Referer(line)}
LeftNameless(t, lines, at, lost) ==
  LET before == process_file(local[t], SubSeq(lines, 1, at - 1), 0, "nothing")
  IN  {x \in Updated(t, lines[at], lost) :
         \/ lost = "url_name" /\ x.table = "url" /\ x.key \notin DOMAIN before.urls
         \/ lost = "referer_name" /\ x.table = "referer" /\ x.key \notin DOMAIN before.referers}
StrcmpFails(t, lines, at, lost) ==
  \E n \in DOMAIN lines : \E x \in Updated(t, lines[n], Meets(n, at, lost)) :
    \/ ComparedWith(nameless, x)
    \/ n > at /\ at > 0 /\ ComparedWith(LeftNameless(t, lines, at, lost), x)

(* merge_url_tables and merge_referer_tables; `lost' are the new keys no   *)
(* node could be made for.                                                 *)
merge_tables(src, dst, lost) ==
  [k \in DOMAIN dst \cup (DOMAIN src \ lost) |->
     (IF k \in DOMAIN dst THEN dst[k] ELSE 0) + (IF k \in DOMAIN src THEN src[k] ELSE 0)]

-----------------------------------------------------------------------------
Init ==
  /\ main_pc = "scan" /\ created = 0 /\ total_files = 0
  /\ next_file_index = 1
  /\ file_mutex = NoOne /\ stats_mutex = NoOne
  /\ pc = [t \in Threads |-> "unborn"]
  /\ file_index = [t \in Threads |-> 0]
  /\ local = [t \in Threads |-> Empty]
  /\ seen = [t \in Threads |-> Empty]
  /\ global = Empty /\ nameless = {}
  /\ report = NoReport
  /\ batch = [t \in Threads |-> {}] /\ counted = {}
  /\ faults = {}

(* find_files, and what main makes of its result.  A directory that cannot *)
(* be opened gives 1, the same as one file, and no array of names; a       *)
(* failed realloc gives -1.                                                *)
find_files ==
  /\ main_pc = "scan"
  /\ \/ /\ total_files' = NumFiles
        /\ main_pc' = IF NumFiles > 0 THEN "create" ELSE "failed"
        /\ UNCHANGED faults
     \/ /\ Fault("opendir", 0)
        /\ total_files' = 1
        /\ main_pc' = "create"
     \/ /\ NumFiles > 0 /\ Fault("realloc", 0)
        /\ total_files' = -1
        /\ main_pc' = "failed"
  /\ UNCHANGED <<created, report, shared, own, ghosts>>

(* The name of a file is there to be read.                                 *)
HasName(f) == f \in FileIdx /\ <<"opendir", 0>> \notin faults

(* The global tables, and the creation of the threads one by one; a        *)
(* failure of either ends the program, the threads that run included.      *)
CreateThread ==
  /\ main_pc = "create"
  /\ \/ /\ created + 1 \in Threads
        /\ created' = created + 1
        /\ pc' = [pc EXCEPT ![created + 1] = "start"]
        /\ UNCHANGED <<main_pc, faults>>
     \/ /\ created + 1 \notin Threads
        /\ main_pc' = "join"
        /\ UNCHANGED <<created, pc, faults>>
     \/ /\ \/ created = 0 /\ Fault("tables", 0)
           \/ created + 1 \in Threads /\ Fault("create", created + 1)
        /\ main_pc' = "failed"
        /\ UNCHANGED <<created, pc>>
  /\ UNCHANGED <<total_files, report, shared, file_index, local, seen, ghosts>>

-----------------------------------------------------------------------------
(* The threads run as long as the process does.                            *)
Running == main_pc \in {"create", "join"}

(* thread_func: tables of its own, or an early exit.                       *)
ThreadStart(t) ==
  /\ Running /\ pc[t] = "start"
  /\ \/ pc' = [pc EXCEPT ![t] = "lock"] /\ UNCHANGED faults
     \/ Fault("thread", t) /\ pc' = [pc EXCEPT ![t] = "gone"]
  /\ UNCHANGED <<main_pc, created, total_files, report, shared, file_index, local, seen, ghosts>>

Bug_NoFileLock(t) == file_mutex' = file_mutex
LockFiles(t) == file_mutex = NoOne /\ file_mutex' = t

LoadIndex(t) ==
  /\ Running /\ pc[t] = "lock"
  /\ LockFiles(t)
  /\ file_index' = [file_index EXCEPT ![t] = next_file_index]
  /\ pc' = [pc EXCEPT ![t] = "take"]
  /\ UNCHANGED <<main_pc, created, total_files, report, next_file_index, stats_mutex,
                 global, nameless, local, seen, ghosts, faults>>

InRange(f) == f <= total_files

Bug_LeavesLocked(t) == UNCHANGED file_mutex
UnlockNoMore(t) == file_mutex' = NoOne

(* The index moves and the name is read under the mutex, or the thread has *)
(* seen that no file is left.  Reading a name that is not there ends the   *)
(* process.                                                                *)
TakeFile(t) ==
  /\ Running /\ pc[t] = "take"
  /\ \/ /\ InRange(file_index[t]) /\ HasName(file_index[t])
        /\ next_file_index' = file_index[t] + 1
        /\ file_mutex' = NoOne
        /\ batch' = [batch EXCEPT ![t] = @ \cup {file_index[t]}]
        /\ pc' = [pc EXCEPT ![t] = "process"]
        /\ UNCHANGED main_pc
     \/ /\ InRange(file_index[t]) /\ ~HasName(file_index[t])
        /\ main_pc' = "crashed"
        /\ UNCHANGED <<next_file_index, file_mutex, batch, pc>>
     \/ /\ ~InRange(file_index[t])
        /\ UnlockNoMore(t)
        /\ pc' = [pc EXCEPT ![t] = "merge"]
        /\ UNCHANGED <<main_pc, next_file_index, batch>>
  /\ UNCHANGED <<created, total_files, report, stats_mutex, global, nameless, file_index,
                 local, seen, counted, faults>>

(* process_file.  A file that cannot be opened is skipped with a warning,  *)
(* and so is one whose name could not be copied when the directory was     *)
(* listed (parser.c:517), for fopen refuses the null pointer.              *)
ProcessFile(t) ==
  /\ Running /\ pc[t] = "process"
  /\ LET lines == Logs[file_index[t]] IN
     \/ /\ ~StrcmpFails(t, lines, 0, "nothing")
        /\ local' = [local EXCEPT ![t] = process_file(@, lines, 0, "nothing")]
        /\ UNCHANGED <<nameless, faults>>
     \/ Fault("open", file_index[t]) /\ UNCHANGED <<local, nameless>>
     \/ \E at \in DOMAIN lines, lost \in LineFaults :
          /\ Fault(lost, file_index[t])
          /\ ~StrcmpFails(t, lines, at, lost)
          /\ local' = [local EXCEPT ![t] = process_file(@, lines, at, lost)]
          /\ nameless' = nameless \cup LeftNameless(t, lines, at, lost)
  /\ pc' = [pc EXCEPT ![t] = "lock"]
  /\ UNCHANGED <<main_pc, created, total_files, report, next_file_index, file_mutex,
                 stats_mutex, global, file_index, seen, ghosts>>

Bug_NoStatsLock(t) == stats_mutex' = stats_mutex
LockStats(t) == stats_mutex = NoOne /\ stats_mutex' = t

LoadStats(t) ==
  /\ Running /\ pc[t] = "merge"
  /\ LockStats(t)
  /\ seen' = [seen EXCEPT ![t] = global]
  /\ pc' = [pc EXCEPT ![t] = "store"]
  /\ UNCHANGED <<main_pc, created, total_files, report, next_file_index, file_mutex,
                 global, nameless, file_index, local, ghosts, faults>>

(* What a thread merges into the global tables, and which of it is new     *)
(* there.  A referer is entered as often as it was counted, so one whose   *)
(* key cannot be copied is met again at once when it counts for more than  *)
(* one; other keys of its bucket may come before or after it.              *)
MergedNodes(t) == {Node(Main, "url", u) : u \in DOMAIN local[t].urls}
                  \cup {Node(Main, "referer", r) : r \in DOMAIN local[t].referers}
NewNodes(t) == {x \in MergedNodes(t) : IF x.table = "url" THEN x.key \notin DOMAIN seen[t].urls
                                       ELSE x.key \notin DOMAIN seen[t].referers}
EnteredAgain(t, x) == x.table = "referer" /\ local[t].referers[x.key] > 1
MergeFails(t) ==
  \/ /\ \E x \in MergedNodes(t) : ComparedWith(nameless, x)
     /\ UNCHANGED faults
  \/ \E x \in NewNodes(t) :
       /\ Fault("merge_name", x.key)
       /\ EnteredAgain(t, x) \/ \E y \in MergedNodes(t) \ {x} : SameBucket(x, y)

(* The merge of total and tables, the unlock and the end of the thread.    *)
(* Without a node for it a URL is left out, and a referer counts for one   *)
(* less.                                                                   *)
StoreStats(t) ==
  /\ Running /\ pc[t] = "store"
  /\ ~\E x \in MergedNodes(t) : ComparedWith(nameless, x)
  /\ LET urls     == local[t].urls
         referers == local[t].referers
         Merged(u, r) == [bytes |-> seen[t].bytes + local[t].bytes, urls |-> u, referers |-> r]
         AllUrls     == merge_tables(urls, seen[t].urls, {})
         AllReferers == merge_tables(referers, seen[t].referers, {})
     IN  \/ /\ global' = Merged(AllUrls, AllReferers)
            /\ UNCHANGED <<nameless, faults>>
         \/ \E x \in NewNodes(t) :
              /\ Fault("merge", x.key) /\ UNCHANGED nameless
              /\ \/ /\ x.table = "url"
                    /\ global' = Merged(merge_tables(urls, seen[t].urls, {x.key}), AllReferers)
                 \/ /\ x.table = "referer"
                    /\ global' = Merged(AllUrls,
                         merge_tables([referers EXCEPT ![x.key] = @ - 1], seen[t].referers,
                                      IF EnteredAgain(t, x) THEN {} ELSE {x.key}))
         \/ \E x \in NewNodes(t) :
              /\ Fault("merge_name", x.key) /\ ~EnteredAgain(t, x)
              /\ global' = Merged(AllUrls, AllReferers)
              /\ nameless' = nameless \cup {x}
  /\ stats_mutex' = NoOne
  /\ counted' = counted \cup batch[t]
  /\ pc' = [pc EXCEPT ![t] = "gone"]
  /\ UNCHANGED <<main_pc, created, total_files, report, next_file_index, file_mutex,
                 file_index, local, seen, batch>>

(* A key is compared with that of a nameless node, while a file is read or *)
(* while tables are merged (strcmp, parser.c:74 and 100).                  *)
CompareNull(t) ==
  /\ Running
  /\ \/ /\ pc[t] = "process"
        /\ LET lines == Logs[file_index[t]] IN
           \/ StrcmpFails(t, lines, 0, "nothing") /\ UNCHANGED faults
           \/ \E at \in DOMAIN lines, lost \in LineFaults :
                Fault(lost, file_index[t]) /\ StrcmpFails(t, lines, at, lost)
     \/ pc[t] = "store" /\ MergeFails(t)
  /\ main_pc' = "crashed"
  /\ UNCHANGED <<created, total_files, report, shared, own, ghosts>>

-----------------------------------------------------------------------------
(* pthread_join for every thread.                                          *)
Bug_JoinsFirst == 1 \in Threads => pc[1] = "gone"
Joined == \A t \in Threads : pc[t] = "gone"

(* qsort with compare_urls: larger totals first, equal ones in any order;  *)
(* then the first TopN of them are printed.                                *)
Before(table, k, j) == table[k] >= table[j]

TopLists(table) ==
  LET n == IF Cardinality(DOMAIN table) < TopN THEN Cardinality(DOMAIN table) ELSE TopN
  IN  {top \in [1 .. n -> DOMAIN table] :
         /\ \A i, j \in 1 .. n : i # j => top[i] # top[j]
         /\ \A j \in 1 .. n : \A k \in DOMAIN table \ {top[i] : i \in 1 .. j} :
              Before(table, top[j], k)}

(* An array that cannot be allocated is not sorted but is printed from.    *)
(* printf writes "(null)" for a key that is not there.                     *)
Printed(table, key) == IF Node(Main, table, key) \in nameless THEN "(null)" ELSE key
Report ==
  /\ main_pc = "join" /\ Joined
  /\ \/ /\ \E urls \in TopLists(global.urls), referers \in TopLists(global.referers) :
             report' = [total_bytes |-> global.bytes,
                        urls     |-> [j \in DOMAIN urls |->
                                        <<Printed("url", urls[j]), global.urls[urls[j]]>>],
                        referers |-> [j \in DOMAIN referers |->
                                        <<Printed("referer", referers[j]),
                                          global.referers[referers[j]]>>]]
        /\ main_pc' = "done"
        /\ UNCHANGED faults
     \/ /\ Fault("array", 0)
        /\ DOMAIN global.urls \cup DOMAIN global.referers # {} /\ TopN > 0
        /\ main_pc' = "crashed"
        /\ UNCHANGED report
  /\ UNCHANGED <<created, total_files, shared, own, ghosts>>

ThreadStep(t) ==
  \/ ThreadStart(t) \/ LoadIndex(t) \/ TakeFile(t) \/ ProcessFile(t)
  \/ LoadStats(t) \/ StoreStats(t) \/ CompareNull(t)

Next == find_files \/ CreateThread \/ Report \/ \E t \in Threads : ThreadStep(t)

LogSpec == Init /\ [][Next]_vars

(* main and the threads are scheduled, and a mutex that is free is taken.  *)
LogFairSpec ==
  /\ LogSpec
  /\ WF_vars(find_files) /\ WF_vars(CreateThread) /\ WF_vars(Report)
  /\ \A t \in Threads : WF_vars(ThreadStep(t))

-----------------------------------------------------------------------------
(* No file is taken by two threads, and no index is skipped: the threads   *)
(* together have taken exactly the files below next_file_index.            *)
TakenOnce ==
  /\ \A s, t \in Threads : s # t => batch[s] \cap batch[t] = {}
  /\ UNION {batch[t] : t \in Threads} = 1 .. next_file_index - 1

(* The lines of each file, what a line says, and its bytes.                *)
Lines    == [f \in FileIdx |-> {f} \X DOMAIN Logs[f]]
AllLines == UNION {Lines[f] : f \in FileIdx}
Text(l)  == Logs[l[1]][l[2]]
Bytes    == [l \in AllLines |-> Text(l).bytes]

(* The threads implement the sequential tally of LogTally.                 *)
Tally == INSTANCE LogTally WITH
  Nothing <- NoReport,
  done    <- counted,
  total   <- global.bytes,
  printed <- IF report = NoReport THEN NoReport ELSE report.total_bytes
ImplementsTally == Tally!Spec

(* The reference: what the files that could be opened say, line by line.   *)
GoodShapes == {"no_referer", "dashes", "no_text", "full"}
GoodLines ==
  {l \in AllLines : Text(l).shape \in GoodShapes /\ <<"open", l[1]>> \notin faults}
WithReferer(lines)  == {l \in lines : Text(l).shape = "full"}
LinesWith(u, lines) == {l \in lines : Text(l).url = u}
LinesFrom(r, lines) == {l \in WithReferer(lines) : Text(l).referer = r}
UrlBytes(lines) ==
  [u \in {Text(l).url : l \in lines} |-> Tally!Sum[LinesWith(u, lines)]]
RefererCounts(lines) ==
  [r \in {Text(l).referer : l \in WithReferer(lines)} |-> Cardinality(LinesFrom(r, lines))]

(* A list of the largest entries: right numbers, no entry twice, and none  *)
(* of those left out is larger than one printed.                           *)
RightTop(list, numbers) ==
  LET keys  == DOMAIN numbers
      shown == {list[j][1] : j \in DOMAIN list} IN
  /\ Len(list) = IF Cardinality(keys) < TopN THEN Cardinality(keys) ELSE TopN
  /\ Cardinality(shown) = Len(list) /\ shown \subseteq keys
  /\ \A j \in DOMAIN list : list[j][2] = numbers[list[j][1]]
  /\ \A k \in keys \ shown : \A u \in shown : numbers[k] <= numbers[u]

(* What is printed is what the files say, whichever threads did the work,  *)
(* however they interleaved and also when some of them left for lack of    *)
(* memory; only when all of them did, the report is empty.                 *)
Losses == LineFaults \cup {"merge", "merge_name"}
ReportRight ==
  report # NoReport /\ ~Happened(Losses) =>
    IF \A t \in Threads : <<"thread", t>> \in faults
    THEN report.total_bytes = 0 /\ report.urls = <<>> /\ report.referers = <<>>
    ELSE /\ report.total_bytes = Tally!Sum[GoodLines]
         /\ RightTop(report.urls, UrlBytes(GoodLines))
         /\ RightTop(report.referers, RefererCounts(GoodLines))

(* The program comes to its end: no thread keeps a mutex, whichever way    *)
(* it leaves, and every thread main created is joined.  It ends by itself, *)
(* with every name and key it reads there to be read, unless the directory *)
(* could not be opened (find_files then says one file), the array of the   *)
(* report could not be allocated (parser.c:644), or the copy of a key was  *)
(* not made (strdup, parser.c:85, 111).                                    *)
MainEnds ==
  <>(\/ main_pc \in {"done", "failed"}
     \/ /\ main_pc = "crashed"
        /\ Happened({"opendir", "array", "url_name", "referer_name", "merge_name"}))
=============================================================================
