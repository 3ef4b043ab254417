---------------------------- MODULE OutputProofs ----------------------------
(***************************************************************************)
(* Proofs about both outputs (OutputClient with Storage and TarWriter),    *)
(* for any torrent: any number of pieces and files of any lengths, any     *)
(* piece length, any peers, any order of arrival, any failed write, and    *)
(* any block size of the archive.  First the files on disk, then the tar   *)
(* stream: in any order of arrival, and with the pieces in order.          *)
(***************************************************************************)
EXTENDS OutputClient, DownloadProofs, Induction, SequenceTheorems

FileCount == Len(FileLengths)

(* The running sum over the files is what its equation says.               *)
LEMMA FileStartEquation ==
  /\ FileCount \in Nat /\ FileStart[1] = 0
  /\ \A f \in Files : FileLengths[f] \in Nat
                      /\ FileStart[f + 1] = FileStart[f] + FileLengths[f]
<1> DEFINE n == FileCount
           Eqn(s) == s = [f \in 1 .. n + 1 |->
                            IF f = 1 THEN 0 ELSE s[f - 1] + FileLengths[f - 1]]
           h == [p \in (1 .. n) \X Nat |-> p[2] + FileLengths[p[1]]]
<1>1. n \in Nat /\ \A f \in 1 .. n : FileLengths[f] \in Nat
  BY LayoutAssumption DEF FileCount
<1>2. /\ h \in [(1 .. n) \X Nat -> Nat]
      /\ \A f \in 1 .. n, v \in Nat : h[<<f, v>>] = v + FileLengths[f]
  BY <1>1
<1> HIDE DEF n, h
<1>3. \E g : Recursion(g, n, Nat, 0, h)
  BY <1>1, <1>2, RecursionExists DEF Steps
<1>4. PICK g : g \in [0 .. n -> Nat] /\ g[0] = 0 /\ \A k \in 1 .. n : g[k] = h[<<k, g[k - 1]>>]
  BY <1>3 DEF Recursion
<1>5. ASSUME NEW k \in 1 .. n PROVE g[k] = g[k - 1] + FileLengths[k]
  <2>1. g[k - 1] \in Nat
    BY <1>1, <1>4
  <2> QED BY <1>2, <1>4, <2>1
<1> DEFINE s == [f \in 1 .. n + 1 |-> g[f - 1]]
<1>6. Eqn(s)
  <2>1. ASSUME NEW f \in 1 .. n + 1
        PROVE  s[f] = IF f = 1 THEN 0 ELSE s[f - 1] + FileLengths[f - 1]
    <3>1. CASE f = 1
      BY <1>1, <1>4, <3>1
    <3>2. CASE f # 1
      <4>1. f - 1 \in 1 .. n /\ f - 1 \in 1 .. n + 1
        BY <1>1, <3>2
      <4>2. s[f] = g[f - 1] /\ s[f - 1] = g[(f - 1) - 1]
        BY <4>1
      <4> QED BY <1>5, <3>2, <4>1, <4>2
    <3> QED BY <3>1, <3>2
  <2>2. s = [f \in 1 .. n + 1 |-> s[f]]
    OBVIOUS
  <2> HIDE DEF s
  <2> QED BY <2>1, <2>2
<1>7. FileStart = CHOOSE t : Eqn(t)
  BY DEF FileStart, n, FileCount
<1> HIDE DEF Eqn, s
<1>8. Eqn(FileStart)
  BY <1>6, <1>7
<1>9. ASSUME NEW f \in 1 .. n
      PROVE  FileStart[f + 1] = FileStart[f] + FileLengths[f]
  <2>1. f + 1 \in 1 .. n + 1 /\ f + 1 # 1 /\ (f + 1) - 1 = f
    BY <1>1
  <2> QED BY <1>8, <2>1 DEF Eqn
<1>10. FileStart[1] = 0
  <2>1. 1 \in 1 .. n + 1
    BY <1>1
  <2> QED BY <1>8, <2>1 DEF Eqn
<1> QED BY <1>1, <1>9, <1>10 DEF n, FileCount, Files

(* Where a file starts is a position, files follow one another, and none   *)
(* ends behind the total.                                                  *)
LEMMA FileStartsInOrder ==
  /\ \A f \in 1 .. FileCount + 1 : FileStart[f] \in Nat
  /\ \A f, m \in 1 .. FileCount + 1 : f <= m => FileStart[f] <= FileStart[m]
  /\ total_length \in Nat
  /\ \A f \in Files : FileEnd(f) <= total_length
<1> DEFINE n == FileCount
           T == {k \in Nat : k <= n => FileStart[k + 1] \in Nat}
<1>1. /\ n \in Nat /\ FileStart[1] = 0
      /\ \A f \in 1 .. n : FileLengths[f] \in Nat
                           /\ FileStart[f + 1] = FileStart[f] + FileLengths[f]
  BY FileStartEquation DEF Files, FileCount
<1> HIDE DEF n
<1>2. 0 \in T
  BY <1>1
<1>3. ASSUME NEW k \in Nat, k \in T PROVE k + 1 \in T
  <2> SUFFICES ASSUME k + 1 <= n PROVE FileStart[(k + 1) + 1] \in Nat
    OBVIOUS
  <2>1. k + 1 \in 1 .. n /\ k <= n
    BY <1>1
  <2> QED BY <1>1, <1>3, <2>1
<1> HIDE DEF T
<1>4. \A k \in Nat : k \in T
  BY <1>2, <1>3, NatInductionSet
<1>5. ASSUME NEW f \in 1 .. n + 1 PROVE FileStart[f] \in Nat
  <2>1. f - 1 \in Nat /\ f - 1 <= n /\ (f - 1) + 1 = f
    BY <1>1
  <2> QED BY <1>4, <2>1 DEF T
<1>6. ASSUME NEW f \in 1 .. n + 1, NEW m \in 1 .. n + 1, f <= m PROVE FileStart[f] <= FileStart[m]
  <2> DEFINE U == {k \in Nat : f + k <= n + 1 => FileStart[f] <= FileStart[f + k]}
  <2>1. 0 \in U
    <3>1. f + 0 = f /\ FileStart[f] \in Nat
      BY <1>5
    <3> QED BY <3>1
  <2>2. ASSUME NEW k \in Nat, k \in U PROVE k + 1 \in U
    <3> SUFFICES ASSUME f + (k + 1) <= n + 1 PROVE FileStart[f] <= FileStart[f + (k + 1)]
      OBVIOUS
    <3>1. f + k \in 1 .. n /\ f + (k + 1) = (f + k) + 1 /\ f + k \in 1 .. n + 1
      BY <1>1
    <3>2. FileStart[f] <= FileStart[f + k]
      BY <2>2, <3>1, <1>1
    <3>3. FileStart[f] \in Nat /\ FileStart[f + k] \in Nat
      BY <1>5, <3>1
    <3>4. FileStart[f + (k + 1)] = FileStart[f + k] + FileLengths[f + k]
      BY <1>1, <3>1
    <3>5. FileLengths[f + k] \in Nat
      BY <1>1, <3>1
    <3> QED BY <3>2, <3>3, <3>4, <3>5
  <2> HIDE DEF U
  <2>3. \A k \in Nat : k \in U
    BY <2>1, <2>2, NatInductionSet
  <2>4. m - f \in Nat /\ f + (m - f) = m /\ m <= n + 1
    BY <1>1, <1>6
  <2>5. m - f \in U
    BY <2>3, <2>4
  <2> QED BY <1>1, <2>4, <2>5 DEF U
<1>7. total_length = FileStart[n + 1] /\ n + 1 \in 1 .. n + 1
  BY <1>1 DEF total_length, n, FileCount
<1>8. ASSUME NEW f \in 1 .. n PROVE FileEnd(f) <= total_length
  <2>1. FileEnd(f) = FileStart[f + 1] /\ f + 1 \in 1 .. n + 1 /\ f + 1 <= n + 1
    BY <1>1 DEF FileEnd
  <2> QED BY <1>6, <1>7, <2>1
<1> QED BY <1>5, <1>6, <1>7, <1>8 DEF n, FileCount, Files

(* A file starts no earlier than one listed before it.                     *)
LEMMA FileStartsGrow ==
  ASSUME NEW f \in 1 .. FileCount + 1, NEW m \in 1 .. FileCount + 1, f <= m
  PROVE  FileStart[f] <= FileStart[m]
BY FileStartsInOrder

-----------------------------------------------------------------------------
(* Division, with the product closed.                                      *)
LEMMA Division ==
  ASSUME NEW a \in Nat, NEW d \in Nat \ {0}
  PROVE  /\ a \div d \in Nat /\ a % d \in 0 .. d - 1
         /\ a = d * (a \div d) + (a % d)
<1>1. a % d \in 0 .. d - 1
  OBVIOUS
<1>2. a \div d \in Nat
  OBVIOUS
<1>3. a = d * (a \div d) + (a % d)
  OBVIOUS
<1> QED BY <1>1, <1>2, <1>3

(* A product grows by the factor.                                          *)
LEMMA Products ==
  ASSUME NEW d \in Nat \ {0}, NEW a \in Nat, NEW b \in Nat
  PROVE  /\ d * a \in Nat /\ d * (a + 1) = d * a + d
         /\ a < b => d * a + d <= d * b
<1>1. d * a \in Nat /\ d * (a + 1) = d * a + d
  OBVIOUS
<1>2. ASSUME a < b PROVE d * a + d <= d * b
  <2>1. PICK k \in Nat : b = a + 1 + k
    BY <1>2
  <2>2. d * k \in Nat
    OBVIOUS
  <2>3. d * b = d * a + d + d * k
    BY <2>1
  <2> QED BY <1>1, <2>2, <2>3
<1> QED BY <1>1, <1>2

(* A quotient with its remainder determines it.                            *)
LEMMA Quotient ==
  ASSUME NEW d \in Nat \ {0}, NEW q \in Nat, NEW r \in 0 .. d - 1
  PROVE  (d * q + r) \div d = q
<1> DEFINE a == d * q + r
           k == a \div d
           m == a % d
<1>1. d * q \in Nat
  OBVIOUS
<1>2. a \in Nat
  BY <1>1
<1> HIDE DEF a
<1>3. k \in Nat /\ m \in 0 .. d - 1 /\ a = d * k + m
  BY <1>2, Division
<1> HIDE DEF k, m
<1>4. d * k \in Nat
  BY <1>3
<1>5. ~(k < q)
  <2>1. k < q => d * k + d <= d * q
    BY <1>3, Products
  <2> QED BY <1>1, <1>3, <1>4, <2>1 DEF a
<1>6. ~(q < k)
  <2>1. q < k => d * q + d <= d * k
    BY <1>3, Products
  <2> QED BY <1>1, <1>3, <1>4, <2>1 DEF a
<1>7. k = q
  BY <1>3, <1>5, <1>6
<1> QED BY <1>7 DEF k, a

(* A piece starts at a position and has a size.                            *)
LEMMA PieceFacts ==
  ASSUME NEW p \in Nat
  PROVE  PieceStart(p) \in Nat /\ piece_size(p) \in Nat
<1>1. PieceStart(p) \in Nat
  BY LayoutAssumption DEF PieceStart
<1>2. total_length % PieceLength \in Nat
  <2>1. total_length % PieceLength \in 0 .. PieceLength - 1
    BY FileStartsInOrder, LayoutAssumption, Division
  <2> QED BY <2>1, LayoutAssumption
<1>3. piece_size(p) \in Nat
  BY <1>2, LayoutAssumption DEF piece_size
<1> QED BY <1>1, <1>3

(* When the number of hashes fits the lengths every position of the stream *)
(* lies in a piece.                                                        *)
LEMMA PiecesCoverStream ==
  ASSUME MetadataConsistent, NEW x \in Nat, x < total_length
  PROVE  \E p \in 0 .. PieceTotal - 1 : x \in PieceBytes(p)
<1> DEFINE d == PieceLength
           q == x \div d
           c == total_length \div d
           r == total_length % d
<1>1. /\ d \in Nat \ {0} /\ total_length \in Nat
      /\ PieceTotal = (total_length + d - 1) \div d /\ PieceTotal \in Nat \ {0}
  BY FileStartsInOrder, LayoutAssumption DEF MetadataConsistent
<1> HIDE DEF d
<1>2. /\ q \in Nat /\ d * q \in Nat /\ d * q <= x /\ x < d * q + d
  <2>1. q \in Nat /\ x % d \in 0 .. d - 1 /\ x = d * q + (x % d)
    BY <1>1, Division
  <2> HIDE DEF q
  <2>2. d * q \in Nat
    BY <1>1, <2>1
  <2> QED BY <1>1, <2>1, <2>2
<1>3. /\ c \in Nat /\ r \in 0 .. d - 1 /\ total_length = d * c + r
  BY <1>1, Division
<1>r. total_length % PieceLength = r /\ PieceLength = d
  BY DEF d
<1> HIDE DEF q, c, r
<1>4. d * c \in Nat
  BY <1>1, <1>3
<1>5. PieceStart(q) = d * q
  BY <1>1, <1>2 DEF PieceStart, d
<1>6. CASE r = 0
  <2>1. PieceTotal = c
    <3>1. total_length + d - 1 = d * c + (d - 1) /\ d - 1 \in 0 .. d - 1
      BY <1>1, <1>3, <1>4, <1>6
    <3>2. (d * c + (d - 1)) \div d = c
      BY <1>1, <1>3, <3>1, Quotient
    <3> QED BY <1>1, <3>1, <3>2
  <2>2. q < c
    <3>1. c < q => d * c + d <= d * q
      BY <1>1, <1>2, <1>3, Products
    <3>2. c = q => d * c = d * q
      OBVIOUS
    <3> QED BY <1>1, <1>2, <1>3, <1>4, <1>6, <3>1, <3>2
  <2>3. q \in 0 .. PieceTotal - 1
    BY <1>2, <1>3, <2>1, <2>2
  <2>4. piece_size(q) = d
    BY <1>1, <1>2, <1>r, <1>6, <2>3 DEF piece_size
  <2>5. x \in PieceBytes(q)
    BY <1>1, <1>2, <1>5, <2>4 DEF PieceBytes
  <2> QED BY <2>3, <2>5
<1>7. CASE r # 0
  <2>1. PieceTotal = c + 1
    <3>1. d * (c + 1) = d * c + d
      BY <1>1, <1>3, Products
    <3>2. /\ total_length + d - 1 = d * (c + 1) + (r - 1)
          /\ r - 1 \in 0 .. d - 1 /\ c + 1 \in Nat
      BY <1>1, <1>3, <1>4, <1>7, <3>1
    <3>3. (d * (c + 1) + (r - 1)) \div d = c + 1
      BY <1>1, <3>2, Quotient
    <3> QED BY <1>1, <3>2, <3>3
  <2>2. q <= c
    <3>1. c < q => d * c + d <= d * q
      BY <1>1, <1>2, <1>3, Products
    <3> QED BY <1>1, <1>2, <1>3, <1>4, <3>1
  <2>3. q \in 0 .. PieceTotal - 1
    BY <1>2, <1>3, <2>1, <2>2
  <2>4. CASE q < c
    <3>1. piece_size(q) = d
      BY <1>2, <1>3, <1>r, <2>1, <2>4 DEF piece_size
    <3> QED BY <1>1, <1>2, <1>5, <2>3, <3>1 DEF PieceBytes
  <2>5. CASE q = c
    <3>1. piece_size(q) = r
      BY <1>2, <1>3, <1>r, <1>7, <2>1, <2>5 DEF piece_size
    <3>2. d * q = d * c
      BY <2>5
    <3> QED BY <1>1, <1>2, <1>3, <1>5, <2>3, <3>1, <3>2 DEF PieceBytes
  <2> QED BY <1>2, <1>3, <2>2, <2>4, <2>5
<1> QED BY <1>3, <1>6, <1>7

-----------------------------------------------------------------------------
(* What fwrite leaves at an offset: the byte of the stream that belongs    *)
(* there, and it is one of the piece; or what was there.  A fragment       *)
(* written in full puts every byte of the piece that lies in the file.     *)
LEMMA Fragment ==
  ASSUME NEW p \in Nat, NEW f \in Files, NEW o \in Offsets(f),
         NEW n \in Nat, n <= FragmentLen(p, f)
  PROVE  /\ \/ Written(p, f, n, o) = disk[f][o]
            \/ /\ Written(p, f, n, o) = FileStart[f] + o
               /\ FileStart[f] + o \in PieceBytes(p)
         /\ n = FragmentLen(p, f) /\ FileStart[f] + o \in PieceBytes(p) =>
              Written(p, f, n, o) = FileStart[f] + o
<1> DEFINE ps == PieceStart(p)
           pe == PieceStart(p) + piece_size(p)
           fs == FileStart[f]
           fe == FileStart[f] + FileLengths[f]
           from == Greatest(ps, fs)
           to == Least(pe, fe)
<1>1. /\ ps \in Nat /\ pe \in Nat /\ fs \in Nat /\ fe \in Nat
      /\ o \in Nat /\ fs + o < fe
  <2>1. ps \in Nat /\ pe \in Nat
    BY PieceFacts
  <2>2. fs \in Nat /\ FileLengths[f] \in Nat
    <3>1. f \in 1 .. FileCount + 1 /\ FileCount \in Nat
      BY FileStartEquation DEF Files, FileCount
    <3> QED BY <3>1, FileStartEquation, FileStartsInOrder
  <2> QED BY <2>1, <2>2 DEF Offsets
<1>2. Overlap(p, f).from = from /\ Overlap(p, f).to = to
  BY DEF Overlap, FileEnd
<1>3. FragmentLen(p, f) = IF from < to THEN to - from ELSE 0
  BY <1>2 DEF FragmentLen
<1>4. Written(p, f, n, o) = IF o \in from - fs .. from - fs + n - 1
                            THEN ps + (from - ps) + (o - (from - fs)) ELSE disk[f][o]
  BY <1>2 DEF Written
<1>5. FileStart[f] + o \in PieceBytes(p) <=> ps <= fs + o /\ fs + o < pe
  <2> HIDE DEF fs
  <2>1. PieceBytes(p) = ps .. pe - 1
    BY <1>1, PieceFacts, SMTT(30) DEF PieceBytes
  <2> HIDE DEF ps, pe
  <2>2. fs + o \in ps .. pe - 1 <=> ps <= fs + o /\ fs + o < pe
    BY <1>1
  <2> QED BY <2>1, <2>2 DEF fs
<1>6. /\ from \in Nat /\ ps <= from /\ fs <= from /\ (from = ps \/ from = fs)
      /\ to \in Nat /\ to <= pe /\ to <= fe /\ (to = pe \/ to = fe)
  BY <1>1 DEF Greatest, Least
<1> HIDE DEF ps, pe, fe, from, to
<1>7. ASSUME o \in from - fs .. from - fs + n - 1
      PROVE  /\ Written(p, f, n, o) = FileStart[f] + o
             /\ ps <= fs + o /\ fs + o < pe
  <2> HIDE DEF fs
  <2>1. from <= fs + o /\ fs + o < from + n
    BY <1>1, <1>6, <1>7
  <2>2. ps + (from - ps) + (o - (from - fs)) = fs + o
    BY <1>1, <1>6
  <2>3. from + n <= pe
    BY <1>1, <1>3, <1>6, <2>1
  <2>4. Written(p, f, n, o) = fs + o
    BY <1>4, <1>7, <2>2
  <2> QED BY <1>1, <1>6, <2>1, <2>3, <2>4 DEF fs
<1>8. ASSUME n = FragmentLen(p, f), ps <= fs + o, fs + o < pe
      PROVE  o \in from - fs .. from - fs + n - 1
  <2> HIDE DEF fs
  <2>1. from <= fs + o /\ fs + o < to
    BY <1>1, <1>6, <1>8
  <2>2. n = to - from
    BY <1>1, <1>3, <1>6, <1>8, <2>1
  <2> QED BY <1>1, <1>6, <2>1, <2>2
<1> QED BY <1>4, <1>5, <1>7, <1>8

(* Every step accepts the piece under way and hands it to the output, or   *)
(* leaves the books alone.                                                 *)
LEMMA OutputSteps ==
  ASSUME BInv, [OutputNext]_outputVars
  PROVE  /\ [Next]_vars /\ use_tar' = use_tar
         /\ \/ /\ i \in Pieces /\ AcceptPiece
               /\ \/ UNCHANGED <<disk, io_failed>> /\ use_tar
                  \/ storage_write(i)
            \/ /\ UNCHANGED result
               /\ UNCHANGED <<disk, io_failed>> \/ storage_close
<1>1. CASE UNCHANGED outputVars \/ FullPathOverflows
  BY <1>1 DEF outputVars, vars, result, FullPathOverflows
<1>2. CASE OutputStep
  <2>1. /\ Next /\ use_tar' = use_tar /\ (TarFollows \/ StorageFollows)
    BY <1>2 DEF OutputStep
  <2>2. CASE FinishPiece /\ AcceptPiece
    <3>1. i \in Pieces /\ out \in Seq(Delivery)
      BY <2>2 DEF BInv, TypeOK, FinishPiece
    <3>2. Accepts
      <4>1. \A d \in {[piece |-> i, data |-> buf]} : Append(out, d) # out
        <5> TAKE d \in {[piece |-> i, data |-> buf]}
        <5>1. out \in Seq(Delivery \cup {d}) /\ d \in Delivery \cup {d}
          BY <3>1
        <5> HIDE DEF Delivery
        <5>2. Len(Append(out, d)) = Len(out) + 1 /\ Len(out) \in Nat
          BY <5>1
        <5> QED BY <5>2
      <4> QED BY <2>2, <4>1 DEF Accepts, AcceptPiece
    <3>3. CASE TarFollows
      BY <2>1, <2>2, <3>1, <3>3 DEF TarFollows
    <3>4. CASE StorageFollows
      <4>1. ~Returns
        BY <2>2 DEF FinishPiece, Returns
      <4>2. storage_write(i)
        BY <3>2, <3>4, <4>1 DEF StorageFollows
      <4> QED BY <2>1, <2>2, <3>1, <4>2
    <3> QED BY <2>1, <3>3, <3>4
  <2>3. CASE UNCHANGED result
    <3>1. ~Accepts
      BY <2>3 DEF result, Accepts
    <3>2. CASE TarFollows
      BY <2>1, <2>3, <3>2 DEF TarFollows
    <3>3. CASE StorageFollows
      <4>1. CASE Returns
        <5>1. storage_close
          BY <3>1, <3>3, <4>1 DEF StorageFollows
        <5> QED BY <2>1, <2>3, <5>1
      <4>2. CASE ~Returns
        <5>1. UNCHANGED <<disk, io_failed>>
          BY <3>1, <3>3, <4>2 DEF StorageFollows
        <5> QED BY <2>1, <2>3, <5>1
      <4> QED BY <4>1, <4>2
    <3> QED BY <2>1, <3>2, <3>3
  <2>4. UNCHANGED result \/ (FinishPiece /\ AcceptPiece)
    BY <2>1, StepKinds DEF Return
  <2> QED BY <2>2, <2>3, <2>4
<1> QED BY <1>1, <1>2 DEF OutputNext

(* What storage_write does to one byte.                                    *)
LEMMA ByteWritten ==
  ASSUME NEW p \in Nat, storage_write(p), NEW f \in Files, NEW o \in Offsets(f)
  PROVE  /\ \/ disk'[f][o] = disk[f][o]
            \/ /\ disk'[f][o] = FileStart[f] + o
               /\ FileStart[f] + o \in PieceBytes(p)
         /\ ~io_failed' => /\ ~io_failed
                           /\ FileStart[f] + o \in PieceBytes(p) =>
                                disk'[f][o] = FileStart[f] + o
<1>1. PICK n \in Achieved(p) :
        /\ disk' = [g \in Files |-> [x \in Offsets(g) |-> Written(p, g, n[g], x)]]
        /\ io_failed' = (io_failed \/ \E g \in Files : n[g] < FragmentLen(p, g))
  BY DEF storage_write
<1>2. FragmentLen(p, f) \in Nat
  <2>1. PieceStart(p) \in Nat /\ piece_size(p) \in Nat
    BY PieceFacts
  <2>2. FileStart[f] \in Nat /\ FileLengths[f] \in Nat
    <3>1. f \in 1 .. FileCount + 1 /\ FileCount \in Nat
      BY FileStartEquation DEF Files, FileCount
    <3> QED BY <3>1, FileStartEquation, FileStartsInOrder
  <2>3. Overlap(p, f).from \in Nat /\ Overlap(p, f).to \in Nat
    BY <2>1, <2>2 DEF Overlap, Least, Greatest, FileEnd
  <2> QED BY <2>3 DEF FragmentLen
<1>3. n[f] \in Nat /\ n[f] <= FragmentLen(p, f)
  <2>1. CASE IoFaults
    BY <1>2, <2>1, LayoutAssumption DEF Achieved
  <2>2. CASE ~IoFaults
    <3>1. n = [g \in Files |-> FragmentLen(p, g)]
      BY <2>2 DEF Achieved
    <3> QED BY <1>2, <3>1
  <2> QED BY <2>1, <2>2
<1>4. disk'[f][o] = Written(p, f, n[f], o)
  BY <1>1
<1>5. ~io_failed' => ~io_failed /\ n[f] = FragmentLen(p, f)
  <2>1. ~io_failed' => ~io_failed /\ ~(n[f] < FragmentLen(p, f))
    BY <1>1
  <2> QED BY <1>2, <1>3, <2>1
<1> QED BY <1>3, <1>4, <1>5, Fragment

(* What storage_close does to one byte.                                    *)
LEMMA ByteClosed ==
  ASSUME storage_close, NEW f \in Files, NEW o \in Offsets(f)
  PROVE  /\ disk'[f][o] = disk[f][o] \/ disk'[f][o] = Hole
         /\ ~io_failed' => ~io_failed /\ disk' = disk
<1>1. PICK gone \in LostByFclose :
        /\ disk' = [g \in Files |-> [x \in Offsets(g) |->
                      IF FileStart[g] + x \in gone THEN Hole ELSE disk[g][x]]]
        /\ io_failed' = (io_failed \/ disk' # disk)
  BY DEF storage_close
<1>2. disk'[f][o] = disk[f][o] \/ disk'[f][o] = Hole
  BY <1>1
<1>3. ~io_failed' => ~io_failed /\ disk' = disk
  BY <1>1
<1> QED BY <1>2, <1>3

(* No fault, no order of arrival and no signal leaves a byte at a wrong    *)
(* place or a byte of a piece that was not verified: each fragment of      *)
(* storage_write goes to its offset in its file.                           *)
THEOREM DiskNeverWrongHolds == OutputSpec => []DiskNeverWrong
<1>1. OutputInit => BInv /\ DiskNeverWrong
  <2> SUFFICES ASSUME OutputInit PROVE BInv /\ DiskNeverWrong
    OBVIOUS
  <2>1. BInv
    BY BInvInit DEF OutputInit
  <2>2. DiskNeverWrong
    BY DEF OutputInit, setup_output_context, StorageInit, DiskNeverWrong
  <2> QED BY <2>1, <2>2
<1>2. BInv /\ DiskNeverWrong /\ [OutputNext]_outputVars => BInv' /\ DiskNeverWrong'
  <2> SUFFICES ASSUME BInv, DiskNeverWrong, [OutputNext]_outputVars
               PROVE  BInv' /\ DiskNeverWrong'
    OBVIOUS
  <2>1. BInv'
    BY OutputSteps, BInvStep
  <2>2. DiskNeverWrong'
    <3> SUFFICES ASSUME NEW f \in Files, NEW o \in Offsets(f), disk'[f][o] # Hole
                 PROVE  /\ disk'[f][o] = FileStart[f] + o
                        /\ \E p \in pieces_done' : disk'[f][o] \in PieceBytes(p)
      BY DEF DiskNeverWrong
    <3>1. disk[f][o] # Hole =>
            /\ disk[f][o] = FileStart[f] + o
            /\ \E p \in pieces_done : disk[f][o] \in PieceBytes(p)
      BY DEF DiskNeverWrong
    <3>2. CASE i \in Pieces /\ AcceptPiece /\ UNCHANGED <<disk, io_failed>>
      BY <3>1, <3>2 DEF AcceptPiece
    <3>3. CASE i \in Pieces /\ AcceptPiece /\ storage_write(i)
      <4>1. i \in Nat /\ pieces_done' = pieces_done \cup {i}
        BY <3>3, ParametersAssumption DEF Pieces, AcceptPiece
      <4>2. \/ disk'[f][o] = disk[f][o]
            \/ disk'[f][o] = FileStart[f] + o /\ FileStart[f] + o \in PieceBytes(i)
        BY <3>3, <4>1, ByteWritten
      <4> QED BY <3>1, <4>1, <4>2
    <3>4. CASE UNCHANGED result /\ UNCHANGED <<disk, io_failed>>
      BY <3>1, <3>4 DEF result
    <3>5. CASE UNCHANGED result /\ storage_close
      BY <3>1, <3>5, ByteClosed DEF result
    <3> QED BY <3>2, <3>3, <3>4, <3>5, OutputSteps
  <2> QED BY <2>1, <2>2
<1> QED BY <1>1, <1>2, PTL DEF OutputSpec

-----------------------------------------------------------------------------
(* Unless a write failed, each byte is on disk or no accepted piece has    *)
(* it.                                                                     *)
OnDisk ==
  /\ use_tar \in BOOLEAN /\ io_failed \in BOOLEAN
  /\ ~use_tar /\ ~io_failed =>
       \A f \in Files : \A o \in Offsets(f) :
         \/ disk[f][o] = FileStart[f] + o
         \/ \A p \in pieces_done : FileStart[f] + o \notin PieceBytes(p)

(* Every step keeps what is done on disk.                                  *)
LEMMA OnDiskStep ==
  ASSUME BInv, OnDisk, [OutputNext]_outputVars
  PROVE  OnDisk'
<1>1. use_tar' \in BOOLEAN
  BY OutputSteps DEF OnDisk
<1>2. io_failed' \in BOOLEAN
  BY OutputSteps DEF OnDisk, storage_write, storage_close
<1>3. ASSUME ~use_tar', ~io_failed', NEW f \in Files, NEW o \in Offsets(f)
      PROVE  \/ disk'[f][o] = FileStart[f] + o
             \/ \A p \in pieces_done' : FileStart[f] + o \notin PieceBytes(p)
  <2>1. ~use_tar
    BY <1>3, OutputSteps
  <2>2. ~io_failed => \/ disk[f][o] = FileStart[f] + o
                      \/ \A p \in pieces_done : FileStart[f] + o \notin PieceBytes(p)
    BY <2>1 DEF OnDisk
  <2>3. CASE i \in Pieces /\ AcceptPiece /\ storage_write(i)
    <3>1. i \in Nat /\ pieces_done' = pieces_done \cup {i}
      BY <2>3, ParametersAssumption DEF Pieces, AcceptPiece
    <3>2. /\ \/ disk'[f][o] = disk[f][o]
             \/ disk'[f][o] = FileStart[f] + o
          /\ ~io_failed
          /\ FileStart[f] + o \in PieceBytes(i) => disk'[f][o] = FileStart[f] + o
      BY <1>3, <2>3, <3>1, ByteWritten
    <3> QED BY <2>2, <3>1, <3>2
  <2>4. CASE UNCHANGED result /\ UNCHANGED <<disk, io_failed>>
    BY <1>3, <2>2, <2>4 DEF result
  <2>5. CASE UNCHANGED result /\ storage_close
    BY <1>3, <2>2, <2>5, ByteClosed DEF result
  <2> QED BY <2>1, <2>3, <2>4, <2>5, OutputSteps
<1> QED BY <1>1, <1>2, <1>3 DEF OnDisk

(* With no piece left every piece is done.                                 *)
LEMMA NoneLeft ==
  ASSUME BInv, NEW p \in Pieces, p \notin pieces_done
  PROVE  pieces_left > 0
<1>1. IsFiniteSet(Pieces) /\ Cardinality(Pieces) = NumPieces
  <2>1. 0 \in Int /\ NumPieces - 1 \in Int
    BY ParametersAssumption
  <2>2. /\ IsFiniteSet(0 .. NumPieces - 1)
        /\ Cardinality(0 .. NumPieces - 1)
             = IF 0 > NumPieces - 1 THEN 0 ELSE (NumPieces - 1) - 0 + 1
    BY <2>1, FS_Interval
  <2> QED BY <2>2, ParametersAssumption DEF Pieces
<1>2. pieces_done \subseteq Pieces /\ pieces_done # Pieces
  BY DEF BInv, TypeOK
<1>3. Cardinality(pieces_done) \in Nat /\ Cardinality(pieces_done) < NumPieces
  <2>1. IsFiniteSet(pieces_done)
    BY <1>1, <1>2, FS_Subset
  <2>2. Cardinality(pieces_done) \in Nat
    BY <2>1, FS_CardinalityType
  <2>3. /\ Cardinality(pieces_done) <= Cardinality(Pieces)
        /\ Cardinality(Pieces) # Cardinality(pieces_done)
    BY <1>1, <1>2, FS_Subset
  <2> QED BY <1>1, <2>2, <2>3, ParametersAssumption
<1>4. pieces_left = NumPieces - Cardinality(pieces_done)
  BY DEF BInv, BookkeepingAgrees
<1> QED BY <1>3, <1>4, ParametersAssumption

(* Unless a write failed, what the bitmap calls done is on disk, across    *)
(* all the files a piece touches; and when the number of hashes fits the   *)
(* lengths and no piece is left, every byte of every file is.              *)
THEOREM DoneIsOnDiskHolds == OutputSpec => []DoneIsOnDisk
<1>1. OutputInit => BInv /\ OnDisk
  <2> SUFFICES ASSUME OutputInit PROVE BInv /\ OnDisk
    OBVIOUS
  <2>1. BInv
    BY BInvInit DEF OutputInit
  <2>2. OnDisk
    BY DEF OutputInit, setup_output_context, StorageInit, OnDisk, Init
  <2> QED BY <2>1, <2>2
<1>2. BInv /\ OnDisk /\ [OutputNext]_outputVars => BInv' /\ OnDisk'
  <2> SUFFICES ASSUME BInv, OnDisk, [OutputNext]_outputVars PROVE BInv' /\ OnDisk'
    OBVIOUS
  <2>1. BInv'
    BY OutputSteps, BInvStep
  <2> QED BY <2>1, OnDiskStep
<1>3. BInv /\ OnDisk => DoneIsOnDisk
  <2> SUFFICES ASSUME BInv, OnDisk, ~use_tar, ~io_failed,
                      NEW f \in Files, NEW o \in Offsets(f),
                      \A p \in pieces_done : FileStart[f] + o \notin PieceBytes(p),
                      MetadataConsistent
               PROVE  pieces_left > 0
    BY DEF OnDisk, DoneIsOnDisk
  <2>1. FileStart[f] + o \in Nat /\ FileStart[f] + o < total_length
    <3>1. /\ f \in 1 .. FileCount + 1 /\ FileStart[f] \in Nat /\ FileLengths[f] \in Nat
      <4>1. f \in 1 .. FileCount + 1 /\ FileCount \in Nat
        BY FileStartEquation DEF Files, FileCount
      <4> QED BY <4>1, FileStartEquation, FileStartsInOrder
    <3>2. FileEnd(f) <= total_length /\ total_length \in Nat
      BY FileStartsInOrder
    <3> QED BY <3>1, <3>2 DEF FileEnd, Offsets
  <2>2. PICK p \in 0 .. PieceTotal - 1 : FileStart[f] + o \in PieceBytes(p)
    BY <2>1, PiecesCoverStream
  <2>3. p \in Pieces /\ p \notin pieces_done
    BY <2>2, SamePiecesAssumption DEF Pieces
  <2> QED BY <2>3, NoneLeft
<1> QED BY <1>1, <1>2, <1>3, PTL DEF OutputSpec

-----------------------------------------------------------------------------
(* Cells, and sequences of them.                                           *)
Tag == {"hdr", "data", "pad", "end"}
Cell == Tag \X Int

(* Equal cells: how many, and each of them.                                *)
LEMMA CellsAre ==
  ASSUME NEW n \in Nat, NEW c \in Cell
  PROVE  /\ Cells(n, c) \in Seq(Cell) /\ Len(Cells(n, c)) = n
         /\ \A k \in 1 .. n : Cells(n, c)[k] = c
<1> HIDE DEF Cell
<1> QED BY DEF Cells

(* Data cells name consecutive bytes.                                      *)
LEMMA DataAre ==
  ASSUME NEW from \in Nat, NEW to \in Nat, from <= to
  PROVE  /\ Data(from, to) \in Seq(Cell) /\ Len(Data(from, to)) = to - from
         /\ \A k \in 1 .. to - from : Data(from, to)[k] = <<"data", from + k - 1>>
<1> DEFINE c(k) == <<"data", from + k - 1>>
<1>1. to - from \in Nat /\ \A k \in 1 .. to - from : c(k) \in Cell
  <2>1. "data" \in Tag
    BY DEF Tag
  <2> QED BY <2>1 DEF Cell
<1>2. Data(from, to) = [k \in 1 .. to - from |-> c(k)]
  BY DEF Data
<1> HIDE DEF c, Cell
<1>3. /\ Data(from, to) \in Seq(Cell) /\ Len(Data(from, to)) = to - from
      /\ \A k \in 1 .. to - from : Data(from, to)[k] = c(k)
  BY <1>1, <1>2
<1> QED BY <1>3 DEF c

(* One sequence of cells after another.                                    *)
LEMMA Joined ==
  ASSUME NEW a \in Seq(Cell), NEW b \in Seq(Cell)
  PROVE  /\ a \o b \in Seq(Cell) /\ Len(a) \in Nat /\ Len(b) \in Nat
         /\ Len(a \o b) = Len(a) + Len(b)
         /\ \A k \in 1 .. Len(a) : (a \o b)[k] = a[k]
         /\ \A k \in 1 .. Len(b) : (a \o b)[Len(a) + k] = b[k]
<1> HIDE DEF Cell
<1> QED OBVIOUS

(* The kinds of cells the writer uses.                                     *)
LEMMA Tags ==
  /\ \A f \in Int : <<"hdr", f>> \in Cell
  /\ <<"pad", 0>> \in Cell /\ <<"end", 0>> \in Cell
<1>1. "hdr" \in Tag /\ "pad" \in Tag /\ "end" \in Tag
  BY DEF Tag
<1> QED BY <1>1 DEF Cell

-----------------------------------------------------------------------------
(* An archive carries the bytes of S, each of them once.                   *)
Carries(a, S) ==
  /\ a \in Seq(Cell)
  /\ DataIn(a) = S
  /\ \A j, k \in DataCells(a) : a[j] = a[k] => j = k

(* A data cell is the mark and the byte.                                   *)
LEMMA CellOfData ==
  ASSUME NEW a \in Seq(Cell), NEW k \in DataCells(a)
  PROVE  k \in 1 .. Len(a) /\ a[k][1] = "data" /\ a[k] = <<"data", a[k][2]>> /\ a[k][2] \in DataIn(a)
<1>1. k \in 1 .. Len(a) /\ a[k][1] = "data" /\ a[k] \in Cell
  <2>1. DOMAIN a = 1 .. Len(a) /\ k \in DOMAIN a /\ a[k][1] = "data"
    BY DEF DataCells
  <2> HIDE DEF Cell
  <2> QED BY <2>1
<1>2. a[k] = <<a[k][1], a[k][2]>>
  BY <1>1 DEF Cell
<1> QED BY <1>1, <1>2 DEF DataIn

(* Bytes apart from each other stay single when archives are joined.       *)
LEMMA CarriesBoth ==
  ASSUME NEW a, NEW b, NEW S, NEW T, Carries(a, S), Carries(b, T), S \cap T = {}
  PROVE  Carries(a \o b, S \cup T)
<1> DEFINE c == a \o b
           n == Len(a)
<1>0. a \in Seq(Cell) /\ b \in Seq(Cell)
  BY DEF Carries
<1>1. /\ c \in Seq(Cell) /\ n \in Nat /\ Len(b) \in Nat /\ Len(c) = n + Len(b)
      /\ DOMAIN a = 1 .. n /\ DOMAIN b = 1 .. Len(b) /\ DOMAIN c = 1 .. n + Len(b)
      /\ \A k \in 1 .. n : c[k] = a[k]
      /\ \A k \in 1 .. Len(b) : c[n + k] = b[k]
  <2>1. /\ c \in Seq(Cell) /\ n \in Nat /\ Len(b) \in Nat /\ Len(c) = n + Len(b)
        /\ \A k \in 1 .. n : c[k] = a[k]
        /\ \A k \in 1 .. Len(b) : c[n + k] = b[k]
    BY <1>0, Joined
  <2> HIDE DEF Cell, c, n
  <2>2. DOMAIN c = 1 .. Len(c)
    BY <2>1
  <2>3. DOMAIN a = 1 .. n /\ DOMAIN b = 1 .. Len(b)
    BY <1>0 DEF n
  <2> QED BY <2>1, <2>2, <2>3
<1> HIDE DEF c, n
<1>2. ASSUME NEW k \in DataCells(c)
      PROVE  \/ k \in 1 .. n /\ k \in DataCells(a) /\ c[k] = a[k]
             \/ k - n \in 1 .. Len(b) /\ k - n \in DataCells(b) /\ c[k] = b[k - n]
  <2>1. k \in 1 .. n + Len(b) /\ c[k][1] = "data"
    BY <1>1 DEF DataCells
  <2>2. CASE k \in 1 .. n
    BY <1>1, <2>1, <2>2 DEF DataCells
  <2>3. CASE k \notin 1 .. n
    <3>1. k - n \in 1 .. Len(b) /\ n + (k - n) = k
      BY <1>1, <2>1, <2>3
    <3>2. c[n + (k - n)] = b[k - n]
      BY <1>1, <3>1
    <3>3. c[k] = b[k - n]
      BY <3>1, <3>2
    <3> QED BY <1>1, <2>1, <3>1, <3>3 DEF DataCells
  <2> QED BY <2>2, <2>3
<1>3. ASSUME NEW k \in DataCells(a) PROVE k \in DataCells(c) /\ c[k] = a[k]
  BY <1>1 DEF DataCells
<1>4. ASSUME NEW k \in DataCells(b) PROVE n + k \in DataCells(c) /\ c[n + k] = b[k]
  <2>1. k \in 1 .. Len(b) /\ b[k][1] = "data"
    BY <1>1 DEF DataCells
  <2>2. n + k \in 1 .. n + Len(b) /\ c[n + k] = b[k]
    BY <1>1, <2>1
  <2> QED BY <1>1, <2>1, <2>2 DEF DataCells
<1>5. DataIn(c) = S \cup T
  <2>1. ASSUME NEW x \in DataIn(c) PROVE x \in S \cup T
    <3>1. PICK k \in DataCells(c) : x = c[k][2]
      BY <2>1 DEF DataIn
    <3>2. CASE k \in DataCells(a) /\ c[k] = a[k]
      BY <3>1, <3>2 DEF DataIn, Carries
    <3>3. CASE k - n \in DataCells(b) /\ c[k] = b[k - n]
      BY <3>1, <3>3 DEF DataIn, Carries
    <3> QED BY <1>2, <3>1, <3>2, <3>3
  <2>2. ASSUME NEW x \in S PROVE x \in DataIn(c)
    <3>1. PICK k \in DataCells(a) : x = a[k][2]
      BY <2>2 DEF DataIn, Carries
    <3> QED BY <1>3, <3>1 DEF DataIn
  <2>3. ASSUME NEW x \in T PROVE x \in DataIn(c)
    <3>1. PICK k \in DataCells(b) : x = b[k][2]
      BY <2>3 DEF DataIn, Carries
    <3> QED BY <1>4, <3>1 DEF DataIn
  <2> QED BY <2>1, <2>2, <2>3
<1>6. ASSUME NEW j \in DataCells(c), NEW k \in DataCells(c), c[j] = c[k] PROVE j = k
  <2>1. ASSUME NEW u \in DataCells(a), NEW v \in DataCells(b) PROVE a[u] # b[v]
    BY <1>0, CellOfData DEF Carries, DataIn
  <2>2. \A u, v \in DataCells(a) : a[u] = a[v] => u = v
    BY DEF Carries
  <2>3. \A u, v \in DataCells(b) : b[u] = b[v] => u = v
    BY DEF Carries
  <2>4. j \in Int /\ k \in Int
    <3>1. DataCells(c) \subseteq 1 .. n + Len(b)
      BY <1>1 DEF DataCells
    <3> QED BY <3>1
  <2>5. CASE j \in DataCells(a) /\ c[j] = a[j] /\ k \in DataCells(a) /\ c[k] = a[k]
    BY <1>6, <2>2, <2>5
  <2>6. CASE j \in DataCells(a) /\ c[j] = a[j] /\ k - n \in DataCells(b) /\ c[k] = b[k - n]
    BY <1>6, <2>1, <2>6
  <2>7. CASE j - n \in DataCells(b) /\ c[j] = b[j - n] /\ k \in DataCells(a) /\ c[k] = a[k]
    BY <1>6, <2>1, <2>7
  <2>8. CASE j - n \in DataCells(b) /\ c[j] = b[j - n] /\ k - n \in DataCells(b) /\ c[k] = b[k - n]
    <3>1. j - n = k - n
      BY <1>6, <2>3, <2>8
    <3> QED BY <1>1, <2>4, <3>1
  <2> QED BY <1>2, <2>5, <2>6, <2>7, <2>8
<1>7. c \in Seq(Cell)
  BY <1>1
<1> QED BY <1>5, <1>6, <1>7 DEF Carries, c

(* Cells without data carry no byte.                                       *)
LEMMA CarriesNone ==
  ASSUME NEW b \in Seq(Cell), \A k \in 1 .. Len(b) : b[k][1] # "data"
  PROVE  Carries(b, {})
<1>1. DataCells(b) = {}
  <2>1. DOMAIN b = 1 .. Len(b)
    <3> HIDE DEF Cell
    <3> QED OBVIOUS
  <2> QED BY <2>1 DEF DataCells
<1>2. DataIn(b) = {}
  BY <1>1 DEF DataIn
<1> QED BY <1>1, <1>2 DEF Carries

(* Data cells carry their range, each byte once.                           *)
LEMMA CarriesData ==
  ASSUME NEW from \in Nat, NEW to \in Nat, from <= to
  PROVE  Carries(Data(from, to), from .. to - 1)
<1> DEFINE d == Data(from, to)
<1>1. /\ d \in Seq(Cell) /\ DOMAIN d = 1 .. to - from
      /\ \A k \in 1 .. to - from : d[k] = <<"data", from + k - 1>>
  <2>1. /\ d \in Seq(Cell) /\ Len(d) = to - from
        /\ \A k \in 1 .. to - from : d[k] = <<"data", from + k - 1>>
    BY DataAre
  <2> HIDE DEF d, Cell
  <2>2. DOMAIN d = 1 .. Len(d)
    BY <2>1
  <2> QED BY <2>1, <2>2
<1> HIDE DEF d
<1>2. ASSUME NEW k \in 1 .. to - from PROVE d[k][1] = "data" /\ d[k][2] = from + k - 1
  BY <1>1
<1>3. DataCells(d) = 1 .. to - from
  BY <1>1, <1>2 DEF DataCells
<1>4. DataIn(d) = from .. to - 1
  <2>1. ASSUME NEW x \in DataIn(d) PROVE x \in from .. to - 1
    <3>1. PICK k \in 1 .. to - from : x = d[k][2]
      BY <1>3, <2>1 DEF DataIn
    <3>2. x = from + k - 1
      BY <1>2, <3>1
    <3> QED BY <3>2
  <2>2. ASSUME NEW x \in from .. to - 1 PROVE x \in DataIn(d)
    <3>1. x - from + 1 \in 1 .. to - from
      OBVIOUS
    <3>2. d[x - from + 1][2] = x
      BY <1>2, <3>1
    <3> QED BY <1>3, <3>1, <3>2 DEF DataIn
  <2> QED BY <2>1, <2>2
<1>5. ASSUME NEW j \in DataCells(d), NEW k \in DataCells(d), d[j] = d[k] PROVE j = k
  <2>1. j \in 1 .. to - from /\ k \in 1 .. to - from /\ d[j][2] = d[k][2]
    BY <1>3, <1>5
  <2>2. from + j - 1 = from + k - 1
    BY <1>2, <2>1
  <2> QED BY <2>1, <2>2
<1> QED BY <1>1, <1>4, <1>5 DEF Carries, d

(* A multiple leaves nothing.                                              *)
LEMMA Multiple ==
  ASSUME NEW d \in Nat \ {0}, NEW k \in Nat
  PROVE  (d * k) % d = 0
<1> DEFINE a == d * k
           q == a \div d
           r == a % d
<1>1. a \in Nat
  OBVIOUS
<1>2. q = k
  <2>1. 0 \in 0 .. d - 1 /\ a = d * k + 0
    BY <1>1
  <2>2. (d * k + 0) \div d = k
    BY <2>1, Quotient
  <2> QED BY <1>1, <2>2
<1> HIDE DEF a
<1>3. q \in Nat /\ r \in 0 .. d - 1 /\ a = d * q + r
  BY <1>1, Division
<1> HIDE DEF q, r
<1>4. d * q = d * k
  BY <1>2
<1> QED BY <1>1, <1>3, <1>4 DEF a, r

(* Padding is some cells of padding, up to a whole number of blocks.       *)
LEMMA PaddingIs ==
  ASSUME NEW a \in Seq(Cell)
  PROVE  \E n \in Nat : /\ write_padding(a) = a \o Cells(n, <<"pad", 0>>)
                        /\ (Len(a) + n) % TarBlock = 0
<1> DEFINE d == TarBlock
           r == Len(a) % d
           n == (d - r) % d
           q == Len(a) \div d
<1>1. d \in Nat \ {0} /\ Len(a) \in Nat
  <2> HIDE DEF Cell
  <2> QED BY TarBlockAssumption
<1> HIDE DEF d
<1>2. r \in 0 .. d - 1 /\ q \in Nat /\ Len(a) = d * q + r /\ d * q \in Nat
  <2>1. r \in 0 .. d - 1 /\ q \in Nat /\ Len(a) = d * q + r
    BY <1>1, Division
  <2> HIDE DEF q
  <2>2. d * q \in Nat
    BY <1>1, <2>1
  <2> QED BY <2>1, <2>2
<1>3. write_padding(a) = a \o Cells(n, <<"pad", 0>>)
  BY DEF write_padding, d
<1> HIDE DEF r, q
<1>4. n \in Nat /\ \E k \in Nat : Len(a) + n = d * k
  <2>1. CASE r = 0
    <3>1. n = 0
      <4>1. d - r = d * 1 + 0 /\ d - r \in Nat
        BY <1>1, <2>1
      <4>2. d % d = 0
        BY <1>1, Z3
      <4> QED BY <1>1, <2>1, <4>2
    <3>2. Len(a) + n = d * q
      BY <1>1, <1>2, <2>1, <3>1
    <3> QED BY <1>2, <3>1, <3>2
  <2>2. CASE r # 0
    <3>1. d - r \in 0 .. d - 1
      BY <1>1, <1>2, <2>2
    <3>2. n = d - r
      BY <1>1, <3>1
    <3>3. d * (q + 1) = d * q + d /\ q + 1 \in Nat
      BY <1>1, <1>2, Products
    <3>4. Len(a) + n = d * (q + 1) /\ n \in Nat
      BY <1>1, <1>2, <3>1, <3>2, <3>3
    <3> QED BY <3>3, <3>4
  <2> QED BY <2>1, <2>2
<1> HIDE DEF n
<1>5. PICK k \in Nat : Len(a) + n = d * k
  BY <1>4
<1>6. (d * k) % d = 0
  BY <1>1, <1>5, Multiple
<1>7. (Len(a) + n) % TarBlock = 0
  BY <1>5, <1>6 DEF d
<1> QED BY <1>3, <1>4, <1>7

(* Where file f lies in the stream, and what piece p has of it.            *)
LEMMA FileFacts ==
  ASSUME NEW f \in Files
  PROVE  /\ f \in 1 .. FileCount /\ f \in Int /\ f - 1 \in 0 .. FileCount
         /\ FileStart[f] \in Nat /\ FileLengths[f] \in Nat /\ FileEnd(f) \in Nat
         /\ FileEnd(f) = FileStart[f + 1] /\ FileEnd(f) = FileStart[f] + FileLengths[f]
         /\ FileEnd(f) <= total_length
<1>1. f \in 1 .. FileCount + 1 /\ FileCount \in Nat /\ f \in 1 .. FileCount
  BY FileStartEquation DEF Files, FileCount
<1> QED BY <1>1, FileStartEquation, FileStartsInOrder DEF FileEnd

(* The overlap is the set of the bytes of the piece that the file has.     *)
LEMMA OverlapFacts ==
  ASSUME NEW p \in Nat, NEW f \in Files
  PROVE  LET from == Overlap(p, f).from
             to == Overlap(p, f).to
         IN  /\ from \in Nat /\ to \in Nat /\ to <= FileEnd(f) /\ FileStart[f] <= from
             /\ from .. to - 1 =
                  {x \in PieceBytes(p) : FileStart[f] <= x /\ x < FileStart[f + 1]}
<1> DEFINE ps == PieceStart(p)
           pe == PieceStart(p) + piece_size(p)
           fs == FileStart[f]
           fe == FileStart[f + 1]
           from == Overlap(p, f).from
           to == Overlap(p, f).to
<1>1. ps \in Nat /\ pe \in Nat /\ fs \in Nat /\ fe \in Nat /\ FileEnd(f) = fe
  BY PieceFacts, FileFacts
<1>2. /\ from = IF ps > fs THEN ps ELSE fs
      /\ to = IF pe < fe THEN pe ELSE fe
  BY <1>1 DEF Overlap, Greatest, Least
<1>3. PieceBytes(p) = ps .. pe - 1
  BY <1>1, PieceFacts, SMTT(30) DEF PieceBytes
<1> HIDE DEF ps, pe, fs, fe, from, to
<1>4. from \in Nat /\ to \in Nat /\ to <= fe /\ fs <= from
  BY <1>1, <1>2
<1>5. ASSUME NEW x
      PROVE  x \in from .. to - 1 <=> x \in ps .. pe - 1 /\ fs <= x /\ x < fe
  BY <1>1, <1>2
<1>6. from .. to - 1 = {x \in ps .. pe - 1 : fs <= x /\ x < fe}
  BY <1>5
<1> QED BY <1>1, <1>3, <1>4, <1>6 DEF fs, fe, from, to

Writer == [archive : Seq(Cell), file : 0 .. FileCount, written : Nat]

(* What the writer appends to the archive for its part of a file.          *)
LEMMA FragmentWritten ==
  ASSUME NEW w \in Writer, NEW p \in Nat, NEW f \in Files
  PROVE  LET from == Overlap(p, f).from
             to == Overlap(p, f).to
             new == WriteFragment(w, p, f)
             entered == IF w.file = f THEN w.archive ELSE w.archive \o Header(f)
             before == IF w.file = f THEN w.written ELSE 0
             filled == entered \o Data(from, to)
         IN  /\ ~(from < to) => new = w
             /\ from < to =>
                  /\ new.archive = IF to = FileEnd(f) THEN write_padding(filled) ELSE filled
                  /\ new.file = f /\ new.written = before + (to - from)
                  /\ entered \in Seq(Cell) /\ filled \in Seq(Cell)
             /\ new \in Writer
<1> DEFINE from == Overlap(p, f).from
           to == Overlap(p, f).to
           new == WriteFragment(w, p, f)
           entered == IF w.file = f THEN w.archive ELSE w.archive \o Header(f)
           before == IF w.file = f THEN w.written ELSE 0
           filled == entered \o Data(from, to)
           e == EnterFile(w, f)
           full == [archive |-> e.archive \o Data(from, to), file |-> f,
                    written |-> e.written + (to - from)]
<1>0. from \in Nat /\ to \in Nat /\ f \in 0 .. FileCount /\ f \in Int
  BY OverlapFacts, FileFacts
<1>1. ASSUME ~(from < to) PROVE new = w
  BY <1>1 DEF WriteFragment
<1>2. ASSUME from < to
      PROVE  /\ new.archive = IF to = FileEnd(f) THEN write_padding(filled) ELSE filled
             /\ new.file = f /\ new.written = before + (to - from)
             /\ entered \in Seq(Cell) /\ filled \in Seq(Cell)
             /\ new \in Writer
  <2>1. new = LeaveFile(full, f, to)
    BY <1>2 DEF WriteFragment
  <2>2. w.archive \in Seq(Cell) /\ w.file \in 0 .. FileCount /\ w.written \in Nat
    <3> HIDE DEF Cell
    <3> QED BY DEF Writer
  <2>3. entered \in Seq(Cell) /\ before \in Nat
    <3>1. Header(f) \in Seq(Cell)
      BY <1>0, Tags, CellsAre, TarBlockAssumption DEF Header
    <3>2. w.archive \o Header(f) \in Seq(Cell)
      BY <2>2, <3>1, Joined
    <3> QED BY <2>2, <3>2
  <2>4. e = [archive |-> entered, file |-> f, written |-> before]
    <3>1. CASE w.file = f
      <4>1. w = [archive |-> w.archive, file |-> w.file, written |-> w.written]
        BY DEF Writer
      <4> QED BY <3>1, <4>1 DEF EnterFile
    <3>2. CASE w.file # f
      BY <3>2 DEF EnterFile
    <3> QED BY <3>1, <3>2
  <2> HIDE DEF e, entered, before, from, to
  <2>5. full = [archive |-> filled, file |-> f, written |-> before + (to - from)]
    <3>1. e.archive = entered /\ e.written = before
      BY <2>4
    <3> QED BY <3>1, Zenon
  <2>6. filled \in Seq(Cell)
    <3>1. Data(from, to) \in Seq(Cell)
      <4>1. from <= to
        BY <1>0, <1>2
      <4> QED BY <1>0, <4>1, DataAre
    <3> QED BY <2>3, <3>1, Joined
  <2>7. write_padding(filled) \in Seq(Cell)
    <3>1. PICK n \in Nat : write_padding(filled) = filled \o Cells(n, <<"pad", 0>>)
      BY <2>6, PaddingIs
    <3>2. Cells(n, <<"pad", 0>>) \in Seq(Cell)
      BY Tags, CellsAre
    <3> QED BY <2>6, <3>1, <3>2, Joined
  <2> DEFINE last == IF to = FileEnd(f) THEN write_padding(filled) ELSE filled
  <2>8. new = [archive |-> last, file |-> f, written |-> before + (to - from)]
    <3> HIDE DEF filled, full
    <3> QED BY <2>1, <2>5 DEF LeaveFile
  <2>9. last \in Seq(Cell)
    BY <2>6, <2>7
  <2>10. before + (to - from) \in Nat
    BY <1>0, <1>2, <2>3
  <2> HIDE DEF last
  <2>11. new \in Writer
    BY <1>0, <2>8, <2>9, <2>10 DEF Writer
  <2>12. new.archive = last /\ new.file = f /\ new.written = before + (to - from)
    BY <2>8
  <2> QED BY <2>3, <2>6, <2>11, <2>12 DEF last
<1>3. new \in Writer
  BY <1>1, <1>2
<1> QED BY <1>1, <1>2, <1>3

(* A pass over the files is one fragment after the other.                  *)
Pass(g, w, p) ==
  /\ g[0] = w /\ AfterPass(w, p) = g[FileCount]
  /\ \A k \in 0 .. FileCount : g[k] \in Writer
  /\ \A f \in Files : g[f] = WriteFragment(g[f - 1], p, f)

(* The pass exists and is the one of the model.                            *)
LEMMA PassIs ==
  ASSUME NEW w \in Writer, NEW p \in Nat
  PROVE  \E g : Pass(g, w, p)
<1> DEFINE n == FileCount
           Eqn(s) == s = [k \in 0 .. n |-> IF k = 0 THEN w ELSE WriteFragment(s[k - 1], p, k)]
           h == [x \in (1 .. n) \X Writer |-> WriteFragment(x[2], p, x[1])]
           at == CHOOSE s : Eqn(s)
<1>1. n \in Nat /\ Files = 1 .. n
  BY FileStartEquation DEF Files, FileCount
<1>2. \A k \in 1 .. n, v \in Writer : WriteFragment(v, p, k) \in Writer
  BY <1>1, FragmentWritten
<1>3. /\ h \in [(1 .. n) \X Writer -> Writer]
      /\ \A k \in 1 .. n, v \in Writer : h[<<k, v>>] = WriteFragment(v, p, k)
  <2> HIDE DEF Writer
  <2> QED BY <1>2
<1> HIDE DEF n, h
<1>4. \E g : Recursion(g, n, Writer, w, h)
  BY <1>1, <1>3, RecursionExists DEF Steps
<1>5. PICK g : g \in [0 .. n -> Writer] /\ g[0] = w /\ \A k \in 1 .. n : g[k] = h[<<k, g[k - 1]>>]
  BY <1>4 DEF Recursion
<1>6. ASSUME NEW k \in 1 .. n PROVE g[k] = WriteFragment(g[k - 1], p, k)
  <2>1. g[k - 1] \in Writer
    BY <1>1, <1>5
  <2> QED BY <1>3, <1>5, <2>1
<1>7. Eqn(g)
  <2>1. ASSUME NEW k \in 0 .. n
        PROVE  g[k] = IF k = 0 THEN w ELSE WriteFragment(g[k - 1], p, k)
    <3>1. CASE k = 0
      BY <1>5, <3>1
    <3>2. CASE k # 0
      <4>1. k \in 1 .. n
        BY <1>1, <3>2
      <4> QED BY <1>6, <3>2, <4>1
    <3> QED BY <3>1, <3>2
  <2>2. g = [k \in 0 .. n |-> g[k]]
    BY <1>5
  <2> QED BY <2>1, <2>2
<1>8. AfterPass(w, p) = at[n]
  BY DEF AfterPass, n, FileCount
<1> HIDE DEF Eqn
<1>9. Eqn(at)
  BY <1>7
<1> HIDE DEF at
<1>10. at[0] = w /\ \A k \in 1 .. n : at[k] = WriteFragment(at[k - 1], p, k)
  <2>1. at[0] = w
    <3>1. 0 \in 0 .. n
      BY <1>1
    <3> QED BY <1>9, <3>1 DEF Eqn
  <2>2. ASSUME NEW k \in 1 .. n PROVE at[k] = WriteFragment(at[k - 1], p, k)
    <3>1. k \in 0 .. n /\ k # 0
      BY <1>1
    <3> QED BY <1>9, <3>1 DEF Eqn
  <2> QED BY <2>1, <2>2
<1> DEFINE T == {k \in Nat : k <= n => at[k] \in Writer}
<1>11. 0 \in T
  BY <1>10
<1>12. ASSUME NEW k \in Nat, k \in T PROVE k + 1 \in T
  <2> SUFFICES ASSUME k + 1 <= n PROVE at[k + 1] \in Writer
    OBVIOUS
  <2>1. k + 1 \in 1 .. n /\ (k + 1) - 1 = k /\ k <= n
    BY <1>1
  <2>2. at[k + 1] = WriteFragment(at[k], p, k + 1)
    BY <1>10, <2>1
  <2> QED BY <1>2, <1>12, <2>1, <2>2
<1> HIDE DEF T
<1>13. \A k \in Nat : k \in T
  BY <1>11, <1>12, NatInductionSet
<1>14. \A k \in 0 .. n : at[k] \in Writer
  BY <1>1, <1>13 DEF T
<1>15. Pass(at, w, p)
  BY <1>1, <1>8, <1>10, <1>14 DEF Pass, n
<1> QED BY <1>15

(* Cells of one kind that is not data carry nothing.                       *)
LEMMA CarriesMore ==
  ASSUME NEW a, NEW S, Carries(a, S), NEW n \in Nat, NEW c \in Cell, c[1] # "data"
  PROVE  Carries(a \o Cells(n, c), S)
<1>1. /\ Cells(n, c) \in Seq(Cell) /\ Len(Cells(n, c)) = n
      /\ \A k \in 1 .. n : Cells(n, c)[k] = c
  BY CellsAre
<1>2. Carries(Cells(n, c), {})
  BY <1>1, CarriesNone
<1>3. S \cap {} = {} /\ S \cup {} = S
  OBVIOUS
<1>4. Carries(a \o Cells(n, c), S \cup {})
  BY <1>2, <1>3, CarriesBoth
<1> QED BY <1>3, <1>4

(* Padding carries nothing.                                                *)
LEMMA CarriesPadding ==
  ASSUME NEW a, NEW S, Carries(a, S)
  PROVE  Carries(write_padding(a), S)
<1>1. PICK n \in Nat : write_padding(a) = a \o Cells(n, <<"pad", 0>>)
  BY PaddingIs DEF Carries
<1>2. <<"pad", 0>> \in Cell /\ <<"pad", 0>>[1] # "data"
  BY Tags
<1> QED BY <1>1, <1>2, CarriesMore

(* A fragment adds the bytes of the piece that lie in the file.            *)
LEMMA FragmentCarries ==
  ASSUME NEW w \in Writer, NEW p \in Nat, NEW f \in Files, NEW S,
         Carries(w.archive, S),
         \A x \in PieceBytes(p) : FileStart[f] <= x => x \notin S
  PROVE  Carries(WriteFragment(w, p, f).archive,
                 S \cup {x \in PieceBytes(p) : FileStart[f] <= x /\ x < FileStart[f + 1]})
<1> DEFINE from == Overlap(p, f).from
           to == Overlap(p, f).to
           new == WriteFragment(w, p, f)
           entered == IF w.file = f THEN w.archive ELSE w.archive \o Header(f)
           filled == entered \o Data(from, to)
           B == {x \in PieceBytes(p) : FileStart[f] <= x /\ x < FileStart[f + 1]}
<1>1. from \in Nat /\ to \in Nat /\ from .. to - 1 = B
  BY OverlapFacts
<1>2. /\ ~(from < to) => new = w
      /\ from < to => new.archive = IF to = FileEnd(f) THEN write_padding(filled) ELSE filled
  BY FragmentWritten
<1>3. S \cap B = {}
  OBVIOUS
<1> HIDE DEF from, to, new, B
<1>4. CASE ~(from < to)
  <2>1. B = {}
    BY <1>1, <1>4
  <2>2. S \cup B = S
    BY <2>1
  <2> QED BY <1>2, <1>4, <2>2 DEF new, B
<1>5. CASE from < to
  <2>1. Carries(entered, S)
    <3>1. Carries(w.archive \o Header(f), S)
      <4>1. <<"hdr", f>> \in Cell /\ <<"hdr", f>>[1] # "data"
        BY FileFacts, Tags
      <4> QED BY <4>1, CarriesMore, TarBlockAssumption DEF Header
    <3> QED BY <3>1
  <2> HIDE DEF entered
  <2>2. Carries(Data(from, to), B)
    <3>1. from <= to
      BY <1>1, <1>5
    <3>2. Carries(Data(from, to), from .. to - 1)
      BY <1>1, <3>1, CarriesData
    <3> QED BY <1>1, <3>2
  <2>3. Carries(filled, S \cup B)
    BY <1>3, <2>1, <2>2, CarriesBoth
  <2> HIDE DEF filled
  <2>4. Carries(new.archive, S \cup B)
    BY <1>2, <1>5, <2>3, CarriesPadding
  <2> QED BY <2>4 DEF new, B
<1> QED BY <1>4, <1>5

(* A pass adds the bytes of the piece that lie in the stream.              *)
LEMMA PassCarries ==
  ASSUME NEW w \in Writer, NEW p \in Nat, NEW S,
         Carries(w.archive, S), S \cap PieceBytes(p) = {}
  PROVE  /\ AfterPass(w, p) \in Writer
         /\ Carries(AfterPass(w, p).archive, S \cup {x \in PieceBytes(p) : x < total_length})
<1>1. PICK g : Pass(g, w, p)
  BY PassIs
<1> DEFINE n == FileCount
           B(k) == {x \in PieceBytes(p) : x < FileStart[k + 1]}
           T == {k \in Nat : k <= n => Carries(g[k].archive, S \cup B(k))}
<1>2. n \in Nat /\ Files = 1 .. n /\ \A k \in 0 .. n : g[k] \in Writer
  BY <1>1, FileStartEquation DEF Files, FileCount, Pass
<1> HIDE DEF n
<1>3. \A x \in PieceBytes(p) : x \in Nat
  <2>1. PieceStart(p) \in Nat /\ piece_size(p) \in Nat
    BY PieceFacts
  <2> QED BY <2>1 DEF PieceBytes
<1>4. 0 \in T
  <2>1. B(0) = {}
    BY <1>3, FileStartEquation
  <2>2. S \cup B(0) = S
    BY <2>1
  <2> HIDE DEF B
  <2>3. g[0] = w
    BY <1>1 DEF Pass
  <2> QED BY <2>2, <2>3
<1>5. ASSUME NEW k \in Nat, k \in T PROVE k + 1 \in T
  <2> SUFFICES ASSUME k + 1 <= n PROVE Carries(g[k + 1].archive, S \cup B(k + 1))
    OBVIOUS
  <2> DEFINE f == k + 1
             A == {x \in PieceBytes(p) : FileStart[f] <= x /\ x < FileStart[f + 1]}
  <2>1. f \in Files /\ k \in 0 .. n /\ f - 1 = k
    BY <1>2
  <2>2. g[f] = WriteFragment(g[k], p, f)
    BY <1>1, <2>1 DEF Pass
  <2>3. FileStart[f] \in Nat /\ FileStart[f + 1] \in Nat /\ FileStart[f] <= FileStart[f + 1]
    <3> HIDE DEF f
    <3> QED BY <2>1, FileFacts
  <2>4. Carries(g[k].archive, S \cup B(k)) /\ g[k] \in Writer
    BY <1>2, <1>5, <2>1
  <2>5. \A x \in PieceBytes(p) : FileStart[f] <= x => x \notin S \cup B(k)
    BY <1>3, <2>3
  <2>6. B(k) \cup A = B(k + 1)
    BY <1>3, <2>3
  <2> HIDE DEF f, B
  <2>7. Carries(WriteFragment(g[k], p, f).archive, (S \cup B(k)) \cup A)
    BY <2>1, <2>4, <2>5, FragmentCarries
  <2>8. (S \cup B(k)) \cup A = S \cup B(k + 1)
    BY <2>6
  <2>9. Carries(g[f].archive, S \cup B(k + 1))
    BY <2>2, <2>7, <2>8
  <2> QED BY <2>9 DEF f
<1> HIDE DEF T
<1>6. \A k \in Nat : k \in T
  BY <1>4, <1>5, NatInductionSet
<1> HIDE DEF B
<1>7. Carries(g[n].archive, S \cup B(n))
  <2>1. n \in T /\ n <= n
    BY <1>2, <1>6
  <2> QED BY <2>1 DEF T
<1>8. B(n) = {x \in PieceBytes(p) : x < total_length}
  <2>1. total_length = FileStart[n + 1]
    BY DEF total_length, n, FileCount
  <2> QED BY <2>1 DEF B
<1>9. AfterPass(w, p) = g[n] /\ g[n] \in Writer
  BY <1>1, <1>2 DEF Pass, n
<1> QED BY <1>7, <1>8, <1>9

(* No piece is longer than the rest, and each ends before the next starts. *)
LEMMA PieceEnds ==
  ASSUME NEW p \in Nat
  PROVE  /\ piece_size(p) <= PieceLength
         /\ PieceStart(p) + piece_size(p) <= PieceStart(p + 1)
<1>1. PieceLength \in Nat \ {0}
  BY LayoutAssumption
<1>2. total_length % PieceLength \in 0 .. PieceLength - 1
  BY <1>1, FileStartsInOrder, Division
<1>3. piece_size(p) <= PieceLength
  BY <1>1, <1>2, LayoutAssumption DEF piece_size
<1>4. PieceStart(p + 1) = PieceStart(p) + PieceLength
  <2>1. PieceLength * (p + 1) = PieceLength * p + PieceLength
    BY <1>1, Products
  <2>2. p * PieceLength = PieceLength * p /\ (p + 1) * PieceLength = PieceLength * (p + 1)
    BY <1>1
  <2> QED BY <2>1, <2>2 DEF PieceStart
<1> QED BY <1>1, <1>3, <1>4, PieceFacts

(* Of two pieces the earlier ends before the later starts.                 *)
LEMMA PiecesApart ==
  ASSUME NEW p \in Nat, NEW q \in Nat, p < q
  PROVE  /\ PieceStart(p) + piece_size(p) <= PieceStart(q)
         /\ PieceBytes(p) \cap PieceBytes(q) = {}
<1>1. PieceStart(p) + piece_size(p) <= PieceStart(q)
  <2>1. PieceLength * p + PieceLength <= PieceLength * q
    BY LayoutAssumption, Products
  <2>2. p * PieceLength = PieceLength * p /\ q * PieceLength = PieceLength * q
    BY LayoutAssumption
  <2>3. p * PieceLength + PieceLength <= q * PieceLength
    BY <2>1, <2>2
  <2>4. PieceStart(p) + PieceLength <= PieceStart(q)
    BY <2>3 DEF PieceStart
  <2>5. piece_size(p) <= PieceLength /\ PieceLength \in Nat
    BY PieceEnds, LayoutAssumption
  <2>6. PieceStart(p) \in Nat /\ piece_size(p) \in Nat /\ PieceStart(q) \in Nat
    BY PieceFacts
  <2> QED BY <2>4, <2>5, <2>6
<1>2. PieceStart(p) \in Nat /\ piece_size(p) \in Nat /\ PieceStart(q) \in Nat
  BY PieceFacts
<1>3. ASSUME NEW x \in PieceBytes(p), x \in PieceBytes(q) PROVE FALSE
  BY <1>1, <1>2, <1>3, PieceFacts DEF PieceBytes
<1> QED BY <1>1, <1>3

-----------------------------------------------------------------------------
(* With the tar writer: a step accepts the piece under way and writes it,  *)
(* or leaves books and stream alone, or returns and closes the stream.     *)
LEMMA TarSteps ==
  ASSUME BInv, [OutputNext]_outputVars, use_tar
  PROVE  \/ /\ i \in Pieces /\ i \notin pieces_done /\ AcceptPiece /\ tar_writer_write(i)
            /\ pc # "returned" /\ pc' # "returned"
         \/ /\ UNCHANGED <<result, tw>> /\ (pc' = "returned" <=> pc = "returned")
         \/ /\ UNCHANGED result /\ tar_writer_close
            /\ pc # "returned" /\ pc' = "returned"
<1>1. CASE UNCHANGED outputVars \/ FullPathOverflows
  BY <1>1 DEF outputVars, vars, result, FullPathOverflows
<1>2. CASE OutputStep
  <2>1. Next /\ TarFollows
    BY <1>2 DEF OutputStep, StorageFollows
  <2>2. CASE FinishPiece /\ AcceptPiece
    <3>1. i \in Pieces /\ i \notin pieces_done /\ out \in Seq(Delivery)
      BY <2>2 DEF BInv, TypeOK, FinishPiece, UnderWay
    <3>2. Accepts
      <4>1. \A d \in {[piece |-> i, data |-> buf]} : Append(out, d) # out
        <5> TAKE d \in {[piece |-> i, data |-> buf]}
        <5>1. out \in Seq(Delivery \cup {d}) /\ d \in Delivery \cup {d}
          BY <3>1
        <5> HIDE DEF Delivery
        <5>2. Len(Append(out, d)) = Len(out) + 1 /\ Len(out) \in Nat
          BY <5>1
        <5> QED BY <5>2
      <4> QED BY <2>2, <4>1 DEF Accepts, AcceptPiece
    <3>3. tar_writer_write(i)
      <4>1. ~Returns
        BY <2>2 DEF FinishPiece, Returns
      <4> QED BY <2>1, <3>2, <4>1 DEF TarFollows
    <3> QED BY <2>2, <3>1, <3>3 DEF FinishPiece
  <2>3. CASE UNCHANGED result
    <3>1. ~Accepts
      BY <2>3 DEF result, Accepts
    <3>2. CASE Returns
      <4>1. tar_writer_close
        BY <2>1, <3>1, <3>2 DEF TarFollows
      <4> QED BY <2>3, <3>2, <4>1 DEF Returns
    <3>3. CASE ~Returns
      <4>1. UNCHANGED tw
        BY <2>1, <3>1, <3>3 DEF TarFollows
      <4>2. pc' = "returned" <=> pc = "returned"
        BY <2>1, <3>3, StepKinds DEF Returns, FinishPiece, Return
      <4> QED BY <2>3, <4>1, <4>2
    <3> QED BY <3>2, <3>3
  <2>4. UNCHANGED result \/ (FinishPiece /\ AcceptPiece)
    BY <2>1, StepKinds DEF Return
  <2> QED BY <2>2, <2>3, <2>4
<1> QED BY <1>1, <1>2 DEF OutputNext

(* Closing the stream adds padding and the end marker.                     *)
LEMMA ClosedWith ==
  ASSUME NEW w \in Writer
  PROVE  /\ w.archive \in Seq(Cell)
         /\ \E n \in Nat : FinalPadding(w) = w.archive \o Cells(n, <<"pad", 0>>)
         /\ FinalPadding(w) \in Seq(Cell) /\ EndMarker \in Seq(Cell)
         /\ EndMarker = Cells(2 * TarBlock, <<"end", 0>>) /\ 2 * TarBlock \in Nat
<1>1. w.archive \in Seq(Cell)
  BY DEF Writer
<1>2. \E n \in Nat : FinalPadding(w) = w.archive \o Cells(n, <<"pad", 0>>)
  <2>1. CASE FinalPadding(w) = write_padding(w.archive)
    BY <1>1, <2>1, PaddingIs
  <2>2. CASE FinalPadding(w) = w.archive
    <3>1. Cells(0, <<"pad", 0>>) = <<>>
      BY DEF Cells
    <3>2. w.archive \o <<>> = w.archive
      <4> HIDE DEF Cell
      <4> QED BY <1>1
    <3> QED BY <2>2, <3>1, <3>2
  <2> QED BY <2>1, <2>2 DEF FinalPadding
<1>3. FinalPadding(w) \in Seq(Cell)
  <2>1. PICK n \in Nat : FinalPadding(w) = w.archive \o Cells(n, <<"pad", 0>>)
    BY <1>2
  <2>2. Cells(n, <<"pad", 0>>) \in Seq(Cell)
    BY CellsAre, Tags
  <2> QED BY <1>1, <2>1, <2>2, Joined
<1>4. /\ EndMarker = Cells(2 * TarBlock, <<"end", 0>>) /\ 2 * TarBlock \in Nat
      /\ EndMarker \in Seq(Cell)
  BY CellsAre, Tags, TarBlockAssumption DEF EndMarker
<1> QED BY <1>1, <1>2, <1>3, <1>4

(* Closing carries nothing.                                                *)
LEMMA CarriesClosed ==
  ASSUME NEW w \in Writer, NEW S, Carries(w.archive, S)
  PROVE  Carries(FinalPadding(w) \o EndMarker, S)
<1>1. PICK n \in Nat : FinalPadding(w) = w.archive \o Cells(n, <<"pad", 0>>)
  BY ClosedWith
<1>2. /\ <<"pad", 0>> \in Cell /\ <<"pad", 0>>[1] # "data"
      /\ <<"end", 0>> \in Cell /\ <<"end", 0>>[1] # "data"
  BY Tags
<1>3. Carries(FinalPadding(w), S)
  BY <1>1, <1>2, CarriesMore
<1> QED BY <1>2, <1>3, CarriesMore, ClosedWith

(* The bytes of the accepted pieces that the files have.                   *)
BytesOf(D) == (0 .. total_length - 1) \cap UNION {PieceBytes(p) : p \in D}
DoneBytes == BytesOf(pieces_done)

(* A piece is a number and so are its bytes.                               *)
LEMMA BytesOfPiece ==
  ASSUME NEW p \in Pieces
  PROVE  p \in Nat /\ \A x \in PieceBytes(p) : x \in Nat
<1>1. p \in Nat
  BY ParametersAssumption DEF Pieces
<1> QED BY <1>1, PieceFacts DEF PieceBytes

(* One more piece adds its bytes that the files have.                      *)
LEMMA OnePieceMore ==
  ASSUME NEW D, NEW p \in Pieces
  PROVE  BytesOf(D \cup {p}) = BytesOf(D) \cup {x \in PieceBytes(p) : x < total_length}
<1> DEFINE A == {x \in PieceBytes(p) : x < total_length}
           old == {PieceBytes(q) : q \in D}
           new == {PieceBytes(q) : q \in D \cup {p}}
<1>1. A = (0 .. total_length - 1) \cap PieceBytes(p)
  BY BytesOfPiece, FileStartsInOrder
<1>2. new = old \cup {PieceBytes(p)}
  OBVIOUS
<1>3. BytesOf(D) = (0 .. total_length - 1) \cap UNION old
  BY DEF BytesOf
<1>4. BytesOf(D \cup {p}) = (0 .. total_length - 1) \cap UNION new
  BY DEF BytesOf
<1> HIDE DEF A, old, new
<1>5. UNION new = (UNION old) \cup PieceBytes(p)
  BY <1>2
<1>6. BytesOf(D \cup {p}) = BytesOf(D) \cup A
  BY <1>1, <1>3, <1>4, <1>5
<1> QED BY <1>6 DEF A

(* The writer is well formed until it is closed, and the stream carries    *)
(* those bytes once.                                                       *)
Streamed ==
  /\ use_tar \in BOOLEAN
  /\ use_tar => /\ pc # "returned" => tw \in Writer
                /\ Carries(tw.archive, DoneBytes)

(* Every step keeps the stream at the bytes of the accepted pieces.        *)
LEMMA StreamedStep ==
  ASSUME BInv, Streamed, [OutputNext]_outputVars
  PROVE  Streamed'
<1>1. use_tar' = use_tar
  BY OutputSteps
<1>2. ASSUME use_tar
      PROVE  /\ pc' # "returned" => tw' \in Writer
             /\ Carries(tw'.archive, DoneBytes')
  <2>1. (pc # "returned" => tw \in Writer) /\ Carries(tw.archive, DoneBytes)
    BY <1>2 DEF Streamed
  <2>2. CASE /\ i \in Pieces /\ i \notin pieces_done /\ AcceptPiece /\ tar_writer_write(i)
             /\ pc # "returned" /\ pc' # "returned"
    <3> DEFINE A == {x \in PieceBytes(i) : x < total_length}
    <3>1. i \in Nat /\ pieces_done' = pieces_done \cup {i} /\ pieces_done \subseteq Pieces
      BY <2>2, BytesOfPiece DEF AcceptPiece, BInv, TypeOK
    <3>2. DoneBytes \cap PieceBytes(i) = {}
      <4>1. ASSUME NEW p \in pieces_done PROVE PieceBytes(p) \cap PieceBytes(i) = {}
        <5>1. p \in Nat /\ p # i
          BY <2>2, <3>1, BytesOfPiece
        <5>2. p < i \/ i < p
          BY <3>1, <5>1
        <5> QED BY <3>1, <5>1, <5>2, PiecesApart
      <4> QED BY <4>1 DEF DoneBytes, BytesOf
    <3>3. tw' = AfterPass(tw, i)
      BY <2>2 DEF tar_writer_write
    <3>4. tw' \in Writer /\ Carries(tw'.archive, DoneBytes \cup A)
      BY <2>1, <2>2, <3>1, <3>2, <3>3, PassCarries
    <3>5. DoneBytes' = DoneBytes \cup A
      BY <2>2, <3>1, OnePieceMore DEF DoneBytes
    <3> QED BY <3>4, <3>5
  <2>3. CASE UNCHANGED <<result, tw>> /\ (pc' = "returned" <=> pc = "returned")
    <3>1. DoneBytes' = DoneBytes
      BY <2>3 DEF DoneBytes, result
    <3> QED BY <2>1, <2>3, <3>1
  <2>4. CASE /\ UNCHANGED result /\ tar_writer_close
             /\ pc # "returned" /\ pc' = "returned"
    <3>1. DoneBytes' = DoneBytes
      BY <2>4 DEF DoneBytes, result
    <3>2. tw'.archive = FinalPadding(tw) \o EndMarker
      <4>1. tw' = [tw EXCEPT !.archive = FinalPadding(tw) \o EndMarker]
        BY <2>4 DEF tar_writer_close
      <4>2. "archive" \in DOMAIN tw
        BY <2>1, <2>4 DEF Writer
      <4> QED BY <4>1, <4>2
    <3> QED BY <2>1, <2>4, <3>1, <3>2, CarriesClosed
  <2> QED BY <1>2, <2>2, <2>3, <2>4, TarSteps
<1> QED BY <1>1, <1>2 DEF Streamed

(* An empty stream carries nothing.                                        *)
LEMMA StreamedInit == ASSUME OutputInit PROVE Streamed
<1>1. tw = [archive |-> <<>>, file |-> 0, written |-> 0] /\ use_tar \in BOOLEAN
      /\ pieces_done = {}
  BY DEF OutputInit, setup_output_context, tar_writer_open, Init
<1>2. <<>> \in Seq(Cell) /\ Len(<<>>) = 0
  <2> HIDE DEF Cell
  <2> QED OBVIOUS
<1>3. tw \in Writer
  <2>1. 0 \in 0 .. FileCount
    BY FileStartEquation
  <2> QED BY <1>1, <1>2, <2>1 DEF Writer
<1>4. DoneBytes = {}
  BY <1>1 DEF DoneBytes, BytesOf
<1>5. Carries(<<>>, {})
  <2>1. ASSUME NEW b, b = <<>> PROVE Carries(b, {})
    <3>1. b \in Seq(Cell) /\ Len(b) = 0
      BY <1>2, <2>1
    <3>2. \A k \in 1 .. Len(b) : b[k][1] # "data"
      BY <3>1
    <3> QED BY <3>1, <3>2, CarriesNone
  <2> QED BY <2>1
<1> QED BY <1>1, <1>3, <1>4, <1>5 DEF Streamed

(* In whatever order pieces arrive and whichever writes fall short, the     *)
(* output has only bytes of accepted pieces, none of them twice, and one   *)
(* that is missing was in a write that fell short.                         *)
THEOREM TarBytesOnceHolds == OutputSpec => []TarBytesOnce
<1>1. OutputInit => BInv /\ Streamed
  BY BInvInit, StreamedInit DEF OutputInit
<1>2. BInv /\ Streamed /\ [OutputNext]_outputVars => BInv' /\ Streamed'
  <2> SUFFICES ASSUME BInv, Streamed, [OutputNext]_outputVars PROVE BInv' /\ Streamed'
    OBVIOUS
  <2>1. BInv'
    BY OutputSteps, BInvStep
  <2> QED BY <2>1, StreamedStep
<1>3. Streamed => TarBytesOnce
  <2> SUFFICES ASSUME Streamed, use_tar
               PROVE  /\ \A k \in DataCells(tw.archive) \ lost : tw.archive[k][2] \in Due
                      /\ \A j, k \in DataCells(tw.archive) \ lost :
                           tw.archive[j] = tw.archive[k] => j = k
                      /\ \A b \in Due : Arrived(b) = {} =>
                           \E k \in lost : tw.archive[k] = <<"data", b>>
    BY DEF TarBytesOnce
  <2>1. Carries(tw.archive, Due)
    BY DEF Streamed, DoneBytes, BytesOf, Due
  <2>2. /\ tw.archive \in Seq(Cell) /\ DataIn(tw.archive) = Due
        /\ \A j, k \in DataCells(tw.archive) : tw.archive[j] = tw.archive[k] => j = k
    BY <2>1 DEF Carries
  <2>3. ASSUME NEW k \in DataCells(tw.archive) PROVE tw.archive[k][2] \in Due
    BY <2>2 DEF DataIn
  <2>4. ASSUME NEW b \in Due, Arrived(b) = {}
        PROVE  \E k \in lost : tw.archive[k] = <<"data", b>>
    <3>1. PICK k \in DataCells(tw.archive) : tw.archive[k][2] = b
      BY <2>2 DEF DataIn
    <3>2. k \in lost
      BY <2>4, <3>1 DEF Arrived
    <3>3. tw.archive[k] = <<"data", tw.archive[k][2]>>
      BY <2>2, CellOfData
    <3> QED BY <3>1, <3>2, <3>3
  <2> QED BY <2>2, <2>3, <2>4
<1> QED BY <1>1, <1>2, <1>3, PTL DEF OutputSpec

-----------------------------------------------------------------------------
Concatenated(a, b, c) == (a \o b) \o c = a \o (b \o c)

(* Joining is associative.                                                 *)
LEMMA Associative ==
  ASSUME NEW a \in Seq(Cell), NEW b \in Seq(Cell), NEW c \in Seq(Cell)
  PROVE  Concatenated(a, b, c)
<1> HIDE DEF Cell
<1> QED BY ConcatAssociative DEF Concatenated

(* Adjacent ranges of data join.                                           *)
LEMMA DataGrows ==
  ASSUME NEW a \in Nat, NEW b \in Nat, NEW c \in Nat, a <= b, b <= c
  PROVE  Data(a, b) \o Data(b, c) = Data(a, c)
<1> DEFINE s == Data(a, b)
           t == Data(b, c)
           u == Data(a, c)
<1>0. a <= c
  OBVIOUS
<1>1. /\ s \in Seq(Cell) /\ Len(s) = b - a
      /\ \A k \in 1 .. b - a : s[k] = <<"data", a + k - 1>>
  BY DataAre
<1>2. /\ t \in Seq(Cell) /\ Len(t) = c - b
      /\ \A k \in 1 .. c - b : t[k] = <<"data", b + k - 1>>
  BY DataAre
<1>3. /\ u \in Seq(Cell) /\ Len(u) = c - a
      /\ \A k \in 1 .. c - a : u[k] = <<"data", a + k - 1>>
  BY <1>0, DataAre
<1> HIDE DEF s, t, u
<1>4. /\ s \o t \in Seq(Cell) /\ Len(s \o t) = c - a
      /\ \A k \in 1 .. b - a : (s \o t)[k] = s[k]
      /\ \A k \in 1 .. c - b : (s \o t)[(b - a) + k] = t[k]
  <2>0. s \in Seq(Cell) /\ t \in Seq(Cell)
    BY <1>1, <1>2
  <2>1. /\ s \o t \in Seq(Cell) /\ Len(s \o t) = Len(s) + Len(t)
        /\ \A k \in 1 .. Len(s) : (s \o t)[k] = s[k]
        /\ \A k \in 1 .. Len(t) : (s \o t)[Len(s) + k] = t[k]
    BY <2>0, Joined
  <2> QED BY <1>1, <1>2, <2>1
<1>5. ASSUME NEW k \in 1 .. c - a PROVE (s \o t)[k] = u[k]
  <2>1. CASE k <= b - a
    <3>1. k \in 1 .. b - a
      BY <2>1
    <3> QED BY <1>1, <1>3, <1>4, <3>1
  <2>2. CASE ~(k <= b - a)
    <3> DEFINE j == k - (b - a)
    <3>1. j \in 1 .. c - b /\ (b - a) + j = k /\ b + j - 1 = a + k - 1
      BY <2>2
    <3> HIDE DEF j
    <3>2. (s \o t)[(b - a) + j] = t[j] /\ t[j] = <<"data", b + j - 1>>
      BY <1>2, <1>4, <3>1
    <3>3. (s \o t)[k] = <<"data", a + k - 1>>
      BY <3>1, <3>2
    <3> QED BY <1>3, <3>3
  <2> QED BY <2>1, <2>2
<1>6. s \o t = u
  <2> HIDE DEF Cell
  <2>1. s \o t \in Seq(Cell) /\ u \in Seq(Cell) /\ Len(s \o t) = Len(u)
    BY <1>3, <1>4
  <2>2. \A k \in 1 .. Len(s \o t) : (s \o t)[k] = u[k]
    BY <1>4, <1>5
  <2> QED BY <2>1, <2>2, SeqEqual
<1> QED BY <1>6 DEF s, t, u

-----------------------------------------------------------------------------
(* The reference archive is what its equation says, file by file.          *)
WholeFile(a, f) == write_padding(a \o Header(f) \o Data(FileStart[f], FileEnd(f)))

(* A header and data of a file are cells.                                  *)
LEMMA FilePart ==
  ASSUME NEW f \in Files, NEW a \in Seq(Cell), NEW x \in Nat, FileStart[f] <= x
  PROVE  /\ Header(f) \in Seq(Cell) /\ Data(FileStart[f], x) \in Seq(Cell)
         /\ a \o Header(f) \in Seq(Cell)
         /\ a \o Header(f) \o Data(FileStart[f], x) \in Seq(Cell)
<1>1. Header(f) \in Seq(Cell)
  BY FileFacts, Tags, CellsAre, TarBlockAssumption DEF Header
<1>2. Data(FileStart[f], x) \in Seq(Cell)
  BY FileFacts, DataAre
<1>3. a \o Header(f) \in Seq(Cell)
  BY <1>1, Joined
<1> QED BY <1>1, <1>2, <1>3, Joined

(* A file adds cells to an archive and leaves whole blocks.                *)
LEMMA WholeFileIs ==
  ASSUME NEW f \in Files, NEW a \in Seq(Cell)
  PROVE  /\ \E rest \in Seq(Cell) : WholeFile(a, f) = a \o rest
         /\ \E rest \in Seq(Cell) :
              WholeFile(a, f) = (a \o Header(f) \o Data(FileStart[f], FileEnd(f))) \o rest
         /\ WholeFile(a, f) \in Seq(Cell)
         /\ Len(WholeFile(a, f)) % TarBlock = 0
<1> DEFINE h == Header(f)
           d == Data(FileStart[f], FileEnd(f))
<1>1. h \in Seq(Cell) /\ d \in Seq(Cell) /\ a \o h \in Seq(Cell) /\ (a \o h) \o d \in Seq(Cell)
  <2>1. FileEnd(f) \in Nat /\ FileStart[f] <= FileEnd(f)
    BY FileFacts
  <2> QED BY <2>1, FilePart
<1> HIDE DEF h, d
<1>2. WholeFile(a, f) = write_padding((a \o h) \o d)
  BY DEF WholeFile, h, d
<1>3. PICK n \in Nat : /\ write_padding((a \o h) \o d) = ((a \o h) \o d) \o Cells(n, <<"pad", 0>>)
                       /\ (Len((a \o h) \o d) + n) % TarBlock = 0
  BY <1>1, PaddingIs
<1> DEFINE r == Cells(n, <<"pad", 0>>)
<1>4. r \in Seq(Cell) /\ Len(r) = n
  BY Tags, CellsAre
<1> HIDE DEF r
<1>5. WholeFile(a, f) = ((a \o h) \o d) \o r
  BY <1>2, <1>3 DEF r
<1>6. h \o d \in Seq(Cell) /\ (h \o d) \o r \in Seq(Cell)
  BY <1>1, <1>4, Joined
<1>7. ((a \o h) \o d) \o r = a \o ((h \o d) \o r)
  <2>1. Concatenated(a, h, d)
    BY <1>1, Associative
  <2>2. Concatenated(a, h \o d, r)
    BY <1>4, <1>6, Associative
  <2> QED BY <2>1, <2>2, Zenon DEF Concatenated
<1>8. WholeFile(a, f) \in Seq(Cell) /\ Len(WholeFile(a, f)) = Len((a \o h) \o d) + n
  BY <1>1, <1>4, <1>5, Joined
<1>9. Len(WholeFile(a, f)) % TarBlock = 0
  BY <1>3, <1>8
<1>10. \E rest \in Seq(Cell) : WholeFile(a, f) = a \o rest
  BY <1>5, <1>6, <1>7
<1>11. \E rest \in Seq(Cell) : WholeFile(a, f) = ((a \o h) \o d) \o rest
  BY <1>4, <1>5
<1> QED BY <1>8, <1>9, <1>10, <1>11 DEF h, d

(* What the equation of the reference gives for each file.                 *)
LEMMA ReferenceEquation ==
  /\ ReferenceUpTo[0] = <<>>
  /\ \A k \in 0 .. FileCount : ReferenceUpTo[k] \in Seq(Cell)
  /\ \A f \in Files :
       ReferenceUpTo[f] = IF FileLengths[f] = 0 THEN ReferenceUpTo[f - 1]
                          ELSE WholeFile(ReferenceUpTo[f - 1], f)
<1> DEFINE n == FileCount
           V == Seq(Cell)
           Next_(a, f) == IF FileLengths[f] = 0 THEN a ELSE WholeFile(a, f)
           Eqn(s) == s = [f \in 0 .. n |-> IF f = 0 THEN <<>> ELSE Next_(s[f - 1], f)]
           h == [x \in (1 .. n) \X V |-> Next_(x[2], x[1])]
           at == ReferenceUpTo
<1>1. n \in Nat /\ Files = 1 .. n
  BY FileStartEquation DEF Files, FileCount
<1>2. \A k \in 1 .. n, a \in V : Next_(a, k) \in V
  BY <1>1, WholeFileIs
<1>e. <<>> \in V
  <2> HIDE DEF Cell
  <2> QED OBVIOUS
<1>c. at = CHOOSE s : Eqn(s)
  BY DEF ReferenceUpTo, n, FileCount, WholeFile
<1> HIDE DEF V, Next_, at
<1>3. /\ h \in [(1 .. n) \X V -> V]
      /\ \A k \in 1 .. n, a \in V : h[<<k, a>>] = Next_(a, k)
  BY <1>2
<1> HIDE DEF n, h
<1>4. \E g : Recursion(g, n, V, <<>>, h)
  BY <1>1, <1>3, <1>e, RecursionExists DEF Steps
<1>5. PICK g : g \in [0 .. n -> V] /\ g[0] = <<>> /\ \A k \in 1 .. n : g[k] = h[<<k, g[k - 1]>>]
  BY <1>4 DEF Recursion
<1>6. ASSUME NEW k \in 1 .. n PROVE g[k] = Next_(g[k - 1], k)
  <2>1. g[k - 1] \in V
    BY <1>1, <1>5
  <2> QED BY <1>3, <1>5, <2>1
<1>7. Eqn(g)
  <2>1. ASSUME NEW k \in 0 .. n
        PROVE  g[k] = IF k = 0 THEN <<>> ELSE Next_(g[k - 1], k)
    <3>1. CASE k = 0
      BY <1>5, <3>1
    <3>2. CASE k # 0
      <4>1. k \in 1 .. n
        BY <1>1, <3>2
      <4> QED BY <1>6, <3>2, <4>1
    <3> QED BY <3>1, <3>2
  <2>2. g = [k \in 0 .. n |-> g[k]]
    BY <1>5
  <2> QED BY <2>1, <2>2
<1> HIDE DEF Eqn
<1>9. Eqn(at)
  BY <1>7, <1>c
<1>10. at[0] = <<>> /\ \A k \in 1 .. n : at[k] = Next_(at[k - 1], k)
  <2>1. at[0] = <<>>
    <3>1. 0 \in 0 .. n
      BY <1>1
    <3> QED BY <1>9, <3>1 DEF Eqn
  <2>2. ASSUME NEW k \in 1 .. n PROVE at[k] = Next_(at[k - 1], k)
    <3>1. k \in 0 .. n /\ k # 0
      BY <1>1
    <3> QED BY <1>9, <3>1 DEF Eqn
  <2> QED BY <2>1, <2>2
<1> DEFINE T == {k \in Nat : k <= n => at[k] \in V}
<1>11. 0 \in T
  BY <1>10, <1>e
<1>12. ASSUME NEW k \in Nat, k \in T PROVE k + 1 \in T
  <2> SUFFICES ASSUME k + 1 <= n PROVE at[k + 1] \in V
    OBVIOUS
  <2>1. k + 1 \in 1 .. n /\ (k + 1) - 1 = k /\ k <= n
    BY <1>1
  <2>2. at[k + 1] = Next_(at[k], k + 1)
    BY <1>10, <2>1
  <2> QED BY <1>2, <1>12, <2>1, <2>2
<1> HIDE DEF T
<1>13. \A k \in Nat : k \in T
  BY <1>11, <1>12, NatInductionSet
<1>14. \A k \in 0 .. n : at[k] \in V
  BY <1>1, <1>13 DEF T
<1> QED BY <1>1, <1>10, <1>14 DEF V, Next_, at, n

(* An archive that another one continues.                                  *)
Begins(a, c) == \E rest \in Seq(Cell) : c = a \o rest

(* Beginnings of beginnings.                                               *)
LEMMA BeginsFurther ==
  ASSUME NEW a \in Seq(Cell), NEW b \in Seq(Cell), NEW c \in Seq(Cell), Begins(a, b), Begins(b, c)
  PROVE  Begins(a, c)
<1>1. PICK r \in Seq(Cell) : b = a \o r
  BY DEF Begins
<1>2. PICK s \in Seq(Cell) : c = b \o s
  BY DEF Begins
<1>3. r \o s \in Seq(Cell) /\ Concatenated(a, r, s)
  BY Associative, Joined
<1>4. c = a \o (r \o s)
  BY <1>1, <1>2, <1>3, Zenon DEF Concatenated
<1> QED BY <1>3, <1>4, Zenon DEF Begins

(* An archive begins itself.                                               *)
LEMMA BeginsItself ==
  ASSUME NEW a \in Seq(Cell)
  PROVE  Begins(a, a)
<1> HIDE DEF Cell
<1>1. a = a \o <<>> /\ <<>> \in Seq(Cell)
  OBVIOUS
<1> QED BY <1>1 DEF Begins

(* The reference grows, and only where a file has a byte.                  *)
LEMMA ReferenceGrows ==
  ASSUME NEW k \in 0 .. FileCount, NEW m \in 0 .. FileCount, k <= m
  PROVE  /\ Begins(ReferenceUpTo[k], ReferenceUpTo[m])
         /\ FileStart[k + 1] = FileStart[m + 1] => ReferenceUpTo[k] = ReferenceUpTo[m]
<1> DEFINE n == FileCount
           R == ReferenceUpTo
           U == {j \in Nat : k + j <= n =>
                   /\ Begins(R[k], R[k + j])
                   /\ FileStart[k + 1] = FileStart[k + j + 1] => R[k] = R[k + j]}
<1>1. /\ n \in Nat /\ Files = 1 .. n /\ k \in 0 .. n /\ m \in 0 .. n
      /\ \A x \in 0 .. n : R[x] \in Seq(Cell)
      /\ \A f \in Files : R[f] = IF FileLengths[f] = 0 THEN R[f - 1] ELSE WholeFile(R[f - 1], f)
  BY FileStartEquation, ReferenceEquation DEF Files, FileCount
<1> HIDE DEF R
<1>2. 0 \in U
  <2>1. k + 0 = k /\ k + 0 + 1 = k + 1
    BY <1>1
  <2>2. Begins(R[k], R[k])
    BY <1>1, BeginsItself
  <2> QED BY <2>1, <2>2
<1>3. ASSUME NEW j \in Nat, j \in U PROVE j + 1 \in U
  <2> DEFINE f == k + j + 1
  <2> SUFFICES ASSUME k + (j + 1) <= n
               PROVE  /\ Begins(R[k], R[k + (j + 1)])
                      /\ FileStart[k + 1] = FileStart[k + (j + 1) + 1] => R[k] = R[k + (j + 1)]
    OBVIOUS
  <2>1. /\ f \in Files /\ f \in 0 .. n /\ f - 1 = k + j /\ k + j \in 0 .. n /\ k + (j + 1) = f
        /\ f \in 1 .. n + 1 /\ k + 1 \in 1 .. n + 1 /\ k + 1 <= f /\ f + 1 \in 1 .. n + 1
    BY <1>1
  <2>2. /\ Begins(R[k], R[k + j])
        /\ FileStart[k + 1] = FileStart[f] => R[k] = R[k + j]
    BY <1>1, <1>3, <2>1
  <2> HIDE DEF f
  <2>3. R[f] = IF FileLengths[f] = 0 THEN R[k + j] ELSE WholeFile(R[k + j], f)
    BY <1>1, <2>1
  <2>4. R[k] \in Seq(Cell) /\ R[k + j] \in Seq(Cell) /\ R[f] \in Seq(Cell)
    BY <1>1, <2>1
  <2>5. Begins(R[k + j], R[f])
    <3>1. CASE FileLengths[f] = 0
      BY <2>3, <2>4, <3>1, BeginsItself
    <3>2. CASE FileLengths[f] # 0
      <4>1. \E rest \in Seq(Cell) : WholeFile(R[k + j], f) = R[k + j] \o rest
        BY <2>1, <2>4, WholeFileIs
      <4>2. R[f] = WholeFile(R[k + j], f)
        BY <2>3, <3>2
      <4> QED BY <4>1, <4>2, Zenon DEF Begins
    <3> QED BY <3>1, <3>2
  <2>6. Begins(R[k], R[f])
    BY <2>2, <2>4, <2>5, BeginsFurther
  <2>7. ASSUME FileStart[k + 1] = FileStart[f + 1] PROVE R[k] = R[f]
    <3>1. FileStart[k + 1] <= FileStart[f]
      BY <2>1, FileStartsGrow
    <3>2. FileStart[f + 1] = FileStart[f] + FileLengths[f] /\ FileStart[f] \in Nat /\ FileLengths[f] \in Nat
      BY <2>1, FileFacts
    <3>3. FileLengths[f] = 0 /\ FileStart[k + 1] = FileStart[f]
      BY <2>7, <3>1, <3>2
    <3> QED BY <2>2, <2>3, <3>3
  <2> QED BY <2>1, <2>6, <2>7
<1> HIDE DEF U
<1>4. \A j \in Nat : j \in U
  BY <1>2, <1>3, NatInductionSet
<1>5. m - k \in Nat /\ k + (m - k) = m
  BY <1>1
<1>6. m - k \in U
  BY <1>4, <1>5
<1> QED BY <1>1, <1>5, <1>6 DEF U, R

(* The reference has whole blocks after every file.                        *)
LEMMA ReferenceAligned ==
  ASSUME NEW k \in 0 .. FileCount
  PROVE  Len(ReferenceUpTo[k]) % TarBlock = 0
<1> DEFINE n == FileCount
           R == ReferenceUpTo
           U == {j \in Nat : j <= n => Len(R[j]) % TarBlock = 0}
<1>1. /\ n \in Nat /\ Files = 1 .. n /\ k \in 0 .. n /\ R[0] = <<>>
      /\ \A x \in 0 .. n : R[x] \in Seq(Cell)
      /\ \A f \in Files : R[f] = IF FileLengths[f] = 0 THEN R[f - 1] ELSE WholeFile(R[f - 1], f)
  BY FileStartEquation, ReferenceEquation DEF Files, FileCount
<1> HIDE DEF n, R
<1>2. 0 \in U
  <2>1. Len(R[0]) = TarBlock * 0
    <3>1. Len(R[0]) = 0
      BY <1>1
    <3> QED BY <3>1, TarBlockAssumption
  <2> QED BY <2>1, TarBlockAssumption, Multiple
<1>3. ASSUME NEW j \in Nat, j \in U PROVE j + 1 \in U
  <2> SUFFICES ASSUME j + 1 <= n PROVE Len(R[j + 1]) % TarBlock = 0
    OBVIOUS
  <2>1. j + 1 \in Files /\ (j + 1) - 1 = j /\ j \in 0 .. n /\ j <= n
    BY <1>1
  <2>2. R[j + 1] = IF FileLengths[j + 1] = 0 THEN R[j] ELSE WholeFile(R[j], j + 1)
    BY <1>1, <2>1
  <2>3. Len(WholeFile(R[j], j + 1)) % TarBlock = 0
    BY <1>1, <2>1, WholeFileIs
  <2> QED BY <1>3, <2>1, <2>2, <2>3
<1> HIDE DEF U
<1>4. \A j \in Nat : j \in U
  BY <1>2, <1>3, NatInductionSet
<1> QED BY <1>1, <1>4 DEF U, R, n

(* The writer has written the first x bytes of the stream: it is between   *)
(* two files of the reference, or inside one.                              *)
InFile(f, x) == ReferenceUpTo[f - 1] \o Header(f) \o Data(FileStart[f], x)

Between(w, f, x) ==
  /\ x = FileStart[f + 1] /\ w.archive = ReferenceUpTo[f]
  /\ f # 0 => w.written = FileLengths[f]
Inside(w, f, x) ==
  /\ f # 0 /\ FileStart[f] < x /\ x < FileEnd(f)
  /\ w.archive = InFile(f, x) /\ w.written = x - FileStart[f]
At(w, x) == w \in Writer /\ (Between(w, w.file, x) \/ Inside(w, w.file, x))

(* The parts of a writer.                                                  *)
LEMMA WriterFacts ==
  ASSUME NEW w \in Writer
  PROVE  /\ w.archive \in Seq(Cell) /\ w.written \in Nat
         /\ w.file \in 0 .. FileCount /\ FileCount \in Nat
         /\ w.file # 0 => w.file \in Files
<1>1. FileCount \in Nat /\ Files = 1 .. FileCount
  BY FileStartEquation DEF Files, FileCount
<1>2. w.archive \in Seq(Cell) /\ w.written \in Nat /\ w.file \in 0 .. FileCount
  <2> HIDE DEF Cell
  <2> QED BY DEF Writer
<1> QED BY <1>1, <1>2

(* Inside a file what is written begins the reference up to its end.       *)
LEMMA InFileBegins ==
  ASSUME NEW f \in Files, NEW x \in Nat, FileStart[f] < x, x < FileEnd(f)
  PROVE  /\ InFile(f, x) \in Seq(Cell)
         /\ Begins(InFile(f, x), ReferenceUpTo[f])
<1> DEFINE a == ReferenceUpTo[f - 1] \o Header(f)
           d == Data(FileStart[f], x)
           e == Data(x, FileEnd(f))
<1>1. /\ FileStart[f] \in Nat /\ FileEnd(f) \in Nat /\ FileLengths[f] # 0 /\ FileLengths[f] \in Nat
      /\ f - 1 \in 0 .. FileCount
  BY FileFacts
<1>2. ReferenceUpTo[f - 1] \in Seq(Cell)
  BY <1>1, ReferenceEquation
<1>3. a \in Seq(Cell) /\ d \in Seq(Cell) /\ a \o d \in Seq(Cell)
  BY <1>1, <1>2, FilePart
<1>4. e \in Seq(Cell)
  BY <1>1, DataAre
<1>5. d \o e = Data(FileStart[f], FileEnd(f))
  <2>1. FileStart[f] <= x /\ x <= FileEnd(f)
    BY <1>1
  <2> QED BY <1>1, <2>1, DataGrows
<1> HIDE DEF a, d, e
<1>6. ReferenceUpTo[f] = WholeFile(ReferenceUpTo[f - 1], f)
  BY <1>1, ReferenceEquation
<1>7. PICK r \in Seq(Cell) : WholeFile(ReferenceUpTo[f - 1], f) = (a \o (d \o e)) \o r
  <2>1. \E rest \in Seq(Cell) :
          WholeFile(ReferenceUpTo[f - 1], f) = (a \o Data(FileStart[f], FileEnd(f))) \o rest
    BY <1>2, WholeFileIs DEF a
  <2> QED BY <1>5, <2>1
<1>8. (a \o (d \o e)) \o r = (a \o d) \o (e \o r)
  <2>1. Concatenated(a, d, e)
    BY <1>3, <1>4, Associative
  <2>2. Concatenated(a \o d, e, r)
    BY <1>3, <1>4, Associative
  <2> QED BY <2>1, <2>2, Zenon DEF Concatenated
<1>9. e \o r \in Seq(Cell)
  BY <1>4, Joined
<1>10. InFile(f, x) = a \o d
  BY DEF InFile, a, d
<1> QED BY <1>3, <1>6, <1>7, <1>8, <1>9, <1>10 DEF Begins

(* Wherever the writer is, it has written a beginning of the reference.    *)
LEMMA BeginsReference ==
  ASSUME NEW w, NEW x \in Nat, At(w, x)
  PROVE  Begins(w.archive, ReferenceArchive) /\ x <= total_length
<1> DEFINE f == w.file
<1>1. /\ w \in Writer /\ w.archive \in Seq(Cell)
      /\ f \in 0 .. FileCount /\ FileCount \in Nat /\ (f # 0 => f \in Files)
  BY WriterFacts DEF At
<1>2. ReferenceArchive = ReferenceUpTo[FileCount] /\ FileCount \in 0 .. FileCount
  BY <1>1 DEF ReferenceArchive, FileCount
<1>3. Begins(ReferenceUpTo[f], ReferenceArchive) /\ ReferenceUpTo[f] \in Seq(Cell)
      /\ ReferenceArchive \in Seq(Cell)
  BY <1>1, <1>2, ReferenceGrows, ReferenceEquation
<1>4. Between(w, f, x) \/ Inside(w, f, x)
  BY DEF At
<1> HIDE DEF f
<1>5. CASE Between(w, f, x)
  <2>1. x = FileStart[f + 1] /\ f + 1 \in 1 .. FileCount + 1 /\ f + 1 <= FileCount + 1
        /\ FileCount + 1 \in 1 .. FileCount + 1
    BY <1>1, <1>5 DEF Between
  <2>2. x <= FileStart[FileCount + 1]
    BY <2>1, FileStartsGrow
  <2>3. total_length = FileStart[FileCount + 1]
    BY DEF total_length, FileCount
  <2> QED BY <1>3, <1>5, <2>2, <2>3 DEF Between
<1>6. CASE Inside(w, f, x)
  <2>1. f \in Files /\ FileStart[f] < x /\ x < FileEnd(f) /\ w.archive = InFile(f, x)
    BY <1>1, <1>6 DEF Inside
  <2>2. Begins(InFile(f, x), ReferenceUpTo[f])
    BY <2>1, InFileBegins
  <2>3. Begins(w.archive, ReferenceArchive)
    BY <1>1, <1>3, <2>1, <2>2, BeginsFurther
  <2> QED BY <2>1, <2>3, FileFacts, FileStartsInOrder
<1> QED BY <1>4, <1>5, <1>6

(* The writer continues where it stopped: the fragment of a file that      *)
(* follows takes it to the end of the fragment.                            *)
LEMMA FragmentContinues ==
  ASSUME NEW w, NEW p \in Nat, NEW f \in Files, At(w, Overlap(p, f).from),
         Overlap(p, f).from < Overlap(p, f).to
  PROVE  At(WriteFragment(w, p, f), Overlap(p, f).to)
<1> DEFINE from == Overlap(p, f).from
           to == Overlap(p, f).to
           new == WriteFragment(w, p, f)
           entered == IF w.file = f THEN w.archive ELSE w.archive \o Header(f)
           before == IF w.file = f THEN w.written ELSE 0
           filled == entered \o Data(from, to)
           g == w.file
           fs == FileStart[f]
           fe == FileEnd(f)
           head == ReferenceUpTo[f - 1] \o Header(f)
<1>0. w \in Writer /\ (Between(w, g, from) \/ Inside(w, g, from)) /\ from < to
  BY DEF At
<1>1. /\ from \in Nat /\ to \in Nat /\ fs \in Nat /\ fe \in Nat
      /\ fs <= from /\ to <= fe
  BY OverlapFacts, FileFacts
<1>2. /\ f \in 1 .. FileCount /\ FileCount \in Nat /\ g \in 0 .. FileCount
      /\ f - 1 \in 0 .. FileCount
      /\ FileStart[f + 1] = fe /\ fe = fs + FileLengths[f] /\ FileLengths[f] \in Nat
      /\ g # 0 => g \in Files
      /\ ReferenceUpTo[f - 1] \in Seq(Cell) /\ head \in Seq(Cell)
  BY <1>0, <1>1, WriterFacts, FileFacts, ReferenceEquation, FilePart
<1>3. /\ new.archive = IF to = fe THEN write_padding(filled) ELSE filled
      /\ new.file = f /\ new.written = before + (to - from) /\ new \in Writer
  BY <1>0, FragmentWritten
<1> HIDE DEF from, to, new, fs, fe, g, head
<1>4. filled = InFile(f, to) /\ before + (to - from) = to - fs
  <2>1. CASE Between(w, g, from)
    <3>1. from = FileStart[g + 1] /\ w.archive = ReferenceUpTo[g]
      BY <2>1 DEF Between
    <3>2. g < f
      <4>1. f <= g => FileStart[f + 1] <= FileStart[g + 1]
        <5>1. f <= g => /\ f + 1 \in 1 .. FileCount + 1 /\ g + 1 \in 1 .. FileCount + 1
                        /\ f + 1 <= g + 1
          BY <1>2
        <5> QED BY <5>1, FileStartsGrow
      <4> QED BY <1>0, <1>1, <1>2, <3>1, <4>1
    <3>3. FileStart[g + 1] <= FileStart[f]
      <4>1. g + 1 \in 1 .. FileCount + 1 /\ f \in 1 .. FileCount + 1 /\ g + 1 <= f
        BY <1>2, <3>2
      <4> QED BY <4>1, FileStartsGrow
    <3>4. from = fs
      BY <1>1, <3>1, <3>3 DEF fs
    <3>5. ReferenceUpTo[g] = ReferenceUpTo[f - 1]
      <4>1. g \in 0 .. FileCount /\ f - 1 \in 0 .. FileCount /\ g <= f - 1 /\ (f - 1) + 1 = f
        BY <1>2, <3>2
      <4>2. FileStart[g + 1] = FileStart[(f - 1) + 1]
        BY <3>1, <3>4, <4>1 DEF fs
      <4> QED BY <4>1, <4>2, ReferenceGrows
    <3>6. w.file # f
      BY <1>2, <3>2 DEF g
    <3>7. entered = head /\ before = 0
      BY <3>1, <3>5, <3>6 DEF head
    <3> HIDE DEF entered, before
    <3>8. filled = head \o Data(fs, to)
      BY <3>4, <3>7
    <3> QED BY <1>1, <3>4, <3>7, <3>8 DEF InFile, head, fs
  <2>2. CASE Inside(w, g, from)
    <3>1. /\ g \in Files /\ FileStart[g] < from /\ from < FileEnd(g)
          /\ w.archive = InFile(g, from) /\ w.written = from - FileStart[g]
      BY <1>2, <2>2 DEF Inside
    <3>2. FileEnd(g) = FileStart[g + 1] /\ g \in 1 .. FileCount /\ FileStart[g] \in Nat
          /\ FileEnd(g) \in Nat
      BY <3>1, FileFacts
    <3>3. ~(g < f)
      <4>1. g < f => FileStart[g + 1] <= FileStart[f]
        <5>1. g < f => /\ g + 1 \in 1 .. FileCount + 1 /\ f \in 1 .. FileCount + 1 /\ g + 1 <= f
          BY <1>2, <3>2
        <5> QED BY <5>1, FileStartsGrow
      <4> QED BY <1>1, <3>1, <3>2, <4>1 DEF fs
    <3>4. ~(f < g)
      <4>1. f < g => FileStart[f + 1] <= FileStart[g]
        <5>1. f < g => /\ f + 1 \in 1 .. FileCount + 1 /\ g \in 1 .. FileCount + 1 /\ f + 1 <= g
          BY <1>2, <3>2
        <5> QED BY <5>1, FileStartsGrow
      <4> QED BY <1>0, <1>1, <1>2, <3>1, <3>2, <4>1
    <3>5. g = f
      BY <1>2, <3>2, <3>3, <3>4
    <3>6. w.file = f /\ w.archive = head \o Data(fs, from) /\ w.written = from - fs
      BY <3>1, <3>5 DEF g, head, fs, InFile
    <3>7. entered = head \o Data(fs, from) /\ before = from - fs
      BY <3>6
    <3> HIDE DEF entered, before
    <3>8. filled = head \o Data(fs, to)
      <4>0. from <= to
        BY <1>0, <1>1
      <4>1. Data(fs, from) \in Seq(Cell) /\ Data(from, to) \in Seq(Cell)
        BY <1>1, <4>0, DataAre
      <4>2. Data(fs, from) \o Data(from, to) = Data(fs, to)
        BY <1>1, <4>0, DataGrows
      <4>3. (head \o Data(fs, from)) \o Data(from, to) = head \o (Data(fs, from) \o Data(from, to))
        <5>1. Concatenated(head, Data(fs, from), Data(from, to))
          BY <1>2, <4>1, Associative
        <5> QED BY <5>1, Zenon DEF Concatenated
      <4> QED BY <3>7, <4>2, <4>3, Zenon
    <3> QED BY <1>0, <1>1, <3>7, <3>8 DEF InFile, head, fs
  <2> QED BY <1>0, <2>1, <2>2
<1> HIDE DEF filled, before
<1>5. CASE to = fe
  <2>1. FileLengths[f] # 0 /\ f # 0
    BY <1>0, <1>1, <1>2, <1>5
  <2>2. ReferenceUpTo[f] = write_padding(InFile(f, to))
    <3>1. ReferenceUpTo[f] = WholeFile(ReferenceUpTo[f - 1], f)
      BY <2>1, ReferenceEquation
    <3> QED BY <1>5, <3>1 DEF WholeFile, InFile, fe
  <2>3. new.archive = ReferenceUpTo[f] /\ new.written = FileLengths[f] /\ to = FileStart[f + 1]
    <3>1. new.written = to - fs
      BY <1>3, <1>4, Zenon
    <3>4. to - fs = FileLengths[f]
      BY <1>1, <1>2, <1>5
    <3>2. new.archive = ReferenceUpTo[f]
      BY <1>3, <1>4, <1>5, <2>2
    <3> QED BY <1>2, <1>5, <3>1, <3>2, <3>4
  <2> QED BY <1>3, <2>3 DEF At, Between, new, to
<1>6. CASE to # fe
  <2>1. fs < to /\ to < fe /\ f # 0
    BY <1>0, <1>1, <1>2, <1>6
  <2>2. new.archive = InFile(f, to) /\ new.written = to - fs
    BY <1>3, <1>4, <1>6
  <2> QED BY <1>3, <2>1, <2>2 DEF At, Inside, new, to, fs, fe
<1> QED BY <1>5, <1>6

PieceEnd(p) == PieceStart(p) + piece_size(p)

(* A whole piece takes the writer from the start of the piece to its end,  *)
(* or to the end of the stream.                                            *)
LEMMA PassContinues ==
  ASSUME NEW w, NEW p \in Nat, At(w, Least(PieceStart(p), total_length))
  PROVE  At(AfterPass(w, p), Least(PieceEnd(p), total_length))
<1> DEFINE n == FileCount
           ps == PieceStart(p)
           pe == PieceEnd(p)
           start == Least(ps, total_length)
           Reached(k) == Greatest(start, Least(pe, FileStart[k + 1]))
<1>0. w \in Writer /\ At(w, start)
  BY DEF At
<1>1. PICK g : Pass(g, w, p)
  BY <1>0, PassIs
<1> DEFINE T == {k \in Nat : k <= n => At(g[k], Reached(k))}
<1>2. /\ n \in Nat /\ Files = 1 .. n /\ total_length = FileStart[n + 1] /\ total_length \in Nat
      /\ \A k \in 1 .. n + 1 : FileStart[k] \in Nat
      /\ FileStart[1] = 0
      /\ ps \in Nat /\ pe \in Nat /\ ps <= pe
  <2>1. PieceStart(p) \in Nat /\ piece_size(p) \in Nat
    BY PieceFacts
  <2>2. ps \in Nat /\ pe \in Nat /\ ps <= pe
    BY <2>1 DEF PieceEnd
  <2>3. n \in Nat /\ Files = 1 .. n /\ total_length = FileStart[n + 1]
    BY FileStartEquation DEF Files, FileCount, total_length
  <2> QED BY <2>2, <2>3, FileStartEquation, FileStartsInOrder
<1>3. start \in Nat /\ start = IF ps < total_length THEN ps ELSE total_length
  BY <1>2 DEF Least
<1>4. Pass(g, w, p) /\ g[0] = w /\ AfterPass(w, p) = g[n]
  BY <1>1 DEF Pass
<1> HIDE DEF ps, start
<1>5. 0 \in T
  <2>1. Reached(0) = start
    BY <1>2, <1>3 DEF Greatest, Least
  <2> HIDE DEF Reached
  <2> QED BY <1>0, <1>4, <2>1
<1>6. ASSUME NEW k \in Nat, k \in T PROVE k + 1 \in T
  <2> SUFFICES ASSUME k + 1 <= n PROVE At(g[k + 1], Reached(k + 1))
    OBVIOUS
  <2> DEFINE f == k + 1
             from == Overlap(p, f).from
             to == Overlap(p, f).to
             fs == FileStart[f]
             fe == FileStart[f + 1]
             b == Reached(k)
             e == Reached(k + 1)
  <2>1. f \in Files /\ f - 1 = k /\ k <= n /\ f \in 1 .. n + 1 /\ f + 1 \in 1 .. n + 1
    BY <1>2
  <2>2. At(g[k], b)
    BY <1>6, <2>1
  <2>3. g[f] = WriteFragment(g[k], p, f)
    BY <1>1, <2>1 DEF Pass
  <2>b. b = Greatest(start, Least(pe, fs)) /\ e = Greatest(start, Least(pe, fe))
    OBVIOUS
  <2> HIDE DEF f, b, e
  <2>4. /\ fs \in Nat /\ fe \in Nat /\ FileEnd(f) = fe /\ fs <= fe /\ fe <= total_length
    BY <2>1, FileFacts
  <2>5. /\ from = IF ps > fs THEN ps ELSE fs
        /\ to = IF pe < fe THEN pe ELSE fe
    BY <2>4 DEF Overlap, Greatest, Least, ps, PieceEnd
  <2> HIDE DEF fs, fe
  <2>6. /\ b = LET m == IF pe < fs THEN pe ELSE fs IN IF start > m THEN start ELSE m
        /\ e = LET m == IF pe < fe THEN pe ELSE fe IN IF start > m THEN start ELSE m
    BY <2>b DEF Greatest, Least
  <2> HIDE DEF pe, from, to
  <2>7. CASE from < to
    <3>1. b = from /\ e = to
      BY <1>2, <1>3, <2>4, <2>5, <2>6, <2>7
    <3>2. At(WriteFragment(g[k], p, f), to)
      BY <2>1, <2>2, <2>7, <3>1, FragmentContinues DEF from, to
    <3> QED BY <2>3, <3>1, <3>2 DEF f, e
  <2>8. CASE ~(from < to)
    <3>1. b = e
      BY <1>2, <1>3, <2>4, <2>5, <2>6, <2>8
    <3>2. WriteFragment(g[k], p, f) = g[k]
      BY <2>1, <2>2, <2>8, FragmentWritten DEF At, from, to
    <3> QED BY <2>2, <2>3, <3>1, <3>2 DEF f, e
  <2> QED BY <2>7, <2>8
<1> HIDE DEF T
<1>7. \A k \in Nat : k \in T
  BY <1>5, <1>6, NatInductionSet
<1>8. At(g[n], Reached(n))
  <2>1. n \in T /\ n <= n
    BY <1>2, <1>7
  <2> HIDE DEF Reached
  <2> QED BY <2>1 DEF T
<1>9. Reached(n) = Least(pe, total_length)
  <2>1. Reached(n) = Greatest(start, Least(pe, total_length))
    BY <1>2
  <2> HIDE DEF Reached, pe
  <2> QED BY <1>2, <1>3, <2>1 DEF Greatest, Least
<1> QED BY <1>4, <1>8, <1>9

-----------------------------------------------------------------------------
(* Closing: at the end of the stream nothing is added ahead of the end     *)
(* marker, and wherever it stopped whole blocks are left.                  *)
LEMMA BlocksAdd ==
  ASSUME NEW a \in Nat, a % TarBlock = 0
  PROVE  (a + 2 * TarBlock) % TarBlock = 0
<1> DEFINE d == TarBlock
           q == a \div d
<1>1. d \in Nat \ {0}
  BY TarBlockAssumption
<1>2. q \in Nat /\ a = d * q + (a % d)
  BY <1>1, Division
<1>3. a = d * q /\ d * q \in Nat
  BY <1>1, <1>2
<1> HIDE DEF d, q
<1>4. d * (q + 1) = d * q + d /\ d * ((q + 1) + 1) = d * (q + 1) + d
  BY <1>1, <1>2, Products
<1>5. PICK k \in Nat : a + 2 * d = d * k
  <2>1. a + 2 * d = d * ((q + 1) + 1)
    <3>1. 2 * d = d + d /\ d * (q + 1) \in Nat
      BY <1>1, <1>2
    <3> QED BY <1>1, <1>3, <1>4, <3>1
  <2>2. (q + 1) + 1 \in Nat
    BY <1>2
  <2> QED BY <2>1, <2>2
<1>6. (a + 2 * d) % d = 0
  BY <1>1, <1>5, Multiple
<1> QED BY <1>6 DEF d

(* What closing leaves, wherever the writer is.                            *)
LEMMA ClosingAt ==
  ASSUME NEW w, NEW x \in Nat, At(w, x)
  PROVE  /\ Len(FinalPadding(w) \o EndMarker) % TarBlock = 0
         /\ x = total_length => FinalPadding(w) = ReferenceArchive
<1> DEFINE f == w.file
<1>1. /\ w \in Writer /\ w.archive \in Seq(Cell)
      /\ f \in 0 .. FileCount /\ FileCount \in Nat /\ (f # 0 => f \in Files)
      /\ FinalPadding(w) \in Seq(Cell) /\ EndMarker \in Seq(Cell) /\ Len(EndMarker) = 2 * TarBlock
  <2>1. w \in Writer
    BY DEF At
  <2>2. Len(EndMarker) = 2 * TarBlock
    BY <2>1, ClosedWith, CellsAre, Tags
  <2> QED BY <2>1, <2>2, WriterFacts, ClosedWith
<1>2. FinalPadding(w) = IF f # 0 /\ w.written < FileLengths[f]
                        THEN write_padding(w.archive) ELSE w.archive
  BY DEF FinalPadding
<1>3. Between(w, f, x) \/ Inside(w, f, x)
  BY DEF At
<1> HIDE DEF f
<1>4. Len(FinalPadding(w)) % TarBlock = 0 /\ (x = total_length => FinalPadding(w) = ReferenceArchive)
  <2>1. CASE Between(w, f, x)
    <3>1. FinalPadding(w) = ReferenceUpTo[f] /\ x = FileStart[f + 1]
      <4>1. f # 0 => w.written = FileLengths[f] /\ FileLengths[f] \in Nat
        BY <1>1, <2>1, FileFacts DEF Between
      <4> QED BY <1>2, <2>1, <4>1 DEF Between
    <3>2. ASSUME x = total_length PROVE ReferenceUpTo[f] = ReferenceArchive
      <4>1. FileStart[f + 1] = FileStart[FileCount + 1] /\ FileCount \in 0 .. FileCount
            /\ f <= FileCount
        BY <1>1, <3>1, <3>2 DEF total_length, FileCount
      <4>2. ReferenceUpTo[f] = ReferenceUpTo[FileCount]
        BY <1>1, <4>1, ReferenceGrows
      <4> QED BY <4>2 DEF ReferenceArchive, FileCount
    <3> QED BY <1>1, <3>1, <3>2, ReferenceAligned
  <2>2. CASE Inside(w, f, x)
    <3>1. /\ f \in Files /\ f # 0 /\ FileStart[f] < x /\ x < FileEnd(f) /\ w.written = x - FileStart[f]
      BY <1>1, <2>2 DEF Inside
    <3>2. /\ FileEnd(f) = FileStart[f] + FileLengths[f] /\ FileStart[f] \in Nat
          /\ FileLengths[f] \in Nat /\ FileEnd(f) <= total_length /\ total_length \in Nat
      BY <3>1, FileFacts, FileStartsInOrder
    <3>3. FinalPadding(w) = write_padding(w.archive)
      BY <1>2, <3>1, <3>2
    <3>4. PICK n \in Nat : /\ write_padding(w.archive) = w.archive \o Cells(n, <<"pad", 0>>)
                           /\ (Len(w.archive) + n) % TarBlock = 0
      BY <1>1, PaddingIs
    <3> DEFINE pad == Cells(n, <<"pad", 0>>)
    <3>5. pad \in Seq(Cell) /\ Len(pad) = n
      BY Tags, CellsAre
    <3> HIDE DEF pad
    <3>6. Len(w.archive \o pad) = Len(w.archive) + n
      BY <1>1, <3>5, Joined
    <3>7. Len(FinalPadding(w)) % TarBlock = 0
      BY <3>3, <3>4, <3>6, Zenon DEF pad
    <3>8. x # total_length
      BY <3>1, <3>2
    <3> QED BY <3>7, <3>8
  <2> QED BY <1>3, <2>1, <2>2
<1>5. /\ Len(FinalPadding(w)) \in Nat
      /\ Len(FinalPadding(w) \o EndMarker) = Len(FinalPadding(w)) + 2 * TarBlock
  BY <1>1, Joined
<1> QED BY <1>4, <1>5, BlocksAdd

(* The parts of a joined sequence are its prefix and its suffix.           *)
LEMMA PrefixAndSuffix ==
  ASSUME NEW a \in Seq(Cell), NEW b \in Seq(Cell)
  PROVE  IsPrefix(a, a \o b) /\ IsSuffix(b, a \o b)
<1> HIDE DEF Cell
<1> DEFINE c == a \o b
           rb == Reverse(b)
           rc == Reverse(c)
<1>1. /\ c \in Seq(Cell) /\ Len(c) = Len(a) + Len(b) /\ Len(a) \in Nat /\ Len(b) \in Nat
      /\ \A k \in 1 .. Len(a) : c[k] = a[k]
      /\ \A k \in 1 .. Len(b) : c[Len(a) + k] = b[k]
  BY Joined
<1> HIDE DEF c
<1>2. IsPrefix(a, c)
  <2>1. SubSeq(a, 1, Len(a)) = SubSeq(c, 1, Len(a))
    <3>1. \A k \in 1 .. Len(a) : a[k] \in Cell /\ c[k] \in Cell
      BY <1>1
    <3>2. /\ SubSeq(a, 1, Len(a)) \in Seq(Cell) /\ Len(SubSeq(a, 1, Len(a))) = Len(a)
          /\ \A k \in 1 .. Len(a) : SubSeq(a, 1, Len(a))[k] = a[k]
      BY <1>1
    <3>3. /\ SubSeq(c, 1, Len(a)) \in Seq(Cell) /\ Len(SubSeq(c, 1, Len(a))) = Len(a)
          /\ \A k \in 1 .. Len(a) : SubSeq(c, 1, Len(a))[k] = c[k]
      BY <1>1
    <3> QED BY <1>1, <3>2, <3>3, SeqEqual
  <2> QED BY <1>1, <2>1 DEF IsPrefix
<1>3. /\ rb \in Seq(Cell) /\ Len(rb) = Len(b)
      /\ \A k \in 1 .. Len(b) : rb[k] = b[Len(b) - k + 1]
  BY DEF Reverse
<1>4. /\ rc \in Seq(Cell) /\ Len(rc) = Len(c)
      /\ \A k \in 1 .. Len(c) : rc[k] = c[Len(c) - k + 1]
  BY <1>1 DEF Reverse
<1>5. IsSuffix(b, c) <=> IsPrefix(rb, rc)
  BY DEF IsSuffix
<1> HIDE DEF rb, rc
<1>6. ASSUME NEW k \in 1 .. Len(b) PROVE rb[k] = rc[k]
  <2>1. Len(b) - k + 1 \in 1 .. Len(b) /\ Len(c) - k + 1 = Len(a) + (Len(b) - k + 1)
        /\ k \in 1 .. Len(c)
    BY <1>1
  <2>2. c[Len(a) + (Len(b) - k + 1)] = b[Len(b) - k + 1]
    BY <1>1, <2>1
  <2> QED BY <1>3, <1>4, <2>1, <2>2
<1>7. IsPrefix(rb, rc)
  <2>1. SubSeq(rb, 1, Len(b)) = SubSeq(rc, 1, Len(b))
    <3>2. /\ SubSeq(rb, 1, Len(b)) \in Seq(Cell) /\ Len(SubSeq(rb, 1, Len(b))) = Len(b)
          /\ \A k \in 1 .. Len(b) : SubSeq(rb, 1, Len(b))[k] = rb[k]
      BY <1>1, <1>3
    <3>3. /\ SubSeq(rc, 1, Len(b)) \in Seq(Cell) /\ Len(SubSeq(rc, 1, Len(b))) = Len(b)
          /\ \A k \in 1 .. Len(b) : SubSeq(rc, 1, Len(b))[k] = rc[k]
      BY <1>1, <1>4
    <3> QED BY <1>1, <1>6, <3>2, <3>3, SeqEqual
  <2> QED BY <1>1, <1>3, <1>4, <2>1 DEF IsPrefix
<1> QED BY <1>2, <1>5, <1>7 DEF c

-----------------------------------------------------------------------------
UpTo(m) == IF m = 0 THEN 0 ELSE Least(PieceEnd(m - 1), total_length)

(* While the stream is open the writer is where the pieces end; when it is *)
(* closed it was there.  The bytes of the accepted pieces are the first    *)
(* ones of the stream.                                                     *)
InStep ==
  InOrder =>
    /\ DoneBytes = 0 .. UpTo(Len(out)) - 1
    /\ use_tar =>
         IF pc # "returned" THEN At(tw, UpTo(Len(out)))
         ELSE \E w : /\ At(w, UpTo(Len(out)))
                     /\ tw.archive = FinalPadding(w) \o EndMarker

(* Where pieces in order start and end, within the stream.                 *)
LEMMA UpToFacts ==
  /\ \A m \in Nat : UpTo(m) \in Nat /\ UpTo(m) <= total_length
  /\ \A p \in Pieces : /\ UpTo(p) = Least(PieceStart(p), total_length)
                       /\ UpTo(p + 1) = Least(PieceEnd(p), total_length)
<1>0. total_length \in Nat
  BY FileStartsInOrder
<1>1. ASSUME NEW m \in Nat PROVE UpTo(m) \in Nat /\ UpTo(m) <= total_length
  <2>1. CASE m = 0
    BY <1>0, <2>1 DEF UpTo
  <2>2. CASE m # 0
    <3>1. m - 1 \in Nat
      BY <2>2
    <3>2. PieceEnd(m - 1) \in Nat
      BY <3>1, PieceFacts DEF PieceEnd
    <3> QED BY <1>0, <2>2, <3>2 DEF UpTo, Least
  <2> QED BY <2>1, <2>2
<1>2. ASSUME NEW p \in Pieces
      PROVE  /\ UpTo(p) = Least(PieceStart(p), total_length)
             /\ UpTo(p + 1) = Least(PieceEnd(p), total_length)
  <2>1. p \in Nat /\ p < PieceTotal /\ PieceTotal \in Nat /\ PieceLength \in Nat
    BY LayoutAssumption, SamePiecesAssumption, ParametersAssumption DEF Pieces
  <2>2. UpTo(p + 1) = Least(PieceEnd(p), total_length)
    <3>1. p + 1 # 0 /\ (p + 1) - 1 = p
      BY <2>1
    <3> QED BY <3>1 DEF UpTo
  <2>3. CASE p = 0
    <3>1. PieceStart(0) = 0
      BY <2>1 DEF PieceStart
    <3> QED BY <1>0, <2>2, <2>3, <3>1 DEF UpTo, Least
  <2>4. CASE p # 0
    <3> DEFINE q == p - 1
    <3>1. q \in Nat /\ q + 1 = p /\ q < PieceTotal - 1
      BY <2>1, <2>4
    <3>2. UpTo(p) = Least(PieceEnd(q), total_length)
      BY <2>4 DEF UpTo
    <3> HIDE DEF q
    <3>3. piece_size(q) = PieceLength
      BY <3>1 DEF piece_size
    <3>4. PieceStart(q + 1) = PieceStart(q) + PieceLength
      <4>1. PieceLength * (q + 1) = PieceLength * q + PieceLength
        BY <3>1, LayoutAssumption, Products
      <4>2. q * PieceLength = PieceLength * q /\ (q + 1) * PieceLength = PieceLength * (q + 1)
        BY <2>1, <3>1
      <4> QED BY <4>1, <4>2 DEF PieceStart
    <3> QED BY <2>2, <3>1, <3>2, <3>3, <3>4 DEF PieceEnd
  <2> QED BY <2>2, <2>3, <2>4
<1> QED BY <1>1, <1>2

(* How far the stream has come, by the number of pieces.                   *)
LEMMA ReceivedIs ==
  ASSUME BInv
  PROVE  Received = UpTo(Len(out)) /\ Len(out) \in Nat
<1>1. out \in Seq(Delivery)
  BY DEF BInv, TypeOK
<1> HIDE DEF Delivery
<1>2. Len(out) \in Nat /\ (out = <<>> <=> Len(out) = 0)
  BY <1>1
<1> QED BY <1>2 DEF Received, UpTo, PieceEnd

(* A piece that keeps the order is the one that follows.                   *)
LEMMA NextInOrder ==
  ASSUME BInv, i \in Pieces, AcceptPiece, InOrder'
  PROVE  InOrder /\ i = Len(out) /\ Len(out') = Len(out) + 1
<1> DEFINE d == [piece |-> i, data |-> buf]
<1>1. out \in Seq(Delivery) /\ out' = Append(out, d)
  BY DEF BInv, TypeOK, AcceptPiece
<1>2. d.piece = i
  OBVIOUS
<1> HIDE DEF d
<1>3. out \in Seq(Delivery \cup {d}) /\ d \in Delivery \cup {d}
  BY <1>1
<1> HIDE DEF Delivery
<1>4. /\ Len(out) \in Nat /\ Len(out') = Len(out) + 1
      /\ DOMAIN out = 1 .. Len(out) /\ DOMAIN out' = 1 .. Len(out) + 1
      /\ \A k \in 1 .. Len(out) : out'[k] = out[k]
      /\ out'[Len(out) + 1] = d
  BY <1>1, <1>3
<1>5. \A k \in 1 .. Len(out) + 1 : out'[k].piece = k - 1
  BY <1>4 DEF InOrder
<1>6. i = Len(out)
  <2>1. out'[Len(out) + 1].piece = (Len(out) + 1) - 1
    BY <1>4, <1>5
  <2> QED BY <1>2, <1>4, <2>1
<1>7. InOrder
  BY <1>4, <1>5 DEF InOrder
<1> QED BY <1>4, <1>6, <1>7

(* The next piece takes the bytes done from its start to its end.          *)
LEMMA AcceptedInOrder ==
  ASSUME BInv, InStep, i \in Pieces, AcceptPiece, InOrder'
  PROVE  /\ DoneBytes' = 0 .. UpTo(Len(out')) - 1
         /\ UpTo(Len(out)) = Least(PieceStart(i), total_length)
         /\ UpTo(Len(out')) = Least(PieceEnd(i), total_length)
<1> DEFINE ps == PieceStart(i)
           pe == PieceEnd(i)
           t == total_length
<1>1. InOrder /\ i = Len(out) /\ Len(out') = i + 1 /\ i \in Nat
  BY NextInOrder, BytesOfPiece
<1>2. UpTo(Len(out)) = Least(ps, t) /\ UpTo(Len(out')) = Least(pe, t)
  BY <1>1, UpToFacts
<1>3. DoneBytes = 0 .. Least(ps, t) - 1
  BY <1>1, <1>2 DEF InStep
<1>4. DoneBytes' = DoneBytes \cup {x \in PieceBytes(i) : x < t}
  <2>1. pieces_done' = pieces_done \cup {i}
    BY DEF AcceptPiece
  <2> QED BY <2>1, OnePieceMore DEF DoneBytes
<1>5. /\ PieceBytes(i) = ps .. pe - 1
      /\ ps \in Nat /\ pe \in Nat /\ ps <= pe /\ t \in Nat
  <2>1. PieceStart(i) \in Nat /\ piece_size(i) \in Nat
    BY <1>1, PieceFacts
  <2> QED BY <2>1, FileStartsInOrder, SMTT(30) DEF PieceBytes, PieceEnd
<1> HIDE DEF ps, pe, t
<1>6. DoneBytes' = (0 .. Least(ps, t) - 1) \cup {x \in ps .. pe - 1 : x < t}
  BY <1>3, <1>4, <1>5
<1>7. (0 .. Least(ps, t) - 1) \cup {x \in ps .. pe - 1 : x < t} = 0 .. Least(pe, t) - 1
  BY <1>5 DEF Least
<1> QED BY <1>2, <1>6, <1>7 DEF ps, pe, t

(* Every step keeps the writer where the pieces end.                       *)
LEMMA InStepStep ==
  ASSUME BInv, InStep, [OutputNext]_outputVars
  PROVE  InStep'
<1> SUFFICES ASSUME InOrder'
             PROVE  /\ DoneBytes' = 0 .. UpTo(Len(out')) - 1
                    /\ use_tar' =>
                         IF pc' # "returned" THEN At(tw', UpTo(Len(out')))
                         ELSE \E w : /\ At(w, UpTo(Len(out')))
                                     /\ tw'.archive = FinalPadding(w) \o EndMarker
  BY DEF InStep
<1>0. use_tar' = use_tar
  BY OutputSteps
<1>1. ASSUME UNCHANGED result
      PROVE  /\ InOrder /\ out' = out /\ DoneBytes' = 0 .. UpTo(Len(out')) - 1
             /\ use_tar => IF pc # "returned" THEN At(tw, UpTo(Len(out')))
                           ELSE \E w : /\ At(w, UpTo(Len(out')))
                                       /\ tw.archive = FinalPadding(w) \o EndMarker
  <2>1. out' = out /\ pieces_done' = pieces_done
    BY <1>1 DEF result
  <2>2. InOrder /\ DoneBytes' = DoneBytes
    BY <2>1 DEF InOrder, DoneBytes
  <2> QED BY <2>1, <2>2 DEF InStep
<1>2. CASE use_tar
  <2>1. CASE /\ i \in Pieces /\ i \notin pieces_done /\ AcceptPiece /\ tar_writer_write(i)
             /\ pc # "returned" /\ pc' # "returned"
    <3>1. /\ DoneBytes' = 0 .. UpTo(Len(out')) - 1
          /\ UpTo(Len(out)) = Least(PieceStart(i), total_length)
          /\ UpTo(Len(out')) = Least(PieceEnd(i), total_length)
          /\ i \in Nat
      BY <2>1, AcceptedInOrder, BytesOfPiece
    <3>2. At(tw, UpTo(Len(out)))
      BY <1>2, <2>1, NextInOrder DEF InStep
    <3>3. At(AfterPass(tw, i), Least(PieceEnd(i), total_length))
      BY <3>1, <3>2, PassContinues
    <3>4. At(tw', UpTo(Len(out')))
      BY <2>1, <3>1, <3>3 DEF tar_writer_write
    <3> QED BY <2>1, <3>1, <3>4
  <2>2. CASE UNCHANGED <<result, tw>> /\ (pc' = "returned" <=> pc = "returned")
    BY <1>1, <1>2, <2>2
  <2>3. CASE /\ UNCHANGED result /\ tar_writer_close
             /\ pc # "returned" /\ pc' = "returned"
    <3>1. At(tw, UpTo(Len(out')))
      BY <1>1, <1>2, <2>3
    <3>2. tw'.archive = FinalPadding(tw) \o EndMarker
      <4>1. tw' = [tw EXCEPT !.archive = FinalPadding(tw) \o EndMarker]
        BY <2>3 DEF tar_writer_close
      <4>2. "archive" \in DOMAIN tw
        BY <3>1 DEF At, Writer
      <4> QED BY <4>1, <4>2
    <3> QED BY <1>1, <2>3, <3>1, <3>2
  <2> QED BY <1>2, <2>1, <2>2, <2>3, TarSteps
<1>3. CASE ~use_tar
  BY <1>0, <1>1, <1>3, OutputSteps, AcceptedInOrder
<1> QED BY <1>2, <1>3

(* The empty stream is at the start.                                       *)
LEMMA InStepInit == ASSUME OutputInit PROVE InStep
<1>1. /\ tw = [archive |-> <<>>, file |-> 0, written |-> 0]
      /\ out = <<>> /\ pieces_done = {} /\ pc # "returned"
  BY DEF OutputInit, setup_output_context, tar_writer_open, Init
<1>2. Len(out) = 0
  BY <1>1
<1>3. UpTo(Len(out)) = 0
  BY <1>2 DEF UpTo
<1>4. DoneBytes = 0 .. 0 - 1
  BY <1>1 DEF DoneBytes, BytesOf
<1>5. At(tw, 0)
  <2>1. tw \in Writer
    <3>1. <<>> \in Seq(Cell) /\ 0 \in 0 .. FileCount
      <4> HIDE DEF Cell
      <4> QED BY FileStartEquation
    <3> QED BY <1>1, <3>1 DEF Writer
  <2>2. ReferenceUpTo[0] = <<>> /\ FileStart[0 + 1] = 0
    <3>1. 0 + 1 = 1
      OBVIOUS
    <3> QED BY <3>1, ReferenceEquation, FileStartEquation
  <2>3. tw.file = 0 /\ tw.archive = <<>>
    BY <1>1
  <2>4. Between(tw, tw.file, 0)
    BY <2>2, <2>3 DEF Between
  <2> QED BY <2>1, <2>4 DEF At
<1> QED BY <1>1, <1>3, <1>4, <1>5 DEF InStep

(* A complete download in order has reached the end of the stream.         *)
LEMMA CompleteIsAll ==
  ASSUME BInv, InStep, InOrder, Complete
  PROVE  UpTo(Len(out)) = total_length
<1> DEFINE x == UpTo(Len(out))
<1>1. x \in Nat /\ x <= total_length /\ total_length \in Nat
  BY ReceivedIs, UpToFacts, FileStartsInOrder
<1>2. DoneBytes = 0 .. x - 1
  BY DEF InStep
<1> HIDE DEF x
<1>3. ASSUME x < total_length PROVE FALSE
  <2>1. PICK p \in 0 .. PieceTotal - 1 : x \in PieceBytes(p)
    BY <1>1, <1>3, PiecesCoverStream DEF Complete
  <2>2. p \in Pieces
    BY SamePiecesAssumption DEF Pieces
  <2>3. p \in pieces_done
    BY <2>2, NoneLeft DEF Complete
  <2>4. x \in DoneBytes
    BY <1>1, <1>3, <2>1, <2>3 DEF DoneBytes, BytesOf
  <2> QED BY <1>1, <1>2, <2>4
<1> QED BY <1>1, <1>3 DEF x

(* When pieces arrive in order and no write falls short the output is at   *)
(* every moment a beginning of the reference archive, with the bytes       *)
(* received and no other; closed, it has whole blocks and the end marker,  *)
(* and after a complete download it is the reference archive and the end   *)
(* marker.                                                                 *)
THEOREM TarMatchesReferenceHolds == OutputSpec => []TarMatchesReference
<1>1. OutputInit => BInv /\ Streamed /\ InStep
  BY BInvInit, StreamedInit, InStepInit DEF OutputInit
<1>2. BInv /\ Streamed /\ InStep /\ [OutputNext]_outputVars => BInv' /\ Streamed' /\ InStep'
  <2> SUFFICES ASSUME BInv, Streamed, InStep, [OutputNext]_outputVars
               PROVE  BInv' /\ Streamed' /\ InStep'
    OBVIOUS
  <2>1. BInv'
    BY OutputSteps, BInvStep
  <2> QED BY <2>1, StreamedStep, InStepStep
<1>3. BInv /\ Streamed /\ InStep => TarMatchesReference
  <2> SUFFICES ASSUME BInv, Streamed, InStep, use_tar, InOrder
               PROVE  IF pc # "returned"
                      THEN /\ IsPrefix(tw.archive, ReferenceArchive)
                           /\ DataIn(tw.archive) = 0 .. Received - 1
                      ELSE /\ Len(tw.archive) % TarBlock = 0
                           /\ IsSuffix(EndMarker, tw.archive)
                           /\ Complete => tw.archive = ReferenceArchive \o EndMarker
    BY DEF TarMatchesReference
  <2> DEFINE x == UpTo(Len(out))
  <2>1. Received = x /\ x \in Nat
    BY ReceivedIs, UpToFacts
  <2>2. CASE pc # "returned"
    <3>1. DataIn(tw.archive) = 0 .. Received - 1
      BY <2>1 DEF Streamed, Carries, InStep
    <3>2. At(tw, x)
      BY <2>2 DEF InStep
    <3> HIDE DEF x
    <3>3. Begins(tw.archive, ReferenceArchive)
      BY <2>1, <3>2, BeginsReference
    <3>4. PICK rest \in Seq(Cell) : ReferenceArchive = tw.archive \o rest
      BY <3>3 DEF Begins
    <3>5. IsPrefix(tw.archive, tw.archive \o rest)
      BY PrefixAndSuffix DEF Streamed, Carries
    <3>6. IsPrefix(tw.archive, ReferenceArchive)
      BY <3>4, <3>5
    <3> QED BY <2>2, <3>1, <3>6
  <2>3. CASE ~(pc # "returned")
    <3>1. PICK w : At(w, x) /\ tw.archive = FinalPadding(w) \o EndMarker
      BY <2>3 DEF InStep
    <3>2. Complete => x = total_length
      BY CompleteIsAll
    <3> HIDE DEF x
    <3>3. /\ Len(FinalPadding(w) \o EndMarker) % TarBlock = 0
          /\ x = total_length => FinalPadding(w) = ReferenceArchive
      BY <2>1, <3>1, ClosingAt
    <3>4. IsSuffix(EndMarker, FinalPadding(w) \o EndMarker)
      <4>1. w \in Writer
        BY <3>1 DEF At
      <4>2. FinalPadding(w) \in Seq(Cell) /\ EndMarker \in Seq(Cell)
        BY <4>1, ClosedWith
      <4> QED BY <4>2, PrefixAndSuffix
    <3>5. IsSuffix(EndMarker, tw.archive) /\ Len(tw.archive) % TarBlock = 0
      BY <3>1, <3>3, <3>4
    <3>6. Complete => tw.archive = ReferenceArchive \o EndMarker
      BY <3>1, <3>2, <3>3
    <3> QED BY <2>3, <3>5, <3>6
  <2> QED BY <2>2, <2>3
<1> QED BY <1>1, <1>2, <1>3, PTL DEF OutputSpec
=============================================================================
