----------------------------- MODULE GameProofs -----------------------------
(***************************************************************************)
(* For a board and a table of any size, and any number of games, starts    *)
(* and accidents in saving: the score is what the tiles earned, the end of *)
(* a game is flagged when no move is left, and the table holds the best    *)
(* results and no other. The way there: sums and the worth of rows,        *)
(* merging and sliding, boards and moves, then sorting and the games       *)
(* behind the entries of a table.                                          *)
(***************************************************************************)
EXTENDS Game2048, Induction, FiniteSetTheorems, FunctionTheorems, SequenceTheorems

-----------------------------------------------------------------------------
(* Sums.                                                                   *)

(* The functions that can be summed.                                       *)
Summable(f, n) == \A k \in 1 .. n : f[k] \in Int

(* A sum is what its recursion says.                                       *)
LEMMA TotalEquation ==
  ASSUME NEW n \in Nat, NEW f, Summable(f, n)
  PROVE  \E s \in [0 .. n -> Int] :
           /\ s[0] = 0 /\ s[n] = Total(f, n)
           /\ \A k \in 1 .. n : s[k] = s[k - 1] + f[k]
<1> DEFINE sum == CHOOSE s : s = [k \in 0 .. n |-> IF k = 0 THEN 0 ELSE s[k - 1] + f[k]]
           h == [p \in (1 .. n) \X Int |-> p[2] + f[p[1]]]
<1>1. h \in Steps(n, Int)
  BY DEF Steps, Summable
<1>2. PICK g : Recursion(g, n, Int, 0, h)
  <2> HIDE DEF h
  <2> QED BY <1>1, RecursionExists
<1>3. \A k \in 1 .. n : g[k] = g[k - 1] + f[k]
  <2> TAKE k \in 1 .. n
  <2>1. k - 1 \in 0 .. n /\ g[k - 1] \in Int
    BY <1>2 DEF Recursion
  <2>2. h[<<k, g[k - 1]>>] = g[k - 1] + f[k]
    BY <2>1
  <2> QED BY <1>2, <2>2 DEF Recursion
<1>4. g = [k \in 0 .. n |-> IF k = 0 THEN 0 ELSE g[k - 1] + f[k]]
  <2>1. g \in [0 .. n -> Int] /\ g[0] = 0
    BY <1>2 DEF Recursion
  <2>2. \A k \in 0 .. n : g[k] = IF k = 0 THEN 0 ELSE g[k - 1] + f[k]
    BY <1>3, <2>1
  <2> QED BY <2>1, <2>2
<1>5. sum = [k \in 0 .. n |-> IF k = 0 THEN 0 ELSE sum[k - 1] + f[k]]
  BY <1>4
<1>6. Total(f, n) = sum[n]
  BY DEF Total
<1> HIDE DEF sum
<1>7. sum[0] = 0 /\ \A k \in 1 .. n : sum[k] = sum[k - 1] + f[k]
  BY <1>5
<1> DEFINE T == {k \in Nat : k <= n => sum[k] \in Int}
<1>8. 0 \in T
  BY <1>7
<1>9. ASSUME NEW k \in Nat, k \in T PROVE k + 1 \in T
  <2> SUFFICES ASSUME k + 1 <= n PROVE sum[k + 1] \in Int
    OBVIOUS
  <2>1. k + 1 \in 1 .. n /\ (k + 1) - 1 = k /\ k <= n
    OBVIOUS
  <2> QED BY <1>7, <1>9, <2>1 DEF Summable
<1> HIDE DEF T
<1>10. \A k \in Nat : k \in T
  BY <1>8, <1>9, NatInductionSet
<1>11. sum \in [0 .. n -> Int]
  BY <1>5, <1>10 DEF T
<1> QED BY <1>6, <1>7, <1>11

(* No numbers sum up to 0.                                                 *)
LEMMA TotalZero ==
  ASSUME NEW f PROVE Total(f, 0) = 0
BY TotalEquation DEF Summable

(* One more number adds to the sum of those before.                        *)
LEMMA TotalNext ==
  ASSUME NEW n \in Nat, NEW f, Summable(f, n + 1)
  PROVE  /\ Total(f, n) \in Int
         /\ Total(f, n + 1) = Total(f, n) + f[n + 1]
<1>1. Summable(f, n)
  BY DEF Summable
<1>2. PICK s \in [0 .. n -> Int] :
        s[0] = 0 /\ s[n] = Total(f, n) /\ \A k \in 1 .. n : s[k] = s[k - 1] + f[k]
  BY <1>1, TotalEquation
<1>3. PICK u \in [0 .. n + 1 -> Int] :
        /\ u[0] = 0 /\ u[n + 1] = Total(f, n + 1)
        /\ \A k \in 1 .. n + 1 : u[k] = u[k - 1] + f[k]
  <2>1. n + 1 \in Nat
    OBVIOUS
  <2> QED BY <2>1, TotalEquation
<1> DEFINE T == {k \in Nat : k <= n => s[k] = u[k]}
<1>4. 0 \in T
  BY <1>2, <1>3
<1>5. ASSUME NEW k \in Nat, k \in T PROVE k + 1 \in T
  <2> SUFFICES ASSUME k + 1 <= n PROVE s[k + 1] = u[k + 1]
    OBVIOUS
  <2>1. k + 1 \in 1 .. n /\ k + 1 \in 1 .. n + 1 /\ (k + 1) - 1 = k /\ k <= n
    OBVIOUS
  <2> QED BY <1>2, <1>3, <1>5, <2>1
<1> HIDE DEF T
<1>6. n \in T
  BY <1>4, <1>5, NatInductionSet
<1>7. s[n] = u[n] /\ s[n] \in Int
  BY <1>6 DEF T
<1>8. u[n + 1] = u[(n + 1) - 1] + f[n + 1] /\ (n + 1) - 1 = n
  BY <1>3
<1> QED BY <1>2, <1>3, <1>7, <1>8

(* A sum of integers is an integer.                                        *)
LEMMA TotalType ==
  ASSUME NEW n \in Nat, NEW f, Summable(f, n)
  PROVE  Total(f, n) \in Int
BY TotalEquation

(* An induction over the length of a sum.                                  *)
LEMMA TotalSame ==
  ASSUME NEW n \in Nat, NEW f, NEW g, Summable(f, n), \A k \in 1 .. n : f[k] = g[k]
  PROVE  Total(f, n) = Total(g, n)
<1> DEFINE T == {k \in Nat : k <= n => Total(f, k) = Total(g, k)}
<1>1. 0 \in T
  BY TotalZero
<1>2. ASSUME NEW k \in Nat, k \in T PROVE k + 1 \in T
  <2> SUFFICES ASSUME k + 1 <= n PROVE Total(f, k + 1) = Total(g, k + 1)
    OBVIOUS
  <2>1. Summable(f, k + 1) /\ Summable(g, k + 1) /\ k <= n /\ k + 1 \in 1 .. n
    BY DEF Summable
  <2>2. Total(f, k + 1) = Total(f, k) + f[k + 1] /\ Total(g, k + 1) = Total(g, k) + g[k + 1]
    BY <2>1, TotalNext
  <2> QED BY <1>2, <2>1, <2>2
<1> HIDE DEF T
<1>3. n \in T
  BY <1>1, <1>2, NatInductionSet
<1> QED BY <1>3 DEF T

(* Sums are added number by number.                                        *)
LEMMA TotalAdds ==
  ASSUME NEW n \in Nat, NEW f, NEW g, NEW h, Summable(f, n), Summable(g, n),
         \A k \in 1 .. n : h[k] = f[k] + g[k]
  PROVE  Total(h, n) = Total(f, n) + Total(g, n)
<1> DEFINE T == {k \in Nat : k <= n => Total(h, k) = Total(f, k) + Total(g, k)}
<1>1. 0 \in T
  BY TotalZero
<1>2. ASSUME NEW k \in Nat, k \in T PROVE k + 1 \in T
  <2> SUFFICES ASSUME k + 1 <= n PROVE Total(h, k + 1) = Total(f, k + 1) + Total(g, k + 1)
    OBVIOUS
  <2>1. Summable(f, k + 1) /\ Summable(g, k + 1) /\ Summable(h, k + 1) /\ k <= n /\ k + 1 \in 1 .. n
    BY DEF Summable
  <2>2. /\ Total(f, k + 1) = Total(f, k) + f[k + 1] /\ Total(f, k) \in Int
        /\ Total(g, k + 1) = Total(g, k) + g[k + 1] /\ Total(g, k) \in Int
        /\ Total(h, k + 1) = Total(h, k) + h[k + 1] /\ Total(h, k) \in Int
    BY <2>1, TotalNext
  <2>3. f[k + 1] \in Int /\ g[k + 1] \in Int /\ h[k + 1] = f[k + 1] + g[k + 1]
    BY <2>1 DEF Summable
  <2> QED BY <1>2, <2>1, <2>2, <2>3
<1> HIDE DEF T
<1>3. n \in T
  BY <1>1, <1>2, NatInductionSet
<1> QED BY <1>3 DEF T

(* Zeros sum up to zero.                                                   *)
LEMMA TotalOfZeros ==
  ASSUME NEW n \in Nat, NEW f, \A k \in 1 .. n : f[k] = 0
  PROVE  Total(f, n) = 0
<1> DEFINE T == {k \in Nat : k <= n => Total(f, k) = 0}
<1>1. 0 \in T
  BY TotalZero
<1>2. ASSUME NEW k \in Nat, k \in T PROVE k + 1 \in T
  <2> SUFFICES ASSUME k + 1 <= n PROVE Total(f, k + 1) = 0
    OBVIOUS
  <2>1. Summable(f, k + 1) /\ k <= n /\ k + 1 \in 1 .. n
    BY DEF Summable
  <2> QED BY <1>2, <2>1, TotalNext
<1> HIDE DEF T
<1>3. n \in T
  BY <1>1, <1>2, NatInductionSet
<1> QED BY <1>3 DEF T

(* When one number changes the sum changes by as much.                     *)
LEMMA TotalChange ==
  ASSUME NEW n \in Nat, NEW f, NEW g, Summable(f, n), NEW i \in 1 .. n, g[i] \in Int,
         \A k \in 1 .. n : k # i => g[k] = f[k]
  PROVE  Total(g, n) = Total(f, n) + g[i] - f[i]
<1> DEFINE T == {k \in Nat : k <= n =>
                   Total(g, k) = Total(f, k) + (IF k < i THEN 0 ELSE g[i] - f[i])}
<1>0. \A k \in 1 .. n : g[k] \in Int /\ f[k] \in Int
  BY DEF Summable
<1>1. 0 \in T
  BY TotalZero
<1>2. ASSUME NEW k \in Nat, k \in T PROVE k + 1 \in T
  <2> SUFFICES ASSUME k + 1 <= n
               PROVE  Total(g, k + 1) = Total(f, k + 1) + (IF k + 1 < i THEN 0 ELSE g[i] - f[i])
    OBVIOUS
  <2>1. Summable(f, k + 1) /\ Summable(g, k + 1) /\ k <= n /\ k + 1 \in 1 .. n
    BY <1>0 DEF Summable
  <2>2. /\ Total(f, k + 1) = Total(f, k) + f[k + 1] /\ Total(f, k) \in Int
        /\ Total(g, k + 1) = Total(g, k) + g[k + 1] /\ Total(g, k) \in Int
    BY <2>1, TotalNext
  <2>3. Total(g, k) = Total(f, k) + (IF k < i THEN 0 ELSE g[i] - f[i])
    BY <1>2, <2>1
  <2>4. CASE k + 1 = i
    BY <1>0, <2>1, <2>2, <2>3, <2>4
  <2>5. CASE k + 1 # i
    <3>1. g[k + 1] = f[k + 1] /\ (k < i <=> k + 1 < i)
      BY <2>1, <2>5
    <3> QED BY <1>0, <2>1, <2>2, <2>3, <3>1
  <2> QED BY <2>4, <2>5
<1> HIDE DEF T
<1>3. n \in T
  BY <1>1, <1>2, NatInductionSet
<1>4. Total(f, n) \in Int
  BY TotalType
<1> QED BY <1>0, <1>3, <1>4 DEF T

(* A sum goes on behind another.                                           *)
Joined(h, f, m, g, n) ==
  (\A k \in 1 .. m : h[k] = f[k]) /\ (\A k \in 1 .. n : h[m + k] = g[k])

(* The sum of what is joined is the sum of the two parts.                  *)
LEMMA TotalJoins ==
  ASSUME NEW m \in Nat, NEW n \in Nat, NEW f, NEW g, NEW h, Summable(f, m), Summable(g, n),
         Joined(h, f, m, g, n)
  PROVE  Total(h, m + n) = Total(f, m) + Total(g, n)
<1> USE DEF Joined
<1> DEFINE T == {k \in Nat : k <= n => Total(h, m + k) = Total(f, m) + Total(g, k)}
<1>0. Total(f, m) \in Int
  BY TotalType
<1>1. 0 \in T
  <2>1. Total(h, m) = Total(f, m)
    BY TotalSame
  <2> QED BY <1>0, <2>1, TotalZero
<1>2. ASSUME NEW k \in Nat, k \in T PROVE k + 1 \in T
  <2> SUFFICES ASSUME k + 1 <= n PROVE Total(h, m + (k + 1)) = Total(f, m) + Total(g, k + 1)
    OBVIOUS
  <2>1. Summable(g, k + 1) /\ k <= n /\ k + 1 \in 1 .. n
    BY DEF Summable
  <2>2. Summable(h, (m + k) + 1)
    <3> SUFFICES ASSUME NEW i \in 1 .. (m + k) + 1 PROVE h[i] \in Int
      BY DEF Summable
    <3>1. CASE i <= m
      BY <3>1 DEF Summable
    <3>2. CASE i > m
      <4>1. i - m \in 1 .. n /\ m + (i - m) = i
        BY <3>2, <2>1
      <4> QED BY <4>1 DEF Summable
    <3> QED BY <3>1, <3>2
  <2>3. Total(g, k + 1) = Total(g, k) + g[k + 1] /\ Total(g, k) \in Int
    BY <2>1, TotalNext
  <2>4. m + k \in Nat /\ (m + k) + 1 = m + (k + 1)
    OBVIOUS
  <2>5. Total(h, (m + k) + 1) = Total(h, m + k) + h[(m + k) + 1]
    BY <2>2, <2>4, TotalNext
  <2>6. h[m + (k + 1)] = g[k + 1] /\ g[k + 1] \in Int
    BY <2>1 DEF Summable
  <2>7. Total(h, m + k) = Total(f, m) + Total(g, k)
    BY <1>2, <2>1
  <2> QED BY <1>0, <2>3, <2>4, <2>5, <2>6, <2>7
<1> HIDE DEF T
<1>3. n \in T
  BY <1>1, <1>2, NatInductionSet
<1> QED BY <1>3 DEF T

(* A sum counted from the other end.                                       *)
LEMMA TotalReverse ==
  ASSUME NEW n \in Nat, NEW f, NEW g, Summable(f, n), \A k \in 1 .. n : g[k] = f[n + 1 - k]
  PROVE  Total(g, n) = Total(f, n)
<1> DEFINE T == {k \in Nat : k <= n => Total(f, n) = Total(f, n - k) + Total(g, k)}
<1>0. Total(f, n) \in Int /\ Summable(g, n)
  <2>1. \A k \in 1 .. n : n + 1 - k \in 1 .. n
    OBVIOUS
  <2> QED BY <2>1, TotalType DEF Summable
<1>1. 0 \in T
  BY <1>0, TotalZero
<1>2. ASSUME NEW k \in Nat, k \in T PROVE k + 1 \in T
  <2> SUFFICES ASSUME k + 1 <= n
               PROVE  Total(f, n) = Total(f, n - (k + 1)) + Total(g, k + 1)
    OBVIOUS
  <2> DEFINE m == n - (k + 1)
  <2>1. m \in Nat /\ m + 1 = n - k /\ m + 1 = n + 1 - (k + 1) /\ k <= n /\ k + 1 \in 1 .. n
        /\ m + 1 \in 1 .. n /\ m <= n
    OBVIOUS
  <2>2. Summable(f, m + 1) /\ Summable(g, k + 1)
    BY <1>0, <2>1 DEF Summable
  <2>3. Total(f, m + 1) = Total(f, m) + f[m + 1] /\ Total(f, m) \in Int
    BY <2>1, <2>2, TotalNext
  <2>4. Total(g, k + 1) = Total(g, k) + g[k + 1] /\ Total(g, k) \in Int
    BY <2>2, TotalNext
  <2>5. g[k + 1] = f[m + 1] /\ f[m + 1] \in Int
    BY <2>1 DEF Summable
  <2>6. Total(f, n) = Total(f, m + 1) + Total(g, k)
    BY <1>2, <2>1
  <2> HIDE DEF m
  <2>7. Total(f, n) = Total(f, m) + Total(g, k + 1)
    BY <1>0, <2>3, <2>4, <2>5, <2>6
  <2> QED BY <2>7 DEF m
<1> HIDE DEF T
<1>3. n \in T
  BY <1>1, <1>2, NatInductionSet
<1>4. n - n = 0 /\ Total(g, n) \in Int
  BY <1>0, TotalType
<1> QED BY <1>3, <1>4, TotalZero DEF T

(* A table of numbers has one sum, by rows or by columns.                  *)
Grid(w, n, m) == Total([i \in 1 .. n |-> Total([j \in 1 .. m |-> w[i][j]], m)], n)
Turned(w, u, n, m) ==
  \A i \in 1 .. n, j \in 1 .. m : w[i][j] \in Int /\ u[j][i] = w[i][j]

(* A table of numbers has one sum, by rows and by columns.                 *)
LEMMA TotalByColumns ==
  ASSUME NEW m \in Nat, NEW n \in Nat, NEW w, NEW u, Turned(w, u, n, m)
  PROVE  Grid(w, n, m) = Grid(u, m, n)
<1> USE DEF Grid, Turned
<1> DEFINE Row(i) == [j \in 1 .. m |-> w[i][j]]
           Col(j) == [i \in 1 .. n |-> u[j][i]]
           R == [i \in 1 .. n |-> Total(Row(i), m)]
           C(k) == [j \in 1 .. m |-> Total(Col(j), k)]
           T == {k \in Nat : k <= n => Total(R, k) = Total(C(k), m)}
<1>1. \A i \in 1 .. n : Summable(Row(i), m)
  BY DEF Summable
<1>2. \A j \in 1 .. m : Summable(Col(j), n)
  BY DEF Summable
<1>3. Summable(R, n)
  BY <1>1, TotalType DEF Summable
<1>4. 0 \in T
  <2>1. \A j \in 1 .. m : C(0)[j] = 0
    BY TotalZero
  <2> HIDE DEF C
  <2>2. Total(C(0), m) = 0
    BY <2>1, TotalOfZeros
  <2> QED BY <2>2, TotalZero
<1>5. ASSUME NEW k \in Nat, k \in T PROVE k + 1 \in T
  <2> SUFFICES ASSUME k + 1 <= n PROVE Total(R, k + 1) = Total(C(k + 1), m)
    OBVIOUS
  <2>1. k <= n /\ k + 1 \in 1 .. n
    OBVIOUS
  <2>2. \A j \in 1 .. m : Total(Col(j), k) \in Int
                          /\ Total(Col(j), k + 1) = Total(Col(j), k) + Col(j)[k + 1]
    <3> TAKE j \in 1 .. m
    <3>1. Summable(Col(j), k + 1)
      BY <1>2, <2>1 DEF Summable
    <3> HIDE DEF Col
    <3> QED BY <3>1, TotalNext
  <2>3. \A j \in 1 .. m : C(k + 1)[j] = C(k)[j] + Row(k + 1)[j]
    BY <2>1, <2>2
  <2>4. Summable(C(k), m)
    BY <2>2 DEF Summable
  <2>5. Summable(Row(k + 1), m)
    BY <1>1, <2>1
  <2>6. R[k + 1] = Total(Row(k + 1), m)
    BY <2>1
  <2>7. Summable(R, k + 1)
    BY <1>3, <2>1 DEF Summable
  <2>8. Total(R, k) = Total(C(k), m)
    BY <1>5, <2>1
  <2> HIDE DEF C, R, Row, Col
  <2>9. Total(C(k + 1), m) = Total(C(k), m) + Total(Row(k + 1), m)
    BY <2>3, <2>4, <2>5, TotalAdds
  <2>10. Total(R, k + 1) = Total(R, k) + R[k + 1]
    BY <2>7, TotalNext
  <2> QED BY <2>6, <2>8, <2>9, <2>10
<1> HIDE DEF T
<1>6. n \in T
  BY <1>4, <1>5, NatInductionSet
<1>7. Total(R, n) = Total(C(n), m)
  BY <1>6 DEF T
<1> QED BY <1>7

-----------------------------------------------------------------------------
(* What tiles are worth, and what a number starts with: both are defined   *)
(* by going down to a smaller number.                                      *)
LEMMA WorthEquation ==
  /\ Worth \in [Nat -> Nat]
  /\ \A v \in Nat : Worth[v] = IF v <= 2 THEN 0 ELSE v + 2 * Worth[v \div 2]
<1> DEFINE V == Nat
           d == [v \in Nat |-> v \div 2]
           h == [p \in Nat \X Nat |-> p[1] + 2 * p[2]]
           Is(f) == f = [v \in Nat |-> IF v <= 2 THEN 0 ELSE v + 2 * f[v \div 2]]
<1>1. Descends(d, 2)
  <2>1. \A v \in Nat : v \div 2 \in Nat /\ (v > 2 => v \div 2 \in 0 .. v - 1)
    OBVIOUS
  <2> QED BY <2>1 DEF Descends
<1>2. h \in Downward(V) /\ 0 \in V
  BY DEF Downward
<1> HIDE DEF d, h, V
<1>3. PICK f \in [Nat -> V] : \A v \in Nat : f[v] = IF v <= 2 THEN 0 ELSE h[<<v, f[d[v]]>>]
  BY <1>1, <1>2, DescentExists
<1>4. \A v \in Nat : f[v] = IF v <= 2 THEN 0 ELSE v + 2 * f[v \div 2]
  <2> TAKE v \in Nat
  <2>1. d[v] = v \div 2 /\ d[v] \in Nat /\ f[d[v]] \in Nat
    BY <1>3 DEF d, V
  <2>2. h[<<v, f[d[v]]>>] = v + 2 * f[d[v]]
    BY <2>1 DEF h
  <2> QED BY <1>3, <2>1, <2>2
<1>5. Is(f)
  BY <1>3, <1>4 DEF V
<1>6. Worth = CHOOSE w : Is(w)
  BY DEF Worth
<1> HIDE DEF Is
<1>7. Is(Worth)
  BY <1>5, <1>6
<1>8. \A v \in Nat : Worth[v] = IF v <= 2 THEN 0 ELSE v + 2 * Worth[v \div 2]
  BY <1>7 DEF Is
<1>9. Worth \in [Nat -> Nat]
  <2>1. \A v \in Nat : Worth[v] = f[v]
    <3> DEFINE D == {v \in Nat : Worth[v] # f[v]}
    <3> SUFFICES ASSUME D # {} PROVE FALSE
      OBVIOUS
    <3>1. PICK v \in D : \A u \in D : v <= u
      <4>1. D \subseteq Nat
        OBVIOUS
      <4> HIDE DEF D
      <4> QED BY <4>1, LeastNat
    <3>2. v \in Nat /\ Worth[v] # f[v]
      BY <3>1
    <3>3. v > 2
      BY <1>4, <1>8, <3>2
    <3>4. v \div 2 \in 0 .. v - 1
      BY <3>2, <3>3
    <3>5. Worth[v \div 2] = f[v \div 2]
      BY <3>1, <3>2, <3>4
    <3> QED BY <1>4, <1>8, <3>2, <3>5
  <2>2. Worth = [v \in Nat |-> Worth[v]]
    BY <1>7 DEF Is
  <2> QED BY <1>3, <2>1, <2>2 DEF V
<1> QED BY <1>8, <1>9

(* What a number starts with are smaller numbers above zero.               *)
LEMMA LeadingEquation ==
  \A v \in Nat : /\ Leading[v] = IF v <= 9 THEN {} ELSE {v \div 10} \union Leading[v \div 10]
                 /\ \A c \in Leading[v] : c \in Nat /\ c > 0 /\ c < v
<1> DEFINE V == SUBSET Nat
           d == [v \in Nat |-> v \div 10]
           h == [p \in Nat \X V |-> {p[1] \div 10} \union p[2]]
           Is(f) == f = [v \in Nat |-> IF v <= 9 THEN {} ELSE {v \div 10} \union f[v \div 10]]
<1>1. Descends(d, 9)
  <2>1. \A v \in Nat : v \div 10 \in Nat /\ (v > 9 => v \div 10 \in 0 .. v - 1)
    OBVIOUS
  <2> QED BY <2>1 DEF Descends
<1>2. h \in Downward(V)
  <2>1. \A p \in Nat \X V : {p[1] \div 10} \union p[2] \in V
    <3> TAKE p \in Nat \X V
    <3>1. p[1] \in Nat /\ p[2] \subseteq Nat
      OBVIOUS
    <3>2. p[1] \div 10 \in Nat
      BY <3>1
    <3> QED BY <3>1, <3>2
  <2> QED BY <2>1 DEF Downward
<1>3. {} \in V
  OBVIOUS
<1> HIDE DEF d, h, V
<1>4. PICK f \in [Nat -> V] : \A v \in Nat : f[v] = IF v <= 9 THEN {} ELSE h[<<v, f[d[v]]>>]
  BY <1>1, <1>2, <1>3, DescentExists
<1>5. \A v \in Nat : f[v] = IF v <= 9 THEN {} ELSE {v \div 10} \union f[v \div 10]
  <2> TAKE v \in Nat
  <2>1. d[v] = v \div 10 /\ d[v] \in Nat /\ f[d[v]] \in V
    BY <1>4 DEF d
  <2>2. h[<<v, f[d[v]]>>] = {v \div 10} \union f[d[v]]
    BY <2>1 DEF h
  <2> QED BY <1>4, <2>1, <2>2
<1>6. Is(f)
  <2>1. f = [v \in Nat |-> f[v]]
    BY <1>4
  <2> QED BY <1>5, <2>1
<1>7. Leading = CHOOSE w : Is(w)
  BY DEF Leading
<1> HIDE DEF Is
<1>8. Is(Leading)
  BY <1>6, <1>7
<1>9. \A v \in Nat : Leading[v] = IF v <= 9 THEN {} ELSE {v \div 10} \union Leading[v \div 10]
  BY <1>8 DEF Is
<1>10. ASSUME NEW v \in Nat, NEW c \in Leading[v] PROVE c \in Nat /\ c > 0 /\ c < v
  <2> DEFINE D == {u \in Nat : \E e \in Leading[u] : ~(e \in Nat /\ e > 0 /\ e < u)}
  <2> SUFFICES ASSUME D # {} PROVE FALSE
    BY <1>10
  <2>1. PICK u \in D : \A w \in D : u <= w
    <3>1. D \subseteq Nat
      OBVIOUS
    <3> HIDE DEF D
    <3> QED BY <3>1, LeastNat
  <2>2. PICK e \in Leading[u] : ~(e \in Nat /\ e > 0 /\ e < u)
    BY <2>1
  <2>3. u > 9 /\ Leading[u] = {u \div 10} \union Leading[u \div 10]
    <3>1. u \in Nat /\ Leading[u] = IF u <= 9 THEN {} ELSE {u \div 10} \union Leading[u \div 10]
      BY <1>9, <2>1
    <3>2. ~(u <= 9)
      BY <2>2, <3>1, Zenon
    <3> QED BY <3>1, <3>2
  <2>4. u \in Nat /\ u \div 10 \in Nat /\ u \div 10 > 0 /\ u \div 10 < u
    BY <2>1, <2>3
  <2>5. e \in Leading[u \div 10]
    BY <2>2, <2>3, <2>4
  <2>6. u \div 10 \notin D
    BY <2>1, <2>4
  <2>7. e \in Nat /\ e > 0 /\ e < u \div 10
    BY <2>4, <2>5, <2>6
  <2> HIDE DEF D
  <2> QED BY <2>2, <2>4, <2>7
<1> QED BY <1>9, <1>10

(* What is left of a number of which some was left already.                *)
LEMMA LeadingTwice ==
  \A v \in Nat : \A c \in Leading[v] : Leading[c] \subseteq Leading[v]
<1> DEFINE D == {u \in Nat : \E c \in Leading[u] : ~(Leading[c] \subseteq Leading[u])}
<1> SUFFICES ASSUME D # {} PROVE FALSE
  OBVIOUS
<1>1. PICK u \in D : \A w \in D : u <= w
  <2>1. D \subseteq Nat
    OBVIOUS
  <2> HIDE DEF D
  <2> QED BY <2>1, LeastNat
<1>2. PICK c \in Leading[u] : ~(Leading[c] \subseteq Leading[u])
  BY <1>1
<1>3. u \in Nat /\ u > 9 /\ Leading[u] = {u \div 10} \union Leading[u \div 10]
  <2>1. u \in Nat
    BY <1>1
  <2>2. Leading[u] = IF u <= 9 THEN {} ELSE {u \div 10} \union Leading[u \div 10]
    BY <2>1, LeadingEquation
  <2>3. ~(u <= 9)
    BY <1>2, <2>2, Zenon
  <2> QED BY <2>1, <2>2, <2>3
<1>4. c # u \div 10
  BY <1>2, <1>3
<1>5. c \in Leading[u \div 10]
  BY <1>2, <1>3, <1>4
<1>6. u \div 10 \in Nat /\ u \div 10 < u /\ ~(u <= u \div 10)
  BY <1>3
<1>7. u \div 10 \notin D
  BY <1>1, <1>6
<1>8. Leading[c] \subseteq Leading[u \div 10]
  BY <1>5, <1>6, <1>7
<1> QED BY <1>2, <1>3, <1>8

(* The worths of the values of the game; a merge makes of two equal tiles  *)
(* one that is worth what they were and what it gains.                     *)
LEMMA WorthOfTiles ==
  /\ Worth[0] = 0 /\ Worth[2] = 0 /\ Worth[4] = 4
  /\ \A v \in Nat : Worth[v] \in Nat
  /\ \A v \in Nat : v >= 2 => Worth[2 * v] = 2 * v + 2 * Worth[v]
<1>1. \A v \in Nat : Worth[v] \in Nat /\ Worth[v] = IF v <= 2 THEN 0 ELSE v + 2 * Worth[v \div 2]
  BY WorthEquation
<1>2. Worth[0] = 0 /\ Worth[2] = 0
  BY <1>1
<1>3. ASSUME NEW v \in Nat, v >= 2 PROVE Worth[2 * v] = 2 * v + 2 * Worth[v]
  <2>1. (2 * v) \div 2 = v /\ 2 * v \in Nat /\ 2 * v > 2
    BY <1>3
  <2> QED BY <1>1, <2>1
<1>4. Worth[4] = 4
  <2>1. Worth[2 * 2] = 2 * 2 + 2 * Worth[2]
    BY <1>3
  <2> QED BY <1>2, <2>1
<1> QED BY <1>1, <1>2, <1>3, <1>4

-----------------------------------------------------------------------------
(* Rows.  A row holds empty places and tiles, and a tile is at least 2.    *)
Values == {v \in Nat : v # 1}
Tiles == Values \ {0}

(* The worth of a row is the worth of its parts.                           *)
LEMMA RowSummable ==
  ASSUME NEW row \in Seq(Values)
  PROVE  /\ Summable([j \in 1 .. Len(row) |-> Worth[row[j]]], Len(row))
         /\ RowWorth(row) \in Int
<1> DEFINE f == [j \in 1 .. Len(row) |-> Worth[row[j]]]
<1>1. Len(row) \in Nat /\ \A j \in 1 .. Len(row) : row[j] \in Nat
  BY DEF Values
<1>2. \A j \in 1 .. Len(row) : f[j] = Worth[row[j]] /\ Worth[row[j]] \in Nat
  BY <1>1, WorthOfTiles
<1>3. RowWorth(row) = Total(f, Len(row))
  BY DEF RowWorth
<1> HIDE DEF f
<1>4. Summable(f, Len(row))
  BY <1>2 DEF Summable
<1>5. Total(f, Len(row)) \in Int
  BY <1>1, <1>4, TotalType
<1> QED BY <1>3, <1>4, <1>5 DEF f

(* A row without places is worth nothing.                                  *)
LEMMA WorthOfNone == RowWorth(<<>>) = 0
BY TotalZero DEF RowWorth

(* The worth of a row is the worth of its two parts.                       *)
LEMMA WorthOfJoined ==
  ASSUME NEW r \in Seq(Values), NEW s \in Seq(Values)
  PROVE  r \o s \in Seq(Values) /\ RowWorth(r \o s) = RowWorth(r) + RowWorth(s)
<1> DEFINE f == [j \in 1 .. Len(r) |-> Worth[r[j]]]
           g == [j \in 1 .. Len(s) |-> Worth[s[j]]]
           h == [j \in 1 .. Len(r \o s) |-> Worth[(r \o s)[j]]]
<1>1. Summable(f, Len(r)) /\ Summable(g, Len(s))
  BY RowSummable
<1>2. /\ Len(r) \in Nat /\ Len(s) \in Nat /\ Len(r \o s) = Len(r) + Len(s)
      /\ \A k \in 1 .. Len(r) : (r \o s)[k] = r[k]
      /\ \A k \in 1 .. Len(s) : (r \o s)[Len(r) + k] = s[k]
      /\ r \o s \in Seq(Values)
  OBVIOUS
<1>3. \A k \in 1 .. Len(r) : h[k] = f[k]
  BY <1>2
<1>4. \A k \in 1 .. Len(s) : h[Len(r) + k] = g[k]
  BY <1>2
<1>5. RowWorth(r) = Total(f, Len(r)) /\ RowWorth(s) = Total(g, Len(s))
  BY DEF RowWorth
<1>6. RowWorth(r \o s) = Total(h, Len(r) + Len(s))
  BY <1>2 DEF RowWorth
<1> HIDE DEF f, g, h
<1>7. Total(h, Len(r) + Len(s)) = Total(f, Len(r)) + Total(g, Len(s))
  <2> DEFINE m == Len(r)
             n == Len(s)
  <2>1. m \in Nat /\ n \in Nat
    BY <1>2
  <2>2. Summable(f, m) /\ Summable(g, n)
    BY <1>1
  <2>3. Joined(h, f, m, g, n)
    BY <1>3, <1>4 DEF Joined
  <2> HIDE DEF m, n
  <2>4. Total(h, m + n) = Total(f, m) + Total(g, n)
    BY <2>1, <2>2, <2>3, TotalJoins
  <2> QED BY <2>4 DEF m, n
<1>8. r \o s \in Seq(Values)
  BY <1>2
<1>9. RowWorth(r \o s) = RowWorth(r) + RowWorth(s)
  BY <1>5, <1>6, <1>7, Zenon
<1> QED BY <1>8, <1>9

(* A row of one tile is worth that tile.                                   *)
LEMMA WorthOfOne ==
  ASSUME NEW v \in Values
  PROVE  <<v>> \in Seq(Values) /\ RowWorth(<<v>>) = Worth[v]
<1> DEFINE f == [j \in 1 .. Len(<<v>>) |-> Worth[<<v>>[j]]]
<1>1. Len(<<v>>) = 1 /\ <<v>>[1] = v /\ <<v>> \in Seq(Values)
  OBVIOUS
<1>2. f[1] = Worth[v] /\ Summable(f, 1)
  <2>1. Summable(f, Len(<<v>>))
    BY <1>1, RowSummable
  <2>2. 1 \in 1 .. Len(<<v>>)
    BY <1>1
  <2> QED BY <1>1, <2>1, <2>2
<1>3. RowWorth(<<v>>) = Total(f, 1)
  BY <1>1 DEF RowWorth
<1> HIDE DEF f
<1>4. Total(f, 0 + 1) = Total(f, 0) + f[0 + 1]
  BY <1>2, TotalNext
<1>5. Worth[v] \in Int
  BY WorthOfTiles DEF Values
<1> QED BY <1>1, <1>2, <1>3, <1>4, <1>5, TotalZero

(* A tile more is its worth more.                                          *)
LEMMA WorthOfAppended ==
  ASSUME NEW r \in Seq(Values), NEW v \in Values
  PROVE  RowWorth(Append(r, v)) = RowWorth(r) + Worth[v]
<1>1. Append(r, v) = r \o <<v>> /\ <<v>> \in Seq(Values)
  OBVIOUS
<1> QED BY <1>1, WorthOfJoined, WorthOfOne

(* The prefixes of a row.                                                  *)
LEMMA PrefixGrows ==
  ASSUME NEW V, NEW row \in Seq(V), NEW k \in Nat, k + 1 <= Len(row)
  PROVE  /\ SubSeq(row, 1, k) \in Seq(V) /\ Len(SubSeq(row, 1, k)) = k
         /\ SubSeq(row, 1, k + 1) = Append(SubSeq(row, 1, k), row[k + 1])
         /\ row[k + 1] \in V
OBVIOUS

(* TilesOf collects the tiles: as a recursion.                             *)
LEMMA CollectedType ==
  ASSUME NEW t \in Seq(Tiles), NEW v \in Values
  PROVE  Collected(t, v) \in Seq(Tiles)
<1>1. v # 0 => v \in Tiles
  BY DEF Tiles
<1> QED BY <1>1 DEF Collected

(* The tiles of a row are collected one after the other.                   *)
LEMMA TilesEquation ==
  ASSUME NEW row \in Seq(Values)
  PROVE  \E t \in [0 .. Len(row) -> Seq(Tiles)] :
           /\ t[0] = <<>> /\ t[Len(row)] = TilesOf(row)
           /\ \A j \in 1 .. Len(row) : t[j] = Collected(t[j - 1], row[j])
<1> DEFINE n == Len(row)
           Eqn(s) == s = [j \in 0 .. n |-> IF j = 0 THEN <<>> ELSE Collected(s[j - 1], row[j])]
           h == [p \in (1 .. n) \X Seq(Tiles) |-> Collected(p[2], row[p[1]])]
           at == CHOOSE s : Eqn(s)
<1>1. n \in Nat /\ \A j \in 1 .. n : row[j] \in Values
  OBVIOUS
<1>2. \A j \in 1 .. n, t \in Seq(Tiles) : Collected(t, row[j]) \in Seq(Tiles)
  BY <1>1, CollectedType
<1>3. /\ h \in [(1 .. n) \X Seq(Tiles) -> Seq(Tiles)]
      /\ \A j \in 1 .. n, t \in Seq(Tiles) : h[<<j, t>>] = Collected(t, row[j])
  <2> HIDE DEF n
  <2> QED BY <1>2
<1> HIDE DEF n, h
<1>4. \E g : Recursion(g, n, Seq(Tiles), <<>>, h)
  <2>1. <<>> \in Seq(Tiles)
    OBVIOUS
  <2> QED BY <1>1, <1>3, <2>1, RecursionExists DEF Steps
<1>5. PICK g : g \in [0 .. n -> Seq(Tiles)] /\ g[0] = <<>> /\ \A j \in 1 .. n : g[j] = h[<<j, g[j - 1]>>]
  BY <1>4 DEF Recursion
<1>6. ASSUME NEW j \in 1 .. n PROVE g[j] = Collected(g[j - 1], row[j])
  <2>1. g[j - 1] \in Seq(Tiles)
    BY <1>1, <1>5
  <2> QED BY <1>3, <1>5, <2>1
<1>7. Eqn(g)
  <2>1. ASSUME NEW j \in 0 .. n
        PROVE  g[j] = IF j = 0 THEN <<>> ELSE Collected(g[j - 1], row[j])
    <3>1. CASE j = 0
      BY <1>5, <3>1
    <3>2. CASE j # 0
      <4>1. j \in 1 .. n
        BY <1>1, <3>2
      <4> QED BY <1>6, <3>2, <4>1
    <3> QED BY <3>1, <3>2
  <2>2. g = [j \in 0 .. n |-> g[j]]
    BY <1>5
  <2> QED BY <2>1, <2>2
<1>8. TilesOf(row) = at[n]
  BY DEF TilesOf, n
<1> HIDE DEF Eqn
<1>9. Eqn(at)
  BY <1>7
<1> HIDE DEF at
<1>10. at[0] = <<>>
  <2>1. 0 \in 0 .. n
    BY <1>1
  <2> QED BY <1>9, <2>1 DEF Eqn
<1>11. ASSUME NEW j \in 1 .. n PROVE at[j] = Collected(at[j - 1], row[j])
  <2>1. j \in 0 .. n /\ j # 0
    BY <1>1
  <2> QED BY <1>9, <2>1 DEF Eqn
<1> DEFINE T == {k \in Nat : k <= n => at[k] \in Seq(Tiles)}
<1>12. 0 \in T
  <2>1. <<>> \in Seq(Tiles)
    OBVIOUS
  <2>2. at[0] \in Seq(Tiles)
    BY <1>10, <2>1, Zenon
  <2> QED BY <2>2
<1>13. ASSUME NEW k \in Nat, k \in T PROVE k + 1 \in T
  <2> SUFFICES ASSUME k + 1 <= n PROVE at[k + 1] \in Seq(Tiles)
    OBVIOUS
  <2>1. k + 1 \in 1 .. n /\ (k + 1) - 1 = k /\ k <= n
    BY <1>1
  <2>2. at[k + 1] = Collected(at[k], row[k + 1])
    BY <1>11, <2>1
  <2> QED BY <1>2, <1>13, <2>1, <2>2
<1> HIDE DEF T
<1>14. \A k \in Nat : k \in T
  BY <1>12, <1>13, NatInductionSet
<1>15. \A k \in 0 .. n : at[k] \in Seq(Tiles)
  BY <1>1, <1>14 DEF T
<1>16. at \in [0 .. n -> Seq(Tiles)]
  <2>1. at = [j \in 0 .. n |-> IF j = 0 THEN <<>> ELSE Collected(at[j - 1], row[j])]
    BY <1>9 DEF Eqn
  <2>2. at = [j \in 0 .. n |-> at[j]]
    BY <2>1
  <2> QED BY <1>15, <2>2
<1> QED BY <1>8, <1>10, <1>11, <1>16 DEF n

(* The tiles of a row are worth what the row is; a row without an empty    *)
(* place is its tiles.                                                     *)
LEMMA TilesOfRow ==
  ASSUME NEW row \in Seq(Values)
  PROVE  /\ TilesOf(row) \in Seq(Tiles)
         /\ Len(TilesOf(row)) <= Len(row)
         /\ RowWorth(TilesOf(row)) = RowWorth(row)
         /\ (\A j \in 1 .. Len(row) : row[j] # 0) => TilesOf(row) = row
<1> DEFINE n == Len(row)
           Full == \A j \in 1 .. n : row[j] # 0
           P(k) == SubSeq(row, 1, k)
<1>0. n \in Nat /\ \A j \in 1 .. n : row[j] \in Values
  OBVIOUS
<1>1. PICK t \in [0 .. n -> Seq(Tiles)] :
        /\ t[0] = <<>> /\ t[n] = TilesOf(row)
        /\ \A j \in 1 .. n : t[j] = Collected(t[j - 1], row[j])
  BY TilesEquation
<1>2. Seq(Tiles) \subseteq Seq(Values)
  BY DEF Tiles
<1>3. P(0) = <<>> /\ P(n) = row
  OBVIOUS
<1> DEFINE T == {k \in Nat : k <= n =>
                   /\ Len(t[k]) <= k
                   /\ RowWorth(t[k]) = RowWorth(P(k))
                   /\ Full => t[k] = P(k)}
<1>4. 0 \in T
  <2> HIDE DEF P, n, Full
  <2>1. Len(t[0]) <= 0
    <3>1. Len(<<>>) = 0
      OBVIOUS
    <3> QED BY <1>1, <3>1
  <2> QED BY <1>1, <1>3, <2>1
<1>5. ASSUME NEW k \in Nat, k \in T PROVE k + 1 \in T
  <2> SUFFICES ASSUME k + 1 <= n
               PROVE  /\ Len(t[k + 1]) <= k + 1
                      /\ RowWorth(t[k + 1]) = RowWorth(P(k + 1))
                      /\ Full => t[k + 1] = P(k + 1)
    OBVIOUS
  <2>1. k + 1 \in 1 .. n /\ (k + 1) - 1 = k /\ k <= n /\ k \in 0 .. n
    BY <1>0
  <2>2. P(k) \in Seq(Values) /\ P(k + 1) = Append(P(k), row[k + 1]) /\ row[k + 1] \in Values
    BY PrefixGrows
  <2>3. t[k] \in Seq(Tiles) /\ t[k] \in Seq(Values)
    BY <1>1, <1>2, <2>1
  <2>4. /\ Len(t[k]) <= k /\ RowWorth(t[k]) = RowWorth(P(k))
        /\ Full => t[k] = P(k)
    BY <1>5, <2>1
  <2>5. t[k + 1] = Collected(t[k], row[k + 1])
    BY <1>1, <2>1
  <2>10. Full => row[k + 1] # 0
    BY <2>1
  <2> HIDE DEF P, Full
  <2>6. RowWorth(P(k + 1)) = RowWorth(P(k)) + Worth[row[k + 1]]
    BY <2>2, WorthOfAppended
  <2>7. RowWorth(P(k)) \in Int
    BY <2>2, RowSummable
  <2>8. CASE row[k + 1] = 0
    <3>1. Worth[row[k + 1]] = 0
      BY <2>8, WorthOfTiles
    <3>2. t[k + 1] = t[k] /\ Len(t[k]) \in Nat
      BY <2>3, <2>5, <2>8 DEF Collected
    <3>3. RowWorth(t[k + 1]) = RowWorth(P(k + 1))
      BY <2>4, <2>6, <2>7, <3>1, <3>2
    <3> QED BY <2>4, <2>8, <2>10, <3>2, <3>3
  <2>9. CASE row[k + 1] # 0
    <3>1. t[k + 1] = Append(t[k], row[k + 1])
      BY <2>5, <2>9 DEF Collected
    <3>2. RowWorth(t[k + 1]) = RowWorth(t[k]) + Worth[row[k + 1]]
      BY <2>2, <2>3, <3>1, WorthOfAppended
    <3>3. Len(t[k + 1]) = Len(t[k]) + 1 /\ Len(t[k]) \in Nat
      BY <2>3, <3>1
    <3>4. RowWorth(t[k + 1]) = RowWorth(P(k + 1))
      BY <2>4, <2>6, <3>2
    <3>5. Full => t[k + 1] = P(k + 1)
      BY <2>2, <2>4, <3>1
    <3>6. Len(t[k + 1]) <= k + 1
      BY <2>4, <3>3
    <3> QED BY <3>4, <3>5, <3>6
  <2> QED BY <2>8, <2>9
<1> HIDE DEF T
<1>6. n \in T
  BY <1>0, <1>4, <1>5, NatInductionSet
<1>7. Len(t[n]) <= n /\ RowWorth(t[n]) = RowWorth(P(n)) /\ (Full => t[n] = P(n))
  BY <1>0, <1>6 DEF T
<1>8. t[n] \in Seq(Tiles)
  BY <1>0, <1>1
<1>9. t[n] = TilesOf(row) /\ P(n) = row
  BY <1>1, <1>3
<1> HIDE DEF P
<1>10. Full => TilesOf(row) = row
  BY <1>7, <1>9, Zenon
<1>11. Len(TilesOf(row)) <= n /\ RowWorth(TilesOf(row)) = RowWorth(row)
  BY <1>7, <1>9, Zenon
<1>12. TilesOf(row) \in Seq(Tiles)
  BY <1>8, <1>9, Zenon
<1> QED BY <1>10, <1>11, <1>12

-----------------------------------------------------------------------------
(* Merging.                                                                *)
Line == [row : Seq(Tiles), gained : Nat]
Merges(line, i) == i < Len(line.row) /\ line.row[i] = line.row[i + 1]

(* The entries of two sequences, one behind the other.                     *)
LEMMA Concatenated ==
  ASSUME NEW V, NEW s \in Seq(V), NEW t \in Seq(V)
  PROVE  /\ s \o t \in Seq(V) /\ Len(s) \in Nat /\ Len(t) \in Nat
         /\ Len(s \o t) = Len(s) + Len(t)
         /\ \A k \in 1 .. Len(s) : (s \o t)[k] = s[k]
         /\ \A k \in Len(s) + 1 .. Len(s) + Len(t) : (s \o t)[k] = t[k - Len(s)]
OBVIOUS

(* A merge takes two equal tiles for one of twice their value, and what it *)
(* adds to the worth of the row is what it gains.                          *)
LEMMA MergeStepMerges ==
  ASSUME NEW line \in Line, NEW i \in Nat \ {0}, Merges(line, i)
  PROVE  /\ MergeStep(line, i) \in Line
         /\ MergeStep(line, i).row = SubSeq(line.row, 1, i - 1) \o <<2 * line.row[i]>>
                                       \o SubSeq(line.row, i + 2, Len(line.row))
         /\ Len(MergeStep(line, i).row) = Len(line.row) - 1
         /\ RowWorth(MergeStep(line, i).row) + line.gained
            = RowWorth(line.row) + MergeStep(line, i).gained
<1> DEFINE r == line.row
           n == Len(r)
           v == r[i]
           a == SubSeq(r, 1, i - 1)
           c == SubSeq(r, i + 2, n)
           new == MergeStep(line, i)
<1>1. r \in Seq(Tiles) /\ line.gained \in Nat /\ n \in Nat
  BY DEF Line
<1>2. i < n /\ r[i] = r[i + 1] /\ i \in 1 .. n /\ i + 1 \in 1 .. n
  BY <1>1 DEF Merges
<1>3. v \in Tiles /\ 2 * v \in Tiles /\ v \in Nat /\ v >= 2
  <2>1. r[i] \in Tiles
    BY <1>1, <1>2
  <2> QED BY <2>1 DEF Tiles, Values
<1>4. new = [row |-> a \o <<2 * v>> \o c, gained |-> line.gained + 2 * v]
  BY <1>2 DEF MergeStep, MergeAt
<1>5. a \in Seq(Tiles) /\ Len(a) = i - 1 /\ c \in Seq(Tiles) /\ Len(c) = n - i - 1
  BY <1>1, <1>2
<1>6. r = (a \o <<v>> \o <<v>>) \o c
  <2> DEFINE q == (a \o <<v>> \o <<v>>) \o c
  <2>1. /\ Len(q) = n /\ q \in Seq(Tiles)
        /\ \A k \in 1 .. i - 1 : q[k] = a[k]
        /\ q[i] = v /\ q[i + 1] = v
        /\ \A k \in i + 2 .. n : q[k] = c[k - i - 1]
    <3> DEFINE p == a \o <<v>>
               d == p \o <<v>>
    <3>1. <<v>> \in Seq(Tiles) /\ Len(<<v>>) = 1 /\ <<v>>[1] = v
      BY <1>3
    <3> HIDE DEF a, c, v, n, r
    <3>2. /\ p \in Seq(Tiles) /\ Len(p) = i /\ p[i] = v
          /\ \A k \in 1 .. i - 1 : p[k] = a[k]
      <4>1. /\ p \in Seq(Tiles) /\ Len(p) = Len(a) + 1
            /\ \A k \in 1 .. Len(a) : p[k] = a[k]
            /\ \A k \in Len(a) + 1 .. Len(a) + 1 : p[k] = <<v>>[k - Len(a)]
        BY <1>5, <3>1, Concatenated, SMTT(30)
      <4>2. Len(a) = i - 1 /\ Len(a) + 1 = i /\ i \in Len(a) + 1 .. Len(a) + 1 /\ i - Len(a) = 1
        BY <1>5
      <4>3. p[i] = v
        BY <3>1, <4>1, <4>2
      <4> QED BY <4>1, <4>2, <4>3
    <3> HIDE DEF p
    <3>3. /\ d \in Seq(Tiles) /\ Len(d) = i + 1 /\ d[i + 1] = v /\ d[i] = v
          /\ \A k \in 1 .. i - 1 : d[k] = a[k]
      <4>1. /\ d \in Seq(Tiles) /\ Len(d) = Len(p) + 1
            /\ \A k \in 1 .. Len(p) : d[k] = p[k]
            /\ \A k \in Len(p) + 1 .. Len(p) + 1 : d[k] = <<v>>[k - Len(p)]
        BY <3>1, <3>2, Concatenated
      <4> QED BY <1>2, <3>1, <3>2, <4>1
    <3> HIDE DEF d
    <3>4. q = d \o c
      BY DEF d, p
    <3> HIDE DEF q
    <3>5. /\ q \in Seq(Tiles) /\ Len(q) = Len(d) + Len(c)
          /\ \A k \in 1 .. Len(d) : q[k] = d[k]
          /\ \A k \in Len(d) + 1 .. Len(d) + Len(c) : q[k] = c[k - Len(d)]
      BY <1>5, <3>3, <3>4, Concatenated, ZenonT(30)
    <3>6. \A k \in i + 2 .. n : q[k] = c[k - i - 1]
      <4> TAKE k \in i + 2 .. n
      <4>1. k \in Len(d) + 1 .. Len(d) + Len(c) /\ k - Len(d) = k - i - 1
        BY <1>1, <1>2, <1>5, <3>3, SMTT(30)
      <4> QED BY <3>5, <4>1
    <3> QED BY <1>1, <1>2, <1>5, <3>3, <3>5, <3>6
  <2>2. (\A k \in 1 .. i - 1 : a[k] = r[k]) /\ \A k \in i + 2 .. n : c[k - i - 1] = r[k]
    BY <1>1, <1>2
  <2> HIDE DEF q, a, c
  <2>3. \A k \in 1 .. n : q[k] = r[k]
    BY <1>1, <1>2, <2>1, <2>2
  <2>4. Len(r) = n
    OBVIOUS
  <2>5. q = r
    BY <1>1, <2>1, <2>3, <2>4
  <2> QED BY <2>5 DEF q
<1> HIDE DEF r, n, v, a, c, new
<1>7. new.row = a \o <<2 * v>> \o c /\ new.gained = line.gained + 2 * v
  BY <1>4
<1>8. new \in Line /\ Len(new.row) = n - 1
  <2>1. a \o <<2 * v>> \o c \in Seq(Tiles) /\ Len(a \o <<2 * v>> \o c) = n - 1
    <3>1. <<2 * v>> \in Seq(Tiles) /\ Len(<<2 * v>>) = 1
      BY <1>3
    <3>2. a \o <<2 * v>> \in Seq(Tiles) /\ Len(a \o <<2 * v>>) = Len(a) + 1
      BY <1>5, <3>1, Concatenated
    <3>3. /\ (a \o <<2 * v>>) \o c \in Seq(Tiles)
          /\ Len((a \o <<2 * v>>) \o c) = Len(a \o <<2 * v>>) + Len(c)
      BY <1>5, <3>2, Concatenated
    <3>4. n \in Int /\ i \in Int /\ (i - 1) + 1 + (n - i - 1) = n - 1
      BY <1>1
    <3>5. Len((a \o <<2 * v>>) \o c) = n - 1
      BY <1>5, <3>2, <3>3, <3>4
    <3> QED BY <3>3, <3>5
  <2>2. line.gained + 2 * v \in Nat
    BY <1>1, <1>3
  <2> QED BY <1>4, <2>1, <2>2 DEF Line
<1>9. Seq(Tiles) \subseteq Seq(Values) /\ Tiles \subseteq Values
  BY DEF Tiles
<1>10. RowWorth(new.row) = RowWorth(a) + Worth[2 * v] + RowWorth(c)
  <2>1. a \in Seq(Values) /\ c \in Seq(Values) /\ 2 * v \in Values
    BY <1>3, <1>5, <1>9
  <2>2. <<2 * v>> \in Seq(Values) /\ RowWorth(<<2 * v>>) = Worth[2 * v]
    BY <2>1, WorthOfOne
  <2>3. a \o <<2 * v>> \in Seq(Values) /\ RowWorth(a \o <<2 * v>>) = RowWorth(a) + Worth[2 * v]
    BY <2>1, <2>2, WorthOfJoined
  <2>4. RowWorth((a \o <<2 * v>>) \o c) = RowWorth(a \o <<2 * v>>) + RowWorth(c)
    BY <2>1, <2>3, WorthOfJoined
  <2> QED BY <1>7, <2>3, <2>4
<1>11. RowWorth(r) = RowWorth(a) + Worth[v] + Worth[v] + RowWorth(c)
  <2>1. a \in Seq(Values) /\ c \in Seq(Values) /\ v \in Values
    BY <1>3, <1>5, <1>9
  <2>2. <<v>> \in Seq(Values) /\ RowWorth(<<v>>) = Worth[v]
    BY <2>1, WorthOfOne
  <2>3. a \o <<v>> \in Seq(Values) /\ RowWorth(a \o <<v>>) = RowWorth(a) + Worth[v]
    BY <2>1, <2>2, WorthOfJoined
  <2>4. /\ (a \o <<v>>) \o <<v>> \in Seq(Values)
        /\ RowWorth((a \o <<v>>) \o <<v>>) = RowWorth(a \o <<v>>) + Worth[v]
    BY <2>2, <2>3, WorthOfJoined
  <2>5. RowWorth(((a \o <<v>>) \o <<v>>) \o c) = RowWorth((a \o <<v>>) \o <<v>>) + RowWorth(c)
    BY <2>1, <2>4, WorthOfJoined
  <2> QED BY <1>6, <2>3, <2>4, <2>5
<1>12. RowWorth(a) \in Int /\ RowWorth(c) \in Int /\ Worth[v] \in Int /\ Worth[2 * v] = 2 * v + 2 * Worth[v]
  <2>1. a \in Seq(Values) /\ c \in Seq(Values)
    BY <1>5, <1>9
  <2>2. RowWorth(a) \in Int /\ RowWorth(c) \in Int
    BY <2>1, RowSummable
  <2>3. Worth[v] \in Int
    BY <1>3, WorthOfTiles
  <2>4. Worth[2 * v] = 2 * v + 2 * Worth[v]
    BY <1>3, WorthOfTiles
  <2> QED BY <2>2, <2>3, <2>4
<1>13. RowWorth(new.row) + line.gained = RowWorth(r) + new.gained
  <2> DEFINE x == RowWorth(a)
             y == RowWorth(c)
             w == Worth[v]
             g == line.gained
  <2>1. x \in Int /\ y \in Int /\ w \in Int /\ g \in Int /\ v \in Int
    BY <1>1, <1>3, <1>12
  <2>2. RowWorth(new.row) = x + (2 * v + 2 * w) + y /\ RowWorth(r) = x + w + w + y
    BY <1>10, <1>11, <1>12
  <2>3. new.gained = g + 2 * v
    BY <1>7
  <2> HIDE DEF x, y, w, g
  <2>4. RowWorth(new.row) + g = RowWorth(r) + new.gained
    BY <2>1, <2>2, <2>3
  <2> QED BY <2>4 DEF g
<1> QED BY <1>7, <1>8, <1>13 DEF new, a, c, v, n, r

(* Where there are no two equal tiles nothing changes.                     *)
LEMMA MergeStepKeeps ==
  ASSUME NEW line, NEW i, ~Merges(line, i)
  PROVE  MergeStep(line, i) = line
BY DEF Merges, MergeStep, MergeAt

(* In either case a step keeps the balance of worth and gain.              *)
LEMMA MergeStepType ==
  ASSUME NEW line \in Line, NEW i \in Nat \ {0}
  PROVE  /\ MergeStep(line, i) \in Line
         /\ Len(MergeStep(line, i).row) <= Len(line.row)
         /\ RowWorth(MergeStep(line, i).row) + line.gained
            = RowWorth(line.row) + MergeStep(line, i).gained
<1>1. CASE Merges(line, i)
  <2>1. Len(line.row) \in Nat
    BY DEF Line
  <2>2. /\ MergeStep(line, i) \in Line
        /\ Len(MergeStep(line, i).row) = Len(line.row) - 1
        /\ RowWorth(MergeStep(line, i).row) + line.gained
           = RowWorth(line.row) + MergeStep(line, i).gained
    BY <1>1, MergeStepMerges
  <2> QED BY <2>1, <2>2
<1>2. CASE ~Merges(line, i)
  <2>1. MergeStep(line, i) = line
    BY <1>2, MergeStepKeeps
  <2>2. Len(line.row) \in Nat
    BY DEF Line
  <2> QED BY <2>1, <2>2
<1> QED BY <1>1, <1>2

(* The merges of a row, one after the other.                               *)
Merging(m, tiles) ==
  /\ m \in [0 .. Len(tiles) -> Line]
  /\ m[0] = [row |-> tiles, gained |-> 0]
  /\ m[Len(tiles)] = Merged(tiles)
  /\ \A i \in 1 .. Len(tiles) : m[i] = MergeStep(m[i - 1], i)

(* There is such a sequence of lines.                                      *)
LEMMA MergingExists ==
  ASSUME NEW tiles \in Seq(Tiles)
  PROVE  \E m : Merging(m, tiles)
<1> DEFINE n == Len(tiles)
           b == [row |-> tiles, gained |-> 0]
           Eqn(s) == s = [i \in 0 .. n |-> IF i = 0 THEN [row |-> tiles, gained |-> 0]
                                           ELSE MergeStep(s[i - 1], i)]
           h == [p \in (1 .. n) \X Line |-> MergeStep(p[2], p[1])]
           at == CHOOSE s : Eqn(s)
<1>1. n \in Nat /\ b \in Line
  BY DEF Line
<1>2. \A i \in 1 .. n, l \in Line : MergeStep(l, i) \in Line
  <2> TAKE i \in 1 .. n, l \in Line
  <2>1. i \in Nat \ {0}
    BY <1>1
  <2> QED BY <2>1, MergeStepType
<1> HIDE DEF n
<1>3. /\ h \in [(1 .. n) \X Line -> Line]
      /\ \A i \in 1 .. n, l \in Line : h[<<i, l>>] = MergeStep(l, i)
  BY <1>2
<1> HIDE DEF h, b
<1>4. \E g : Recursion(g, n, Line, b, h)
  BY <1>1, <1>3, RecursionExists DEF Steps
<1>5. PICK g : g \in [0 .. n -> Line] /\ g[0] = b /\ \A i \in 1 .. n : g[i] = h[<<i, g[i - 1]>>]
  BY <1>4 DEF Recursion
<1>6. ASSUME NEW i \in 1 .. n PROVE g[i] = MergeStep(g[i - 1], i)
  <2>1. g[i - 1] \in Line
    BY <1>1, <1>5
  <2> QED BY <1>3, <1>5, <2>1
<1>7. Eqn(g)
  <2>1. ASSUME NEW i \in 0 .. n
        PROVE  g[i] = IF i = 0 THEN b ELSE MergeStep(g[i - 1], i)
    <3>1. CASE i = 0
      BY <1>5, <3>1
    <3>2. CASE i # 0
      <4>1. i \in 1 .. n
        BY <1>1, <3>2
      <4> QED BY <1>6, <3>2, <4>1
    <3> QED BY <3>1, <3>2
  <2>2. g = [i \in 0 .. n |-> g[i]]
    BY <1>5
  <2>3. g = [i \in 0 .. n |-> IF i = 0 THEN b ELSE MergeStep(g[i - 1], i)]
    BY <2>1, <2>2
  <2> QED BY <2>3 DEF b
<1>8. Merged(tiles) = at[n]
  BY DEF Merged, n
<1>9. Eqn(at)
  <2> HIDE DEF Eqn
  <2> QED BY <1>7
<1> HIDE DEF at
<1>10. at = [i \in 0 .. n |-> IF i = 0 THEN b ELSE MergeStep(at[i - 1], i)]
  BY <1>9 DEF b
<1> HIDE DEF Eqn
<1>11. at[0] = b
  <2>1. 0 \in 0 .. n
    BY <1>1
  <2> QED BY <1>10, <2>1
<1>12. ASSUME NEW i \in 1 .. n PROVE at[i] = MergeStep(at[i - 1], i)
  <2>1. i \in 0 .. n /\ i # 0
    BY <1>1
  <2> QED BY <1>10, <2>1
<1> DEFINE T == {k \in Nat : k <= n => at[k] \in Line}
<1>13. 0 \in T
  BY <1>1, <1>11
<1>14. ASSUME NEW k \in Nat, k \in T PROVE k + 1 \in T
  <2> SUFFICES ASSUME k + 1 <= n PROVE at[k + 1] \in Line
    OBVIOUS
  <2>1. k + 1 \in 1 .. n /\ (k + 1) - 1 = k /\ k <= n
    BY <1>1
  <2>2. at[k + 1] = MergeStep(at[k], k + 1)
    BY <1>12, <2>1
  <2> QED BY <1>2, <1>14, <2>1, <2>2
<1> HIDE DEF T
<1>15. \A k \in Nat : k \in T
  BY <1>13, <1>14, NatInductionSet
<1>16. \A k \in 0 .. n : at[k] \in Line
  BY <1>1, <1>15 DEF T
<1>17. at \in [0 .. n -> Line]
  <2>1. at = [i \in 0 .. n |-> at[i]]
    BY <1>10
  <2> QED BY <1>16, <2>1
<1>18. Merging(at, tiles)
  BY <1>8, <1>11, <1>12, <1>17 DEF Merging, n, b
<1> QED BY <1>18

(* Two equal tiles side by side, in the places lo .. hi.                   *)
HasPair(t) == \E j \in 1 .. Len(t) - 1 : t[j] = t[j + 1]

(* All merges together: what the row gains is what it is worth more; it    *)
(* gets shorter exactly when it has a pair.                                *)
LEMMA MergedRow ==
  ASSUME NEW tiles \in Seq(Tiles)
  PROVE  /\ Merged(tiles) \in Line
         /\ Len(Merged(tiles).row) <= Len(tiles)
         /\ RowWorth(Merged(tiles).row) = RowWorth(tiles) + Merged(tiles).gained
         /\ ~HasPair(tiles) => Merged(tiles).row = tiles
         /\ HasPair(tiles) => Len(Merged(tiles).row) < Len(tiles)
<1> DEFINE n == Len(tiles)
<1>0. n \in Nat /\ RowWorth(tiles) \in Int
  <2>1. tiles \in Seq(Values)
    BY DEF Tiles
  <2>2. n \in Nat
    OBVIOUS
  <2>3. RowWorth(tiles) \in Int
    BY <2>1, RowSummable
  <2> QED BY <2>2, <2>3
<1>1. PICK m : Merging(m, tiles)
  BY MergingExists
<1> HIDE DEF n
<1>2. /\ m \in [0 .. n -> Line] /\ m[0] = [row |-> tiles, gained |-> 0] /\ m[n] = Merged(tiles)
      /\ \A i \in 1 .. n : m[i] = MergeStep(m[i - 1], i)
  BY <1>1 DEF Merging, n
<1>3. m[0].row = tiles /\ m[0].gained = 0
  BY <1>2
<1>4. \A k \in 0 .. n : m[k] \in Line /\ RowWorth(m[k].row) \in Int /\ m[k].gained \in Nat /\ Len(m[k].row) \in Nat
  <2> TAKE k \in 0 .. n
  <2>1. m[k] \in Line
    BY <1>2
  <2>2. m[k].row \in Seq(Tiles) /\ m[k].gained \in Nat
    BY <2>1 DEF Line
  <2>3. m[k].row \in Seq(Values) /\ Len(m[k].row) \in Nat
    BY <2>2 DEF Tiles
  <2> QED BY <2>1, <2>2, <2>3, RowSummable
<1> DEFINE Apart(k) == \A j \in 1 .. n - 1 : j <= k => tiles[j] # tiles[j + 1]
           Fits(k) == Len(m[k].row) <= n /\ RowWorth(m[k].row) = RowWorth(tiles) + m[k].gained
           T == {k \in Nat : k <= n =>
                   /\ Fits(k)
                   /\ m[k].row = tiles \/ Len(m[k].row) < n
                   /\ m[k].row = tiles => Apart(k)
                   /\ Apart(n) => m[k].row = tiles}
<1>5. 0 \in T
  <2>1. Fits(0)
    <3>1. Len(m[0].row) = n
      BY <1>3 DEF n
    <3> QED BY <1>0, <1>3, <3>1
  <2>2. Apart(0)
    BY <1>0
  <2> HIDE DEF Apart, Fits
  <2> QED BY <1>3, <2>1, <2>2
<1>6. ASSUME NEW k \in Nat, k \in T PROVE k + 1 \in T
  <2> SUFFICES ASSUME k + 1 <= n
               PROVE  /\ Fits(k + 1)
                      /\ m[k + 1].row = tiles \/ Len(m[k + 1].row) < n
                      /\ m[k + 1].row = tiles => Apart(k + 1)
                      /\ Apart(n) => m[k + 1].row = tiles
    OBVIOUS
  <2>1. k + 1 \in 1 .. n /\ (k + 1) - 1 = k /\ k <= n /\ k \in 0 .. n /\ k + 1 \in 0 .. n /\ k + 1 \in Nat \ {0}
    BY <1>0
  <2>2. m[k + 1] = MergeStep(m[k], k + 1)
    BY <1>2, <2>1
  <2>3. /\ Fits(k) /\ (m[k].row = tiles \/ Len(m[k].row) < n)
        /\ (m[k].row = tiles => Apart(k)) /\ (Apart(n) => m[k].row = tiles)
    BY <1>6, <2>1
  <2>4. m[k] \in Line
    BY <1>4, <2>1
  <2>5. /\ Len(m[k + 1].row) <= Len(m[k].row)
        /\ RowWorth(m[k + 1].row) + m[k].gained = RowWorth(m[k].row) + m[k + 1].gained
    BY <2>1, <2>2, <2>4, MergeStepType
  <2>6. Fits(k + 1)
    <3>1. Len(m[k].row) <= n /\ RowWorth(m[k].row) = RowWorth(tiles) + m[k].gained
      BY <2>3
    <3>2. /\ RowWorth(m[k].row) \in Int /\ m[k].gained \in Nat /\ Len(m[k].row) \in Nat
          /\ RowWorth(m[k + 1].row) \in Int /\ m[k + 1].gained \in Nat /\ Len(m[k + 1].row) \in Nat
      BY <1>4, <2>1
    <3> DEFINE x == RowWorth(m[k].row)
               y == RowWorth(m[k + 1].row)
               w == RowWorth(tiles)
               g == m[k].gained
               h == m[k + 1].gained
    <3>3. x \in Int /\ y \in Int /\ w \in Int /\ g \in Int /\ h \in Int /\ y + g = x + h /\ x = w + g
      BY <1>0, <2>5, <3>1, <3>2
    <3>4. Len(m[k + 1].row) <= n
      BY <1>0, <2>5, <3>1, <3>2, SMTT(30)
    <3> HIDE DEF x, y, w, g, h
    <3>5. y = w + h
      BY <3>3
    <3> QED BY <3>4, <3>5 DEF y, w, h
  <2>7. CASE Merges(m[k], k + 1)
    <3>1. Len(m[k + 1].row) = Len(m[k].row) - 1
      BY <2>1, <2>2, <2>4, <2>7, MergeStepMerges
    <3>2. Len(m[k].row) <= n
      BY <2>3
    <3>3. Len(m[k + 1].row) < n
      BY <1>0, <1>4, <2>1, <3>1, <3>2
    <3>4. m[k + 1].row # tiles
      BY <1>0, <3>3 DEF n
    <3>5. ~Apart(n)
      <4> SUFFICES ASSUME Apart(n) PROVE FALSE
        OBVIOUS
      <4>1. m[k].row = tiles
        BY <2>3
      <4>2. k + 1 < n /\ tiles[k + 1] = tiles[(k + 1) + 1]
        BY <2>7, <4>1 DEF Merges, n
      <4>3. k + 1 \in 1 .. n - 1 /\ k + 1 <= n
        BY <1>0, <2>1, <4>2
      <4> QED BY <4>2, <4>3
    <3> HIDE DEF Apart, Fits
    <3> QED BY <2>6, <3>3, <3>4, <3>5
  <2>8. CASE ~Merges(m[k], k + 1)
    <3>1. m[k + 1] = m[k]
      BY <2>2, <2>8, MergeStepKeeps
    <3>2. ASSUME m[k].row = tiles PROVE Apart(k + 1)
      <4>1. Apart(k)
        BY <2>3, <3>2
      <4>2. ~(k + 1 < n /\ tiles[k + 1] = tiles[(k + 1) + 1])
        BY <2>8, <3>2 DEF Merges, n
      <4> SUFFICES ASSUME NEW j \in 1 .. n - 1, j <= k + 1 PROVE tiles[j] # tiles[j + 1]
        OBVIOUS
      <4>3. CASE j <= k
        BY <4>1, <4>3
      <4>4. CASE j = k + 1
        BY <1>0, <4>2, <4>4
      <4> QED BY <4>3, <4>4
    <3> HIDE DEF Apart, Fits
    <3> QED BY <2>3, <2>6, <3>1, <3>2
  <2> QED BY <2>7, <2>8
<1> HIDE DEF T
<1>7. n \in T
  BY <1>0, <1>5, <1>6, NatInductionSet
<1>8. HasPair(tiles) <=> ~Apart(n)
  BY <1>0 DEF HasPair, n
<1>9. /\ Fits(n) /\ (m[n].row = tiles \/ Len(m[n].row) < n)
      /\ (m[n].row = tiles => Apart(n)) /\ (Apart(n) => m[n].row = tiles)
  BY <1>0, <1>7 DEF T
<1>10. m[n] \in Line
  BY <1>0, <1>4
<1>11. /\ Len(Merged(tiles).row) <= n
       /\ RowWorth(Merged(tiles).row) = RowWorth(tiles) + Merged(tiles).gained
  BY <1>2, <1>9
<1> HIDE DEF Apart, Fits
<1>12. /\ ~HasPair(tiles) => Merged(tiles).row = tiles
       /\ HasPair(tiles) => Len(Merged(tiles).row) < n
  BY <1>2, <1>8, <1>9
<1> QED BY <1>2, <1>10, <1>11, <1>12 DEF n

(* Empty places behind the tiles are worth nothing.                        *)
LEMMA PaddedRow ==
  ASSUME NEW p \in Seq(Tiles), NEW n \in Nat, Len(p) <= n
  PROVE  /\ Padded(p, n) \in Seq(Values) /\ Len(Padded(p, n)) = n
         /\ \A k \in 1 .. n : Padded(p, n)[k] = 0 <=> k > Len(p)
         /\ \A k \in 1 .. Len(p) : Padded(p, n)[k] = p[k]
         /\ RowWorth(Padded(p, n)) = RowWorth(p)
<1> DEFINE q == Padded(p, n)
           m == Len(p)
           f == [j \in 1 .. m |-> Worth[p[j]]]
           z == [j \in 1 .. n - m |-> 0]
           h == [j \in 1 .. Len(q) |-> Worth[q[j]]]
<1>1. m \in Nat /\ m <= n /\ n - m \in Nat /\ \A k \in 1 .. m : p[k] \in Values /\ p[k] # 0
  BY DEF Tiles
<1>2. \A k \in 1 .. n : q[k] = IF k <= m THEN p[k] ELSE 0
  BY DEF Padded
<1>3. 0 \in Values
  BY DEF Values
<1>4. q \in [1 .. n -> Values]
  <2>1. \A k \in 1 .. n : (IF k <= m THEN p[k] ELSE 0) \in Values
    BY <1>1, <1>3
  <2> HIDE DEF m
  <2> QED BY <2>1 DEF Padded, m
<1>5. q \in Seq(Values) /\ Len(q) = n
  <2> HIDE DEF q
  <2> QED BY <1>4
<1>6. \A k \in 1 .. n : q[k] = 0 <=> k > m
  <2> HIDE DEF q
  <2> QED BY <1>1, <1>2
<1>7. \A k \in 1 .. m : q[k] = p[k]
  <2> HIDE DEF q
  <2> QED BY <1>1, <1>2
<1>8. RowWorth(p) = Total(f, m) /\ RowWorth(q) = Total(h, n)
  BY <1>5 DEF RowWorth
<1>9. Summable(f, m)
  <2>1. p \in Seq(Values)
    BY DEF Tiles
  <2> QED BY <2>1, RowSummable
<1>10. Summable(z, n - m) /\ Total(z, n - m) = 0
  <2>1. \A k \in 1 .. n - m : z[k] = 0
    OBVIOUS
  <2> HIDE DEF z, m
  <2> QED BY <1>1, <2>1, TotalOfZeros DEF Summable
<1>11. Joined(h, f, m, z, n - m)
  <2>1. \A k \in 1 .. m : h[k] = f[k]
    <3>1. \A k \in 1 .. m : k \in 1 .. Len(q)
      BY <1>1, <1>5
    <3> HIDE DEF q
    <3> QED BY <1>7, <3>1
  <2>2. \A k \in 1 .. n - m : h[m + k] = z[k]
    <3> TAKE k \in 1 .. n - m
    <3>1. m + k \in 1 .. n /\ m + k > m /\ m + k \in 1 .. Len(q)
      BY <1>1, <1>5
    <3>2. q[m + k] = 0
      BY <1>6, <3>1
    <3> HIDE DEF q, m
    <3> QED BY <3>1, <3>2, WorthOfTiles
  <2> HIDE DEF h, f, z, m
  <2> QED BY <2>1, <2>2 DEF Joined
<1> HIDE DEF h, f, z, q, m
<1>12. Total(h, m + (n - m)) = Total(f, m) + Total(z, n - m)
  BY <1>1, <1>9, <1>10, <1>11, TotalJoins
<1>13. m + (n - m) = n /\ Total(f, m) \in Int
  BY <1>1, <1>9, TotalType
<1>14. RowWorth(q) = RowWorth(p)
  BY <1>8, <1>10, <1>12, <1>13
<1> QED BY <1>5, <1>6, <1>7, <1>14 DEF q, m

-----------------------------------------------------------------------------
(* Rows of the board.                                                      *)
Rows == [Index -> Values]
Boards == [Index -> Rows]

(* A row of the board is a sequence of SIZE values.                        *)
LEMMA RowsAreSequences ==
  ASSUME NEW row \in Rows
  PROVE  row \in Seq(Values) /\ Len(row) = SIZE
<1>1. SIZE \in Nat
  BY GameAssumption
<1> QED BY <1>1 DEF Rows, Index

(* A row with neither an empty place nor a pair.                           *)
Stuck(row) ==
  (\A j \in Index : row[j] # 0) /\ \A j \in 1 .. SIZE - 1 : row[j] # row[j + 1]
(* A row whose tiles are all before its empty places.                      *)
Packed(row) == \A j, k \in Index : j < k /\ row[j] = 0 => row[k] = 0

(* A row after a slide: its worth grew by what was gained, its tiles are   *)
(* in front, and it is unchanged exactly if it was stuck.                  *)
LEMMA SlidRow ==
  ASSUME NEW row \in Rows
  PROVE  /\ moveRowLeft(row).row \in Rows
         /\ moveRowLeft(row).gained \in Nat
         /\ RowWorth(moveRowLeft(row).row) = RowWorth(row) + moveRowLeft(row).gained
         /\ Packed(moveRowLeft(row).row)
         /\ Stuck(row) => moveRowLeft(row).row = row
         /\ (\A j \in Index : row[j] # 0) /\ moveRowLeft(row).row = row => Stuck(row)
<1> DEFINE n == SIZE
           tiles == TilesOf(row)
           p == Merged(tiles).row
           g == Merged(tiles).gained
           new == Padded(p, n)
           Full == \A j \in Index : row[j] # 0
<1>1. n \in Nat /\ n > 1 /\ Index = 1 .. n
  BY GameAssumption DEF Index
<1>2. row \in Seq(Values) /\ Len(row) = n
  BY RowsAreSequences
<1>3. moveRowLeft(row) = [row |-> new, gained |-> g]
  BY <1>2 DEF moveRowLeft
<1>4. /\ tiles \in Seq(Tiles) /\ Len(tiles) <= n /\ RowWorth(tiles) = RowWorth(row)
      /\ Full => tiles = row
  BY <1>1, <1>2, TilesOfRow
<1> HIDE DEF tiles
<1>5. /\ Merged(tiles) \in Line
      /\ Len(p) <= Len(tiles)
      /\ RowWorth(p) = RowWorth(tiles) + g
      /\ ~HasPair(tiles) => p = tiles
      /\ HasPair(tiles) => Len(p) < Len(tiles)
  BY <1>4, MergedRow
<1>6. p \in Seq(Tiles) /\ g \in Nat /\ Len(p) \in Nat /\ Len(tiles) \in Nat
  <2>1. p \in Seq(Tiles) /\ g \in Nat
    BY <1>5 DEF Line
  <2> HIDE DEF p
  <2> QED BY <1>4, <2>1
<1> HIDE DEF p, g, n
<1>7. Len(p) <= n
  BY <1>1, <1>4, <1>5, <1>6
<1>8. /\ new \in Seq(Values) /\ Len(new) = n
      /\ \A k \in 1 .. n : new[k] = 0 <=> k > Len(p)
      /\ \A k \in 1 .. Len(p) : new[k] = p[k]
      /\ RowWorth(new) = RowWorth(p)
  BY <1>1, <1>6, <1>7, PaddedRow
<1> HIDE DEF new
<1>9. new \in Rows
  BY <1>1, <1>8 DEF Rows
<1>10. RowWorth(new) = RowWorth(row) + g
  BY <1>4, <1>5, <1>8
<1>11. Packed(new)
  BY <1>1, <1>6, <1>8 DEF Packed
<1>12. ASSUME Stuck(row) PROVE new = row
  <2>1. tiles = row
    BY <1>4, <1>12 DEF Stuck
  <2>2. ~HasPair(tiles)
    BY <1>1, <1>2, <1>12, <2>1 DEF Stuck, HasPair, n
  <2>3. p = row
    BY <1>5, <2>1, <2>2
  <2>4. \A k \in 1 .. n : new[k] = row[k]
    BY <1>2, <1>8, <2>3
  <2>5. row \in [1 .. n -> Values] /\ new \in [1 .. n -> Values]
    BY <1>1, <1>9 DEF Rows
  <2>6. row = [k \in 1 .. n |-> row[k]] /\ new = [k \in 1 .. n |-> new[k]]
    BY <2>5
  <2> QED BY <2>4, <2>6
<1>13. ASSUME Full, new = row PROVE Stuck(row)
  <2>1. tiles = row
    BY <1>4, <1>13
  <2>2. n \in 1 .. n /\ new[n] # 0
    BY <1>1, <1>13
  <2>3. Len(p) = n
    BY <1>1, <1>6, <1>7, <1>8, <2>2
  <2>4. ~HasPair(tiles)
    BY <1>1, <1>2, <1>5, <1>6, <2>1, <2>3
  <2>5. \A j \in 1 .. n - 1 : row[j] # row[j + 1]
    BY <1>2, <2>1, <2>4 DEF HasPair
  <2> QED BY <1>13, <2>5 DEF Stuck, n
<1>14. moveRowLeft(row).row = new /\ moveRowLeft(row).gained = g
  BY <1>3
<1> QED BY <1>6, <1>9, <1>10, <1>11, <1>12, <1>13, <1>14

(* Reversing.                                                              *)
LEMMA ReversedRow ==
  ASSUME NEW row \in Rows
  PROVE  /\ Reverse(row) \in Rows
         /\ \A j \in Index : Reverse(row)[j] = row[SIZE + 1 - j] /\ SIZE + 1 - j \in Index
         /\ Reverse(Reverse(row)) = row
         /\ RowWorth(Reverse(row)) = RowWorth(row)
<1> DEFINE n == SIZE
           r == Reverse(row)
           f == [j \in 1 .. Len(row) |-> Worth[row[j]]]
           g == [j \in 1 .. Len(r) |-> Worth[r[j]]]
<1>1. n \in Nat /\ Index = 1 .. n
  BY GameAssumption DEF Index
<1>2. row \in Seq(Values) /\ Len(row) = n /\ row \in [1 .. n -> Values]
  BY <1>1, RowsAreSequences DEF Rows
<1> HIDE DEF n
<1>3. \A j \in 1 .. n : n + 1 - j \in 1 .. n /\ n - j + 1 = n + 1 - j /\ n + 1 - (n + 1 - j) = j
  BY <1>1
<1>4. r = [j \in 1 .. n |-> row[n + 1 - j]]
  <2>1. r = [j \in 1 .. n |-> row[(n - j) + 1]]
    BY <1>2 DEF Reverse
  <2> HIDE DEF r
  <2> QED BY <1>3, <2>1
<1> HIDE DEF r
<1>5. r \in [1 .. n -> Values] /\ \A j \in 1 .. n : r[j] = row[n + 1 - j]
  BY <1>2, <1>3, <1>4
<1>6. r \in Rows
  BY <1>1, <1>5 DEF Rows
<1>7. Len(r) = n
  BY <1>6, RowsAreSequences DEF n
<1>8. Reverse(r) = row
  <2>1. Reverse(r) = [j \in 1 .. n |-> r[(n - j) + 1]]
    BY <1>7 DEF Reverse
  <2>2. \A j \in 1 .. n : r[(n - j) + 1] = row[j]
    BY <1>3, <1>5
  <2> QED BY <1>2, <2>1, <2>2
<1>9. RowWorth(r) = RowWorth(row)
  <2>1. RowWorth(row) = Total(f, n) /\ RowWorth(r) = Total(g, n)
    BY <1>2, <1>7 DEF RowWorth
  <2>2. Summable(f, n)
    BY <1>2, RowSummable
  <2>3. \A k \in 1 .. n : g[k] = f[n + 1 - k]
    BY <1>2, <1>3, <1>5, <1>7
  <2> HIDE DEF f, g
  <2>4. Total(g, n) = Total(f, n)
    BY <1>1, <2>2, <2>3, TotalReverse
  <2> QED BY <2>1, <2>4
<1> QED BY <1>1, <1>3, <1>5, <1>6, <1>8, <1>9 DEF r, n

(* A row with an empty place and a tile moves one way or the other.        *)
LEMMA GapMoves ==
  ASSUME NEW row \in Rows, NEW j \in Index, NEW k \in Index, row[j] = 0, row[k] # 0
  PROVE  moveRowLeft(row).row # row \/ moveRowLeft(Reverse(row)).row # Reverse(row)
<1> SUFFICES ASSUME moveRowLeft(row).row = row, moveRowLeft(Reverse(row)).row = Reverse(row)
             PROVE  FALSE
  OBVIOUS
<1>1. SIZE \in Nat /\ j \in Nat /\ k \in Nat /\ j # k
  BY GameAssumption DEF Index
<1>2. Reverse(row) \in Rows
  BY ReversedRow
<1>3. Packed(row) /\ Packed(Reverse(row))
  BY <1>2, SlidRow
<1>4. CASE j < k
  BY <1>3, <1>4 DEF Packed
<1>5. CASE k < j
  <2> DEFINE a == SIZE + 1 - j
             b == SIZE + 1 - k
  <2>1. a \in Index /\ b \in Index /\ a < b
    BY <1>1, <1>5, ReversedRow
  <2>2. SIZE + 1 - a = j /\ SIZE + 1 - b = k
    BY <1>1
  <2> HIDE DEF a, b
  <2>3. Reverse(row)[a] = 0 /\ Reverse(row)[b] # 0
    BY <2>1, <2>2, ReversedRow
  <2> QED BY <1>3, <2>1, <2>3 DEF Packed
<1> QED BY <1>1, <1>4, <1>5

(* A row is stuck read from either end.                                    *)
LEMMA StuckReversed ==
  ASSUME NEW row \in Rows, Stuck(row)
  PROVE  Stuck(Reverse(row))
<1>1. SIZE \in Nat /\ Index = 1 .. SIZE
  BY GameAssumption DEF Index
<1>2. \A j \in Index : Reverse(row)[j] = row[SIZE + 1 - j] /\ SIZE + 1 - j \in Index
  BY ReversedRow
<1>3. ASSUME NEW j \in 1 .. SIZE - 1 PROVE Reverse(row)[j] # Reverse(row)[j + 1]
  <2>1. /\ j \in Index /\ j + 1 \in Index /\ SIZE - j \in 1 .. SIZE - 1
        /\ SIZE + 1 - j = (SIZE - j) + 1 /\ SIZE + 1 - (j + 1) = SIZE - j
    BY <1>1
  <2>2. row[SIZE - j] # row[(SIZE - j) + 1]
    BY <2>1 DEF Stuck
  <2>3. Reverse(row)[j] = row[(SIZE - j) + 1] /\ Reverse(row)[j + 1] = row[SIZE - j]
    BY <1>2, <2>1
  <2> QED BY <2>2, <2>3
<1> QED BY <1>2, <1>3 DEF Stuck

-----------------------------------------------------------------------------
(* Boards.                                                                 *)
LEMMA BoardSummable ==
  ASSUME NEW b \in Boards
  PROVE  /\ Summable([i \in Index |-> RowWorth(b[i])], SIZE)
         /\ BoardWorth(b) \in Int
<1> DEFINE f == [i \in Index |-> RowWorth(b[i])]
<1>1. SIZE \in Nat /\ Index = 1 .. SIZE
  BY GameAssumption DEF Index
<1>2. \A i \in Index : RowWorth(b[i]) \in Int
  <2> TAKE i \in Index
  <2>1. b[i] \in Rows
    BY DEF Boards
  <2> QED BY <2>1, RowsAreSequences, RowSummable
<1>3. Summable(f, SIZE)
  BY <1>1, <1>2 DEF Summable
<1>4. BoardWorth(b) = Total(f, SIZE)
  BY DEF BoardWorth
<1> HIDE DEF f
<1>5. Total(f, SIZE) \in Int
  BY <1>1, <1>3, TotalType
<1> QED BY <1>3, <1>4, <1>5 DEF f

(* A sum of gains is a gain.                                               *)
LEMMA TotalOfGains ==
  ASSUME NEW n \in Nat, NEW f, \A k \in 1 .. n : f[k] \in Nat
  PROVE  Total(f, n) \in Nat
<1> DEFINE T == {k \in Nat : k <= n => Total(f, k) \in Nat}
<1>1. 0 \in T
  BY TotalZero
<1>2. ASSUME NEW k \in Nat, k \in T PROVE k + 1 \in T
  <2> SUFFICES ASSUME k + 1 <= n PROVE Total(f, k + 1) \in Nat
    OBVIOUS
  <2>1. Summable(f, k + 1) /\ k <= n /\ k + 1 \in 1 .. n
    BY DEF Summable
  <2>2. Total(f, k + 1) = Total(f, k) + f[k + 1] /\ Total(f, k) \in Nat /\ f[k + 1] \in Nat
    BY <1>2, <2>1, TotalNext
  <2> QED BY <2>2
<1> HIDE DEF T
<1>3. n \in T
  BY <1>1, <1>2, NatInductionSet
<1> QED BY <1>3 DEF T

(* When every row is worth what it was and what it gained, so is the board.*)
RowsGain(b, d, g) == \A i \in Index : RowWorth(d[i]) = RowWorth(b[i]) + g[i]

(* The gains of the rows add up to what the worth of the board grows by.   *)
LEMMA BoardGains ==
  ASSUME NEW b \in Boards, NEW d \in Boards, NEW g \in [Index -> Nat], RowsGain(b, d, g)
  PROVE  Total(g, SIZE) \in Nat /\ BoardWorth(d) = BoardWorth(b) + Total(g, SIZE)
<1> DEFINE f == [i \in Index |-> RowWorth(b[i])]
           h == [i \in Index |-> RowWorth(d[i])]
<1>1. SIZE \in Nat /\ Index = 1 .. SIZE
  BY GameAssumption DEF Index
<1>2. Summable(f, SIZE) /\ BoardWorth(b) = Total(f, SIZE) /\ BoardWorth(d) = Total(h, SIZE)
  BY BoardSummable DEF BoardWorth
<1>3. Summable(g, SIZE)
  BY <1>1 DEF Summable
<1>4. \A k \in 1 .. SIZE : h[k] = f[k] + g[k]
  BY <1>1 DEF RowsGain
<1>5. Total(g, SIZE) \in Nat
  BY <1>1, TotalOfGains
<1> HIDE DEF f, h
<1>6. Total(h, SIZE) = Total(f, SIZE) + Total(g, SIZE)
  BY <1>1, <1>2, <1>3, <1>4, TotalAdds
<1> QED BY <1>2, <1>5, <1>6

(* To the left and to the right.                                           *)
Slid(b, m) ==
  /\ m.board \in Boards /\ m.gained \in Nat
  /\ BoardWorth(m.board) = BoardWorth(b) + m.gained

(* A move to the left slides every row; the board stays if every row does. *)
LEMMA LeftSlides ==
  ASSUME NEW b \in Boards
  PROVE  /\ Slid(b, MoveLeft(b))
         /\ MoveLeft(b).board = b <=> \A i \in Index : moveRowLeft(b[i]).row = b[i]
<1> DEFINE lines == [i \in Index |-> moveRowLeft(b[i])]
           d == [i \in Index |-> lines[i].row]
           g == [i \in Index |-> lines[i].gained]
<1>1. \A i \in Index : lines[i] = moveRowLeft(b[i])
  OBVIOUS
<1>2. ASSUME NEW i \in Index
      PROVE  /\ moveRowLeft(b[i]).row \in Rows /\ moveRowLeft(b[i]).gained \in Nat
             /\ RowWorth(moveRowLeft(b[i]).row) = RowWorth(b[i]) + moveRowLeft(b[i]).gained
  <2>1. b[i] \in Rows
    BY DEF Boards
  <2> QED BY <2>1, SlidRow
<1>3. MoveLeft(b) = [board |-> d, gained |-> Total(g, SIZE)]
  BY DEF MoveLeft
<1> HIDE DEF lines
<1>4. d \in Boards /\ g \in [Index -> Nat] /\ RowsGain(b, d, g)
  BY <1>1, <1>2 DEF Boards, RowsGain
<1>5. Total(g, SIZE) \in Nat /\ BoardWorth(d) = BoardWorth(b) + Total(g, SIZE)
  <2> HIDE DEF d, g
  <2> QED BY <1>4, BoardGains
<1>6. d = b <=> \A i \in Index : moveRowLeft(b[i]).row = b[i]
  <2>1. b = [i \in Index |-> b[i]]
    BY DEF Boards
  <2>2. \A i \in Index : d[i] = moveRowLeft(b[i]).row
    BY <1>1
  <2>3. d = [i \in Index |-> d[i]]
    OBVIOUS
  <2> HIDE DEF d
  <2> QED BY <2>1, <2>2, <2>3
<1> HIDE DEF d, g
<1>7. MoveLeft(b).board = d /\ MoveLeft(b).gained = Total(g, SIZE)
  BY <1>3
<1> QED BY <1>4, <1>5, <1>6, <1>7 DEF Slid

(* A move to the right slides every row reversed.                          *)
LEMMA RightSlides ==
  ASSUME NEW b \in Boards
  PROVE  /\ Slid(b, MoveRight(b))
         /\ MoveRight(b).board = b
            <=> \A i \in Index : moveRowLeft(Reverse(b[i])).row = Reverse(b[i])
<1> DEFINE lines == [i \in Index |-> moveRowLeft(Reverse(b[i]))]
           d == [i \in Index |-> Reverse(lines[i].row)]
           g == [i \in Index |-> lines[i].gained]
<1>1. \A i \in Index : lines[i] = moveRowLeft(Reverse(b[i]))
  OBVIOUS
<1>2. ASSUME NEW i \in Index
      PROVE  LET s == moveRowLeft(Reverse(b[i]))
             IN  /\ Reverse(s.row) \in Rows /\ s.gained \in Nat
                 /\ RowWorth(Reverse(s.row)) = RowWorth(b[i]) + s.gained
                 /\ Reverse(s.row) = b[i] <=> s.row = Reverse(b[i])
  <2> DEFINE s == moveRowLeft(Reverse(b[i]))
  <2>1. b[i] \in Rows
    BY DEF Boards
  <2>2. /\ Reverse(b[i]) \in Rows /\ RowWorth(Reverse(b[i])) = RowWorth(b[i])
        /\ Reverse(Reverse(b[i])) = b[i]
    BY <2>1, ReversedRow
  <2>3. s.row \in Rows /\ s.gained \in Nat /\ RowWorth(s.row) = RowWorth(Reverse(b[i])) + s.gained
    BY <2>2, SlidRow
  <2>4. /\ Reverse(s.row) \in Rows /\ RowWorth(Reverse(s.row)) = RowWorth(s.row)
        /\ Reverse(Reverse(s.row)) = s.row
    BY <2>3, ReversedRow
  <2> HIDE DEF s
  <2>5. RowWorth(Reverse(s.row)) = RowWorth(b[i]) + s.gained
    BY <2>2, <2>3, <2>4
  <2>6. Reverse(s.row) = b[i] <=> s.row = Reverse(b[i])
    BY <2>2, <2>4, Zenon
  <2> QED BY <2>3, <2>4, <2>5, <2>6 DEF s
<1>3. MoveRight(b) = [board |-> d, gained |-> Total(g, SIZE)]
  BY DEF MoveRight
<1> HIDE DEF lines
<1>4. d \in Boards /\ g \in [Index -> Nat] /\ RowsGain(b, d, g)
  BY <1>1, <1>2 DEF Boards, RowsGain
<1>5. Total(g, SIZE) \in Nat /\ BoardWorth(d) = BoardWorth(b) + Total(g, SIZE)
  <2> HIDE DEF d, g
  <2> QED BY <1>4, BoardGains
<1>6. d = b <=> \A i \in Index : moveRowLeft(Reverse(b[i])).row = Reverse(b[i])
  <2>1. b = [i \in Index |-> b[i]]
    BY DEF Boards
  <2>2. \A i \in Index : d[i] = b[i] <=> moveRowLeft(Reverse(b[i])).row = Reverse(b[i])
    BY <1>1, <1>2
  <2>3. d = [i \in Index |-> d[i]]
    OBVIOUS
  <2> HIDE DEF d
  <2> QED BY <2>1, <2>2, <2>3
<1> HIDE DEF d, g
<1>7. MoveRight(b).board = d /\ MoveRight(b).gained = Total(g, SIZE)
  BY <1>3
<1> QED BY <1>4, <1>5, <1>6, <1>7 DEF Slid

(* Transposing.                                                            *)
LEMMA Transposed ==
  ASSUME NEW b \in Boards
  PROVE  /\ transpose(b) \in Boards
         /\ \A i, j \in Index : transpose(b)[i][j] = b[j][i]
         /\ transpose(transpose(b)) = b
         /\ BoardWorth(transpose(b)) = BoardWorth(b)
<1> DEFINE n == SIZE
           t == transpose(b)
           w == [i \in Index |-> [j \in Index |-> Worth[b[i][j]]]]
           u == [j \in Index |-> [i \in Index |-> Worth[t[j][i]]]]
<1>1. n \in Nat /\ Index = 1 .. n
  BY GameAssumption DEF Index
<1>2. t \in Boards /\ \A i, j \in Index : t[i][j] = b[j][i]
  BY DEF transpose, Boards, Rows
<1>3. transpose(t) = b
  <2> HIDE DEF t
  <2>1. transpose(t) = [i \in Index |-> [j \in Index |-> b[i][j]]]
    BY <1>2 DEF transpose
  <2>2. \A i \in Index : b[i] = [j \in Index |-> b[i][j]]
    BY DEF Boards, Rows
  <2>3. b = [i \in Index |-> b[i]]
    BY DEF Boards
  <2> QED BY <2>1, <2>2, <2>3
<1> HIDE DEF t
<1>4. ASSUME NEW c \in Boards
      PROVE  BoardWorth(c) = Total([i \in 1 .. n |-> Total([j \in 1 .. n |-> Worth[c[i][j]]], n)], n)
  <2>1. \A i \in 1 .. n : Len(c[i]) = n
    BY <1>1, RowsAreSequences DEF Boards, n
  <2>2. \A i \in 1 .. n : RowWorth(c[i]) = Total([j \in 1 .. n |-> Worth[c[i][j]]], n)
    BY <2>1 DEF RowWorth
  <2>3. BoardWorth(c) = Total([i \in 1 .. n |-> RowWorth(c[i])], n)
    BY <1>1 DEF BoardWorth, n
  <2> HIDE DEF n
  <2>4. [i \in 1 .. n |-> RowWorth(c[i])]
        = [i \in 1 .. n |-> Total([j \in 1 .. n |-> Worth[c[i][j]]], n)]
    BY <2>2
  <2> QED BY <2>3, <2>4
<1> HIDE DEF n
<1>5. Turned(w, u, n, n)
  <2> SUFFICES ASSUME NEW i \in 1 .. n, NEW j \in 1 .. n
               PROVE  w[i][j] \in Int /\ u[j][i] = w[i][j]
    BY DEF Turned
  <2>1. b[i][j] \in Nat
    BY <1>1 DEF Boards, Rows, Values
  <2>2. w[i][j] = Worth[b[i][j]] /\ u[j][i] = Worth[t[j][i]] /\ t[j][i] = b[i][j]
    BY <1>1, <1>2
  <2>3. Worth[b[i][j]] \in Int
    BY <2>1, WorthOfTiles
  <2> QED BY <2>2, <2>3
<1>6. BoardWorth(b) = Grid(w, n, n)
  <2>1. \A i \in 1 .. n : [j \in 1 .. n |-> Worth[b[i][j]]] = [j \in 1 .. n |-> w[i][j]]
    BY <1>1
  <2> HIDE DEF w
  <2> QED BY <1>4, <2>1 DEF Grid
<1>7. BoardWorth(t) = Grid(u, n, n)
  <2>1. \A j \in 1 .. n : [i \in 1 .. n |-> Worth[t[j][i]]] = [i \in 1 .. n |-> u[j][i]]
    BY <1>1
  <2> HIDE DEF u
  <2> QED BY <1>2, <1>4, <2>1 DEF Grid
<1> HIDE DEF w, u
<1>8. BoardWorth(t) = BoardWorth(b)
  BY <1>1, <1>5, <1>6, <1>7, TotalByColumns
<1> QED BY <1>2, <1>3, <1>8 DEF t

(* In every direction.                                                     *)
LEMMA MovedBoards ==
  ASSUME NEW b \in Boards
  PROVE  /\ \A dir \in Directions : Slid(b, Moved(dir, b))
         /\ Moved("left", b).board = b <=> \A i \in Index : moveRowLeft(b[i]).row = b[i]
         /\ Moved("right", b).board = b
              <=> \A i \in Index : moveRowLeft(Reverse(b[i])).row = Reverse(b[i])
         /\ Moved("up", b).board = b
              <=> \A i \in Index : moveRowLeft(transpose(b)[i]).row = transpose(b)[i]
         /\ Moved("down", b).board = b
              <=> \A i \in Index : moveRowLeft(Reverse(transpose(b)[i])).row = Reverse(transpose(b)[i])
<1> DEFINE t == transpose(b)
           up == MoveLeft(t)
           down == MoveRight(t)
<1>1. Moved("left", b) = MoveLeft(b)
  BY DEF Moved
<1>2. Moved("right", b) = MoveRight(b)
  BY DEF Moved
<1>3. Moved("up", b) = [up EXCEPT !.board = transpose(@)]
  BY DEF Moved
<1>4. Moved("down", b) = [down EXCEPT !.board = transpose(@)]
  BY DEF Moved
<1>5. t \in Boards /\ transpose(t) = b /\ BoardWorth(t) = BoardWorth(b)
  BY Transposed
<1> HIDE DEF t
<1>6. Slid(t, up) /\ Slid(t, down)
  BY <1>5, LeftSlides, RightSlides
<1>7. Moved("up", b).board = transpose(up.board) /\ Moved("up", b).gained = up.gained
  BY <1>3 DEF MoveLeft
<1>8. Moved("down", b).board = transpose(down.board) /\ Moved("down", b).gained = down.gained
  BY <1>4 DEF MoveRight
<1> HIDE DEF up, down
<1>9. ASSUME NEW m, Slid(t, m)
      PROVE  /\ transpose(m.board) \in Boards /\ m.gained \in Nat
             /\ BoardWorth(transpose(m.board)) = BoardWorth(b) + m.gained
             /\ transpose(m.board) = b <=> m.board = t
  <2>1. m.board \in Boards /\ m.gained \in Nat /\ BoardWorth(m.board) = BoardWorth(t) + m.gained
    BY <1>9 DEF Slid
  <2>2. /\ transpose(m.board) \in Boards /\ BoardWorth(transpose(m.board)) = BoardWorth(m.board)
        /\ transpose(transpose(m.board)) = m.board
    BY <2>1, Transposed
  <2>3. transpose(m.board) = b <=> m.board = t
    BY <1>5, <2>2, Zenon DEF t
  <2> QED BY <1>5, <2>1, <2>2, <2>3
<1>10. Slid(b, Moved("up", b)) /\ (Moved("up", b).board = b <=> up.board = t)
  BY <1>6, <1>7, <1>9 DEF Slid
<1>11. Slid(b, Moved("down", b)) /\ (Moved("down", b).board = b <=> down.board = t)
  BY <1>6, <1>8, <1>9 DEF Slid
<1>12. Slid(b, Moved("left", b)) /\ Slid(b, Moved("right", b))
  BY <1>1, <1>2, LeftSlides, RightSlides
<1>13. \A dir \in Directions : Slid(b, Moved(dir, b))
  BY <1>10, <1>11, <1>12 DEF Directions
<1>14. up.board = t <=> \A i \in Index : moveRowLeft(t[i]).row = t[i]
  BY <1>5, LeftSlides DEF up
<1>15. down.board = t <=> \A i \in Index : moveRowLeft(Reverse(t[i])).row = Reverse(t[i])
  BY <1>5, RightSlides DEF down
<1>16. Moved("left", b).board = b <=> \A i \in Index : moveRowLeft(b[i]).row = b[i]
  BY <1>1, LeftSlides
<1>17. Moved("right", b).board = b
         <=> \A i \in Index : moveRowLeft(Reverse(b[i])).row = Reverse(b[i])
  BY <1>2, RightSlides
<1> QED BY <1>10, <1>11, <1>13, <1>14, <1>15, <1>16, <1>17 DEF t

(* gameCanMove tells whether a move in some direction would change the     *)
(* board, as long as there is a tile on it (game.c:155-176).               *)
THEOREM CanMoveIsRight ==
  ASSUME NEW b \in Boards, \E c \in Cells : Tile(b, c) # 0
  PROVE  ~gameCanMove(b) <=> \A dir \in Directions : Moved(dir, b).board = b
<1> DEFINE t == transpose(b)
           Still == \A dir \in Directions : Moved(dir, b).board = b
<1>1. SIZE \in Nat /\ Index = 1 .. SIZE
  BY GameAssumption DEF Index
<1>2. t \in Boards /\ \A i, j \in Index : t[i][j] = b[j][i]
  BY Transposed
<1> HIDE DEF t
<1>3. \A i \in Index : b[i] \in Rows /\ t[i] \in Rows
  BY <1>2 DEF Boards
<1>4. Still <=> \A i \in Index : /\ moveRowLeft(b[i]).row = b[i]
                                /\ moveRowLeft(Reverse(b[i])).row = Reverse(b[i])
                                /\ moveRowLeft(t[i]).row = t[i]
                                /\ moveRowLeft(Reverse(t[i])).row = Reverse(t[i])
  <2>1. Still <=> /\ Moved("left", b).board = b /\ Moved("right", b).board = b
                  /\ Moved("up", b).board = b /\ Moved("down", b).board = b
    BY DEF Directions
  <2> HIDE DEF Still
  <2> QED BY <2>1, MovedBoards DEF t
<1> HIDE DEF Still
<1>5. ASSUME ~gameCanMove(b) PROVE Still
  <2>1. \A i \in Index, j \in Index : b[i][j] # 0
    <3> TAKE i \in Index, j \in Index
    <3>1. <<i, j>> \in Cells /\ <<i, j>> \notin Empty(b)
      BY <1>5 DEF gameCanMove, Cells
    <3> QED BY <3>1 DEF Empty, Tile
  <2>2. \A i \in Index, j \in 1 .. SIZE - 1 : b[i][j] # b[i][j + 1]
    BY <1>5 DEF gameCanMove
  <2>3. \A j \in Index, i \in 1 .. SIZE - 1 : b[i][j] # b[i + 1][j]
    BY <1>5 DEF gameCanMove
  <2>4. ASSUME NEW i \in Index PROVE Stuck(b[i]) /\ Stuck(t[i])
    <3>1. Stuck(b[i])
      BY <2>1, <2>2 DEF Stuck
    <3>2. \A j \in Index : t[i][j] # 0
      BY <1>2, <2>1
    <3>3. \A j \in 1 .. SIZE - 1 : j \in Index /\ j + 1 \in Index
      BY <1>1
    <3>4. \A j \in 1 .. SIZE - 1 : t[i][j] # t[i][j + 1]
      BY <1>2, <2>3, <3>3
    <3> QED BY <3>1, <3>2, <3>4 DEF Stuck
  <2>5. ASSUME NEW i \in Index
        PROVE  /\ moveRowLeft(b[i]).row = b[i]
               /\ moveRowLeft(Reverse(b[i])).row = Reverse(b[i])
               /\ moveRowLeft(t[i]).row = t[i]
               /\ moveRowLeft(Reverse(t[i])).row = Reverse(t[i])
    <3>1. Stuck(Reverse(b[i])) /\ Stuck(Reverse(t[i])) /\ Stuck(b[i]) /\ Stuck(t[i])
      BY <1>3, <2>4, StuckReversed
    <3>2. Reverse(b[i]) \in Rows /\ Reverse(t[i]) \in Rows /\ b[i] \in Rows /\ t[i] \in Rows
      BY <1>3, ReversedRow
    <3> QED BY <3>1, <3>2, SlidRow
  <2> QED BY <1>4, <2>5
<1>6. ASSUME Still PROVE ~gameCanMove(b)
  <2>1. \A i \in Index : /\ moveRowLeft(b[i]).row = b[i]
                         /\ moveRowLeft(Reverse(b[i])).row = Reverse(b[i])
                         /\ moveRowLeft(t[i]).row = t[i]
                         /\ moveRowLeft(Reverse(t[i])).row = Reverse(t[i])
    BY <1>4, <1>6
  <2>2. \A i, j, k \in Index : b[i][j] = 0 => b[i][k] = 0
    BY <1>3, <2>1, GapMoves
  <2>3. \A i, j, k \in Index : t[i][j] = 0 => t[i][k] = 0
    BY <1>3, <2>1, GapMoves
  <2>4. \A i, j \in Index : b[i][j] # 0
    <3> SUFFICES ASSUME NEW i \in Index, NEW j \in Index, b[i][j] = 0 PROVE FALSE
      OBVIOUS
    <3>1. PICK c \in Cells : Tile(b, c) # 0
      OBVIOUS
    <3>2. c[1] \in Index /\ c[2] \in Index /\ b[c[1]][c[2]] # 0
      BY <3>1 DEF Cells, Tile
    <3> DEFINE k == c[1]
               l == c[2]
    <3>3. k \in Index /\ l \in Index /\ b[k][l] # 0
      BY <3>2
    <3> HIDE DEF k, l
    <3>4. b[i][l] = 0
      BY <2>2, <3>3
    <3>5. t[l][i] = 0
      BY <1>2, <3>3, <3>4
    <3>6. t[l][k] = 0
      BY <2>3, <3>3, <3>5
    <3> QED BY <1>2, <3>3, <3>6
  <2>5. Empty(b) = {}
    <3>1. \A c \in Cells : Tile(b, c) # 0
      BY <2>4 DEF Cells, Tile
    <3> QED BY <3>1 DEF Empty
  <2>6. ASSUME NEW i \in Index PROVE Stuck(b[i]) /\ Stuck(t[i])
    <3>1. (\A j \in Index : b[i][j] # 0) /\ \A j \in Index : t[i][j] # 0
      BY <1>2, <2>4
    <3>2. b[i] \in Rows /\ t[i] \in Rows
      BY <1>3
    <3> QED BY <2>1, <3>1, <3>2, SlidRow
  <2>7. \A i \in Index, j \in 1 .. SIZE - 1 : b[i][j] # b[i][j + 1]
    BY <2>6 DEF Stuck
  <2>8. \A j \in Index, i \in 1 .. SIZE - 1 : b[i][j] # b[i + 1][j]
    <3> TAKE j \in Index, i \in 1 .. SIZE - 1
    <3>1. i \in Index /\ i + 1 \in Index
      BY <1>1
    <3>2. t[j][i] # t[j][i + 1]
      BY <2>6 DEF Stuck
    <3> QED BY <1>2, <3>1, <3>2
  <2> QED BY <2>5, <2>7, <2>8 DEF gameCanMove
<1> QED BY <1>5, <1>6 DEF Still

(* A tile put on an empty place: a four brings 4, a two nothing.           *)
LEMMA TilePut ==
  ASSUME NEW b \in Boards, NEW c \in Cells, NEW v \in {2, 4}, Tile(b, c) = 0
  PROVE  /\ WithTile(b, c, v) \in Boards
         /\ v \div 4 \in Nat
         /\ BoardWorth(WithTile(b, c, v)) = BoardWorth(b) + 4 * (v \div 4)
         /\ \A e \in Cells : Tile(WithTile(b, c, v), e) = IF e = c THEN v ELSE Tile(b, e)
<1> DEFINE i == c[1]
           j == c[2]
           d == WithTile(b, c, v)
           r == b[i]
           s == d[i]
           f == [k \in 1 .. Len(r) |-> Worth[r[k]]]
           g == [k \in 1 .. Len(s) |-> Worth[s[k]]]
           F == [k \in Index |-> RowWorth(b[k])]
           G == [k \in Index |-> RowWorth(d[k])]
<1>1. SIZE \in Nat /\ Index = 1 .. SIZE
  BY GameAssumption DEF Index
<1>2. i \in Index /\ j \in Index /\ c = <<i, j>> /\ r[j] = 0
  BY DEF Cells, Tile
<1>3. v \in Values /\ v \in Nat
  BY DEF Values
<1>4. d = [b EXCEPT ![i][j] = v]
  BY DEF WithTile
<1>5. /\ d \in Boards /\ s = [r EXCEPT ![j] = v]
      /\ \A k \in Index : k # i => d[k] = b[k]
  <2> DEFINE x == [r EXCEPT ![j] = v]
  <2>1. r \in Rows
    BY <1>2 DEF Boards
  <2>2. x \in Rows
    BY <1>2, <1>3, <2>1 DEF Rows
  <2>3. d = [b EXCEPT ![i] = x]
    BY <1>4
  <2> HIDE DEF d, x, i, j, r
  <2>4. d \in Boards /\ d[i] = x /\ \A k \in Index : k # i => d[k] = b[k]
    BY <1>2, <2>2, <2>3 DEF Boards
  <2> QED BY <2>4 DEF x, r
<1>6. r \in Rows /\ s \in Rows /\ s[j] = v /\ \A k \in Index : k # j => s[k] = r[k]
  BY <1>2, <1>5 DEF Boards, Rows
<1>7. Worth[v] = 4 * (v \div 4) /\ v \div 4 \in Nat /\ Worth[r[j]] = 0 /\ Worth[v] \in Nat
  <2>1. Worth[0] = 0 /\ Worth[2] = 0 /\ Worth[4] = 4
    BY WorthOfTiles
  <2>2. v = 2 => v \div 4 = 0
    OBVIOUS
  <2>3. v = 4 => v \div 4 = 1
    OBVIOUS
  <2> QED BY <1>2, <2>1, <2>2, <2>3
<1>8. \A e \in Cells : Tile(d, e) = IF e = c THEN v ELSE Tile(b, e)
  <2> SUFFICES ASSUME NEW k \in Index, NEW l \in Index
               PROVE  d[k][l] = IF k = i /\ l = j THEN v ELSE b[k][l]
    BY <1>2 DEF Cells, Tile
  <2> HIDE DEF d, i, j
  <2> QED BY <1>5, <1>6
<1> HIDE DEF d, i, j
<1>9. RowWorth(s) = RowWorth(r) + Worth[v] /\ RowWorth(r) \in Int
  <2>1. Len(r) = SIZE /\ Len(s) = SIZE /\ r \in Seq(Values)
    BY <1>6, RowsAreSequences
  <2>2. RowWorth(r) = Total(f, SIZE) /\ RowWorth(s) = Total(g, SIZE) /\ RowWorth(r) \in Int
    BY <2>1, RowSummable DEF RowWorth
  <2>3. Summable(f, SIZE)
    BY <2>1, RowSummable
  <2>4. j \in 1 .. SIZE /\ g[j] = Worth[v] /\ f[j] = 0
    BY <1>1, <1>2, <1>6, <1>7, <2>1
  <2>5. \A k \in 1 .. SIZE : k # j => g[k] = f[k]
    BY <1>1, <1>6, <2>1
  <2>6. g[j] \in Int
    BY <1>7, <2>4
  <2> HIDE DEF f, g, r, s
  <2>7. Total(g, SIZE) = Total(f, SIZE) + g[j] - f[j]
    BY <1>1, <2>3, <2>4, <2>5, <2>6, TotalChange
  <2> QED BY <1>7, <2>2, <2>4, <2>7
<1>10. BoardWorth(d) = BoardWorth(b) + Worth[v]
  <2>1. BoardWorth(b) = Total(F, SIZE) /\ BoardWorth(d) = Total(G, SIZE)
    BY DEF BoardWorth
  <2>2. Summable(F, SIZE) /\ BoardWorth(b) \in Int
    BY BoardSummable
  <2>3. i \in 1 .. SIZE /\ F[i] = RowWorth(r) /\ G[i] = RowWorth(s)
    BY <1>1, <1>2
  <2>4. \A k \in 1 .. SIZE : k # i => G[k] = F[k]
    BY <1>1, <1>5
  <2>5. G[i] \in Int
    BY <1>7, <1>9, <2>3
  <2> HIDE DEF F, G
  <2>6. Total(G, SIZE) = Total(F, SIZE) + G[i] - F[i]
    BY <1>1, <2>2, <2>3, <2>4, <2>5, TotalChange
  <2> QED BY <1>7, <1>9, <2>1, <2>2, <2>3, <2>6
<1> QED BY <1>5, <1>7, <1>8, <1>10 DEF d

-----------------------------------------------------------------------------
(* The numbers up to n are n.                                              *)
LEMMA CountUpto ==
  ASSUME NEW n \in Nat
  PROVE  IsFiniteSet(1 .. n) /\ Cardinality(1 .. n) = n
<1>1. IsFiniteSet(1 .. n) /\ Cardinality(1 .. n) = IF 1 > n THEN 0 ELSE n - 1 + 1
  BY FS_Interval
<1> QED BY <1>1

(* The reference: how far along the run of its equals a tile is.           *)
Run(tiles, i) == {k \in 1 .. i : \A j \in k .. i : tiles[j] = tiles[i]}

(* The place in a run counts on with an equal neighbour and starts again   *)
(* with another one.                                                       *)
LEMMA RunIs ==
  ASSUME NEW tiles, NEW i \in Nat \ {0}
  PROVE  /\ InRun(tiles, i) \in Nat /\ InRun(tiles, 1) = 1
         /\ InRun(tiles, i + 1) = IF tiles[i + 1] = tiles[i] THEN InRun(tiles, i) + 1 ELSE 1
<1>1. /\ InRun(tiles, i) = Cardinality(Run(tiles, i))
      /\ InRun(tiles, i + 1) = Cardinality(Run(tiles, i + 1))
      /\ InRun(tiles, 1) = Cardinality(Run(tiles, 1))
  BY DEF InRun, Run
<1>2. IsFiniteSet(Run(tiles, i))
  <2>1. IsFiniteSet(1 .. i)
    BY CountUpto
  <2>2. Run(tiles, i) \in SUBSET (1 .. i)
    BY DEF Run
  <2> QED BY <2>1, <2>2, FS_Subset
<1>3. Cardinality(Run(tiles, i)) \in Nat
  BY <1>2, FS_CardinalityType
<1>4. Run(tiles, 1) = {1}
  BY DEF Run
<1>5. CASE tiles[i + 1] = tiles[i]
  <2>1. Run(tiles, i + 1) = Run(tiles, i) \union {i + 1}
    <3>1. ASSUME NEW k \in Run(tiles, i + 1) PROVE k \in Run(tiles, i) \union {i + 1}
      BY <1>5, <3>1 DEF Run
    <3>2. ASSUME NEW k \in Run(tiles, i) PROVE k \in Run(tiles, i + 1)
      <4>1. k \in 1 .. i /\ \A j \in k .. i : tiles[j] = tiles[i]
        BY DEF Run
      <4>2. \A j \in k .. i + 1 : tiles[j] = tiles[i + 1]
        BY <1>5, <4>1
      <4> QED BY <4>1, <4>2 DEF Run
    <3>3. i + 1 \in Run(tiles, i + 1)
      BY DEF Run
    <3> QED BY <3>1, <3>2, <3>3
  <2>2. i + 1 \notin Run(tiles, i)
    BY DEF Run
  <2>3. Cardinality(Run(tiles, i + 1)) = Cardinality(Run(tiles, i)) + 1
    BY <1>2, <2>1, <2>2, FS_AddElement
  <2>4. Cardinality({1}) = 1
    BY FS_Singleton
  <2> QED BY <1>1, <1>3, <1>4, <1>5, <2>3, <2>4
<1>6. CASE tiles[i + 1] # tiles[i]
  <2>1. Run(tiles, i + 1) = {i + 1}
    BY <1>6 DEF Run
  <2>2. Cardinality({1}) = 1 /\ Cardinality({i + 1}) = 1
    BY FS_Singleton
  <2> QED BY <1>1, <1>3, <1>4, <1>6, <2>1, <2>2
<1> QED BY <1>5, <1>6

(* What is left of the first tiles, for every number of them.              *)
Leaving(left, tiles) ==
  /\ left \in [0 .. Len(tiles) -> Seq(Nat)]
  /\ left[0] = <<>> /\ left[Len(tiles)] = WithoutEven(tiles)
  /\ \A i \in 1 .. Len(tiles) : left[i] = WithNext(left[i - 1], tiles, i)

(* There is such a sequence of rows.                                       *)
LEMMA LeavingExists ==
  ASSUME NEW tiles \in Seq(Tiles)
  PROVE  \E left : Leaving(left, tiles)
<1> DEFINE n == Len(tiles)
           V == Seq(Nat)
           Eqn(s) == s = [i \in 0 .. n |-> IF i = 0 THEN <<>> ELSE WithNext(s[i - 1], tiles, i)]
           h == [p \in (1 .. n) \X V |-> WithNext(p[2], tiles, p[1])]
           at == CHOOSE s : Eqn(s)
<1>1. n \in Nat /\ <<>> \in V /\ \A i \in 1 .. n : tiles[i] \in Nat
  BY DEF Tiles, Values
<1>2. \A i \in 1 .. n, l \in V : WithNext(l, tiles, i) \in V
  <2> TAKE i \in 1 .. n, l \in V
  <2>1. tiles[i] \in Nat /\ 2 * tiles[i] \in Nat
    BY <1>1
  <2> DEFINE v == IF i < Len(tiles) /\ tiles[i + 1] = tiles[i] THEN 2 * tiles[i] ELSE tiles[i]
  <2>2. v \in Nat
    BY <2>1
  <2> HIDE DEF v
  <2>3. Append(l, v) \in V
    BY <2>2
  <2> QED BY <2>3 DEF WithNext, v
<1> HIDE DEF n, V
<1>3. /\ h \in [(1 .. n) \X V -> V]
      /\ \A i \in 1 .. n, l \in V : h[<<i, l>>] = WithNext(l, tiles, i)
  BY <1>2
<1> HIDE DEF h
<1>4. \E g : Recursion(g, n, V, <<>>, h)
  BY <1>1, <1>3, RecursionExists DEF Steps
<1>5. PICK g : g \in [0 .. n -> V] /\ g[0] = <<>> /\ \A i \in 1 .. n : g[i] = h[<<i, g[i - 1]>>]
  BY <1>4 DEF Recursion
<1>6. ASSUME NEW i \in 1 .. n PROVE g[i] = WithNext(g[i - 1], tiles, i)
  <2>1. g[i - 1] \in V
    BY <1>1, <1>5
  <2> QED BY <1>3, <1>5, <2>1
<1>7. Eqn(g)
  <2>1. ASSUME NEW i \in 0 .. n
        PROVE  g[i] = IF i = 0 THEN <<>> ELSE WithNext(g[i - 1], tiles, i)
    <3>1. CASE i = 0
      BY <1>5, <3>1
    <3>2. CASE i # 0
      <4>1. i \in 1 .. n
        BY <1>1, <3>2
      <4> QED BY <1>6, <3>2, <4>1
    <3> QED BY <3>1, <3>2
  <2>2. g = [i \in 0 .. n |-> g[i]]
    BY <1>5
  <2> QED BY <2>1, <2>2
<1>8. WithoutEven(tiles) = at[n]
  BY DEF WithoutEven, n
<1>9. Eqn(at)
  <2> HIDE DEF Eqn
  <2> QED BY <1>7
<1> HIDE DEF at
<1>10. at = [i \in 0 .. n |-> IF i = 0 THEN <<>> ELSE WithNext(at[i - 1], tiles, i)]
  BY <1>9
<1> HIDE DEF Eqn
<1>11. at[0] = <<>>
  <2>1. 0 \in 0 .. n
    BY <1>1
  <2> QED BY <1>10, <2>1
<1>12. ASSUME NEW i \in 1 .. n PROVE at[i] = WithNext(at[i - 1], tiles, i)
  <2>1. i \in 0 .. n /\ i # 0
    BY <1>1
  <2> QED BY <1>10, <2>1
<1> DEFINE T == {k \in Nat : k <= n => at[k] \in V}
<1>13. 0 \in T
  BY <1>1, <1>11
<1>14. ASSUME NEW k \in Nat, k \in T PROVE k + 1 \in T
  <2> SUFFICES ASSUME k + 1 <= n PROVE at[k + 1] \in V
    OBVIOUS
  <2>1. k + 1 \in 1 .. n /\ (k + 1) - 1 = k /\ k <= n
    BY <1>1
  <2>2. at[k + 1] = WithNext(at[k], tiles, k + 1)
    BY <1>12, <2>1
  <2> QED BY <1>2, <1>14, <2>1, <2>2
<1> HIDE DEF T
<1>15. \A k \in Nat : k \in T
  BY <1>13, <1>14, NatInductionSet
<1>16. \A k \in 0 .. n : at[k] \in V
  BY <1>1, <1>15 DEF T
<1>17. at \in [0 .. n -> V]
  <2>1. at = [i \in 0 .. n |-> at[i]]
    BY <1>10
  <2> QED BY <1>16, <2>1
<1>18. Leaving(at, tiles)
  BY <1>8, <1>11, <1>12, <1>17 DEF Leaving, n, V
<1> QED BY <1>18

(* After merging at the first i places, the row is what is left of its     *)
(* first c tiles, which are i, and then the tiles that come after them;    *)
(* the next of them is at an odd place of its run.                         *)
Sliding(r, l, tiles, i, c) ==
  /\ r \in Seq(Tiles) /\ l \in Seq(Nat) /\ c \in i .. Len(tiles)
  /\ Len(l) = i /\ Len(r) = i + Len(tiles) - c
  /\ \A k \in 1 .. i : r[k] = l[k]
  /\ \A k \in c + 1 .. Len(tiles) : r[i + k - c] = tiles[k]
  /\ c < Len(tiles) => InRun(tiles, c + 1) % 2 = 1
Slidden(m, left, tiles, i) ==
  \/ \E c \in i .. Len(tiles) : Sliding(m[i].row, left[c], tiles, i, c)
  \/ m[i].row = left[Len(tiles)] /\ Len(m[i].row) < i

(* The entries of a sequence with one more behind it.                      *)
LEMMA Appended ==
  ASSUME NEW V, NEW s \in Seq(V), NEW v \in V, NEW n \in Nat, Len(s) = n
  PROVE  /\ Append(s, v) \in Seq(V) /\ Len(Append(s, v)) = n + 1
         /\ Append(s, v)[n + 1] = v
         /\ \A k \in 1 .. n : Append(s, v)[k] = s[k]
OBVIOUS

(* The entries of a row after a merge.                                     *)
LEMMA MergedEntries ==
  ASSUME NEW line \in Line, NEW i \in Nat \ {0}, Merges(line, i)
  PROVE  LET new == MergeStep(line, i).row
         IN  /\ new \in Seq(Tiles) /\ Len(new) = Len(line.row) - 1
             /\ \A k \in 1 .. i - 1 : new[k] = line.row[k]
             /\ new[i] = 2 * line.row[i]
             /\ \A k \in i + 1 .. Len(line.row) - 1 : new[k] = line.row[k + 1]
<1> DEFINE r == line.row
           n == Len(r)
           v == r[i]
           a == SubSeq(r, 1, i - 1)
           c == SubSeq(r, i + 2, n)
           new == MergeStep(line, i).row
           p == a \o <<2 * v>>
<1>1. r \in Seq(Tiles) /\ n \in Nat /\ i < n /\ i \in 1 .. n
  BY DEF Line, Merges
<1>2. new \in Seq(Tiles) /\ new = p \o c /\ Len(new) = n - 1
  BY MergeStepMerges DEF Line
<1>3. v \in Tiles
  BY <1>1
<1>4. 2 * v \in Tiles
  BY <1>3 DEF Tiles, Values
<1>5. /\ a \in Seq(Tiles) /\ Len(a) = i - 1 /\ c \in Seq(Tiles) /\ Len(c) = n - i - 1
      /\ \A k \in 1 .. i - 1 : a[k] = r[k]
      /\ \A k \in 1 .. n - i - 1 : c[k] = r[i + 1 + k]
  BY <1>1
<1>6. <<2 * v>> \in Seq(Tiles) /\ Len(<<2 * v>>) = 1 /\ <<2 * v>>[1] = 2 * v
  BY <1>4
<1> DEFINE w == <<2 * v>>
<1> HIDE DEF a, c, new
<1>7. /\ p \in Seq(Tiles) /\ Len(p) = i /\ p[i] = 2 * v
      /\ \A k \in 1 .. i - 1 : p[k] = r[k]
  <2>1. w \in Seq(Tiles) /\ Len(w) = 1 /\ w[1] = 2 * v /\ p = a \o w
    BY <1>6
  <2> HIDE DEF w, p, v
  <2>2. /\ a \o w \in Seq(Tiles) /\ Len(a \o w) = Len(a) + Len(w)
        /\ \A k \in 1 .. Len(a) : (a \o w)[k] = a[k]
        /\ \A k \in Len(a) + 1 .. Len(a) + Len(w) : (a \o w)[k] = w[k - Len(a)]
    BY <1>5, <2>1, Concatenated, ZenonT(30)
  <2>3. i \in Int /\ i \in Len(a) + 1 .. Len(a) + Len(w) /\ i - Len(a) = 1 /\ Len(a) + Len(w) = i
    BY <1>5, <2>1
  <2>4. p[i] = 2 * v
    BY <2>1, <2>2, <2>3
  <2> QED BY <1>5, <2>1, <2>2, <2>3, <2>4
<1> HIDE DEF p, r, n, v
<1>8. /\ \A k \in 1 .. i : new[k] = p[k]
      /\ \A k \in i + 1 .. i + Len(c) : new[k] = c[k - i]
  BY <1>2, <1>5, <1>7, Concatenated, SMTT(30)
<1>9. \A k \in i + 1 .. n - 1 : new[k] = r[k + 1]
  <2> TAKE k \in i + 1 .. n - 1
  <2>1. k \in i + 1 .. i + Len(c) /\ k - i \in 1 .. n - i - 1 /\ i + 1 + (k - i) = k + 1
    BY <1>1, <1>5
  <2> QED BY <1>5, <1>8, <2>1
<1>10. \A k \in 1 .. i - 1 : new[k] = r[k]
  <2> TAKE k \in 1 .. i - 1
  <2>1. k \in 1 .. i
    OBVIOUS
  <2> QED BY <1>7, <1>8, <2>1
<1>11. new[i] = 2 * v
  <2>1. i \in 1 .. i
    OBVIOUS
  <2> QED BY <1>7, <1>8, <2>1
<1> QED BY <1>2, <1>9, <1>10, <1>11 DEF r, n, v, new

(* One step of merging, from what is left of c tiles to what is left of    *)
(* the next one or the next two.                                           *)
LEMMA SlidingStep ==
  ASSUME NEW tiles \in Seq(Tiles), NEW left, Leaving(left, tiles), NEW line \in Line,
         NEW i \in Nat, NEW c \in Nat, c < Len(tiles), Sliding(line.row, left[c], tiles, i, c)
  PROVE  \E d \in i + 1 .. Len(tiles) :
           Sliding(MergeStep(line, i + 1).row, left[d], tiles, i + 1, d)
<1> DEFINE n == Len(tiles)
           r == line.row
           l == left[c]
           v == tiles[c + 1]
           new == MergeStep(line, i + 1).row
           j == i + 1
<1>1. /\ n \in Nat /\ c + 1 \in 1 .. n /\ c \in 0 .. n /\ c >= i /\ r \in Seq(Tiles) /\ l \in Seq(Nat)
      /\ Len(l) = i /\ Len(r) = i + n - c
      /\ j \in Nat \ {0} /\ j \in Nat
      /\ c + 1 \in i + 1 .. n
  BY DEF Sliding
<1>2. /\ \A k \in 1 .. i : r[k] = l[k]
      /\ \A k \in c + 1 .. n : r[i + k - c] = tiles[k]
      /\ InRun(tiles, c + 1) % 2 = 1
  BY DEF Sliding
<1>3. /\ left[c + 1] = WithNext(l, tiles, c + 1) /\ left[c + 1] \in Seq(Nat)
      /\ v \in Tiles /\ v \in Nat /\ 2 * v \in Nat
  <2>1. left[c + 1] = WithNext(left[(c + 1) - 1], tiles, c + 1) /\ (c + 1) - 1 = c
    BY <1>1 DEF Leaving
  <2>2. left[c + 1] \in Seq(Nat)
    BY <1>1, SMTT(30) DEF Leaving
  <2>3. v \in Tiles
    BY <1>1
  <2> QED BY <2>1, <2>2, <2>3 DEF Tiles, Values
<1>4. r[j] = v
  <2>1. c + 1 \in c + 1 .. n /\ i + (c + 1) - c = j
    BY <1>1
  <2> QED BY <1>2, <2>1
<1>5. Merges(line, j) <=> c + 2 <= n /\ tiles[c + 2] = v
  <2>1. j < Len(r) <=> c + 2 <= n
    BY <1>1
  <2>2. ASSUME c + 2 <= n PROVE r[j + 1] = tiles[c + 2]
    <3>1. c + 2 \in c + 1 .. n /\ i + (c + 2) - c = j + 1
      BY <1>1, <2>2
    <3> QED BY <1>2, <3>1
  <2> QED BY <1>4, <2>1, <2>2 DEF Merges
<1>6. /\ InRun(tiles, c + 1) \in Nat
      /\ InRun(tiles, c + 2) = IF tiles[c + 2] = v THEN InRun(tiles, c + 1) + 1 ELSE 1
  <2>1. c + 1 \in Nat \ {0} /\ (c + 1) + 1 = c + 2
    OBVIOUS
  <2>2. /\ InRun(tiles, c + 1) \in Nat
        /\ InRun(tiles, (c + 1) + 1) = IF tiles[(c + 1) + 1] = tiles[c + 1]
                                       THEN InRun(tiles, c + 1) + 1 ELSE 1
    BY <2>1, RunIs
  <2> QED BY <2>1, <2>2
<1> HIDE DEF n, r, l, new, j
<1>7. CASE ~(c + 2 <= n /\ tiles[c + 2] = v)
  <2>1. new = r
    BY <1>5, <1>7, MergeStepKeeps DEF new, r, j
  <2>2. left[c + 1] = Append(l, v)
    BY <1>1, <1>2, <1>3, <1>7, SMTT(30) DEF WithNext, n
  <2>3. Len(left[c + 1]) = j /\ \A k \in 1 .. j : r[k] = left[c + 1][k]
    <3>1. Len(left[c + 1]) = i + 1 /\ left[c + 1][i + 1] = v /\ \A k \in 1 .. i : left[c + 1][k] = l[k]
      <4> DEFINE w == v
      <4>1. l \in Seq(Nat) /\ w \in Nat /\ i \in Nat /\ Len(l) = i
        BY <1>1, <1>3
      <4>2. left[c + 1] = Append(l, w)
        BY <2>2
      <4> HIDE DEF w
      <4>3. /\ Len(Append(l, w)) = i + 1 /\ Append(l, w)[i + 1] = w
            /\ \A k \in 1 .. i : Append(l, w)[k] = l[k]
        BY <4>1, Appended
      <4>4. /\ Len(left[c + 1]) = i + 1 /\ left[c + 1][i + 1] = w
            /\ \A k \in 1 .. i : left[c + 1][k] = l[k]
        BY <4>2, <4>3
      <4> QED BY <4>4 DEF w
    <3>2. \A k \in 1 .. j : k \in 1 .. i \/ k = i + 1
      BY DEF j
    <3>3. r[i + 1] = v
      BY <1>4 DEF j
    <3>4. \A k \in 1 .. j : r[k] = left[c + 1][k]
      BY <1>2, <3>1, <3>2, <3>3
    <3> QED BY <3>1, <3>4 DEF j
  <2>4. \A k \in (c + 1) + 1 .. n : r[j + k - (c + 1)] = tiles[k]
    <3> TAKE k \in (c + 1) + 1 .. n
    <3>1. k \in c + 1 .. n /\ j + k - (c + 1) = i + k - c
      BY <1>1 DEF j
    <3> QED BY <1>2, <3>1
  <2>5. c + 1 < n => InRun(tiles, (c + 1) + 1) % 2 = 1
    <3> HAVE c + 1 < n
    <3>1. c + 2 <= n /\ (c + 1) + 1 = c + 2
      BY <1>1
    <3>2. InRun(tiles, c + 2) = 1
      BY <1>6, <1>7, <3>1
    <3> QED BY <3>1, <3>2
  <2>6. c + 1 \in j .. n /\ Len(r) = j + n - (c + 1)
    BY <1>1 DEF j
  <2>7. Sliding(new, left[c + 1], tiles, j, c + 1)
    BY <1>1, <1>3, <2>1, <2>3, <2>4, <2>5, <2>6 DEF Sliding, n
  <2> QED BY <2>6, <2>7 DEF new, j, n
<1>8. CASE c + 2 <= n /\ tiles[c + 2] = v
  <2>1. /\ new \in Seq(Tiles) /\ Len(new) = Len(r) - 1
        /\ \A k \in 1 .. j - 1 : new[k] = r[k]
        /\ new[j] = 2 * r[j]
        /\ \A k \in j + 1 .. Len(r) - 1 : new[k] = r[k + 1]
    <3>1. Merges(line, j) /\ j \in Nat \ {0} /\ new = MergeStep(line, j).row
      BY <1>1, <1>5, <1>8 DEF new, j
    <3> HIDE DEF j
    <3>2. LET q == MergeStep(line, j).row
          IN  /\ q \in Seq(Tiles) /\ Len(q) = Len(line.row) - 1
              /\ \A k \in 1 .. j - 1 : q[k] = line.row[k]
              /\ q[j] = 2 * line.row[j]
              /\ \A k \in j + 1 .. Len(line.row) - 1 : q[k] = line.row[k + 1]
      BY <3>1, MergedEntries
    <3> QED BY <3>1, <3>2 DEF r
  <2>2. left[c + 1] = Append(l, 2 * v)
    <3>1. c + 1 < Len(tiles) /\ tiles[(c + 1) + 1] = tiles[c + 1] /\ InRun(tiles, c + 1) % 2 # 0
      BY <1>1, <1>2, <1>8 DEF n
    <3> QED BY <1>3, <3>1 DEF WithNext
  <2>3. left[c + 2] = left[c + 1] /\ InRun(tiles, c + 2) = InRun(tiles, c + 1) + 1
    <3>1. c + 2 \in 1 .. Len(tiles) /\ (c + 2) - 1 = c + 1
      BY <1>1, <1>8 DEF n
    <3>2. left[c + 2] = WithNext(left[c + 1], tiles, c + 2)
      BY <3>1 DEF Leaving
    <3>3. InRun(tiles, c + 2) = InRun(tiles, c + 1) + 1
      BY <1>6, <1>8
    <3>4. InRun(tiles, c + 2) % 2 = 0
      BY <1>2, <1>6, <3>3
    <3> QED BY <3>2, <3>3, <3>4 DEF WithNext
  <2>4. Len(left[c + 2]) = j /\ \A k \in 1 .. j : new[k] = left[c + 2][k]
    <3>1. Len(left[c + 1]) = i + 1 /\ left[c + 1][i + 1] = 2 * v /\ \A k \in 1 .. i : left[c + 1][k] = l[k]
      <4> DEFINE w == 2 * v
      <4>1. l \in Seq(Nat) /\ w \in Nat /\ i \in Nat /\ Len(l) = i
        BY <1>1, <1>3
      <4>2. left[c + 1] = Append(l, w)
        BY <2>2
      <4> HIDE DEF w
      <4>3. /\ Len(Append(l, w)) = i + 1 /\ Append(l, w)[i + 1] = w
            /\ \A k \in 1 .. i : Append(l, w)[k] = l[k]
        BY <4>1, Appended
      <4>4. /\ Len(left[c + 1]) = i + 1 /\ left[c + 1][i + 1] = w
            /\ \A k \in 1 .. i : left[c + 1][k] = l[k]
        BY <4>2, <4>3
      <4> QED BY <4>4 DEF w
    <3>2. j - 1 = i
      BY DEF j
    <3>3. \A k \in 1 .. i : new[k] = l[k]
      BY <1>2, <2>1, <3>2
    <3>4. \A k \in 1 .. j : k \in 1 .. i \/ k = i + 1
      BY DEF j
    <3>5. new[i + 1] = 2 * v
      BY <1>4, <2>1 DEF j
    <3>6. \A k \in 1 .. j : new[k] = left[c + 1][k]
      BY <3>1, <3>3, <3>4, <3>5
    <3> QED BY <2>3, <3>1, <3>6 DEF j
  <2>5. \A k \in (c + 2) + 1 .. n : new[j + k - (c + 2)] = tiles[k]
    <3> TAKE k \in (c + 2) + 1 .. n
    <3>1. /\ k \in c + 1 .. n
          /\ j + k - (c + 2) \in j + 1 .. Len(r) - 1
          /\ (j + k - (c + 2)) + 1 = i + k - c
      BY <1>1 DEF j
    <3>2. new[j + k - (c + 2)] = r[(j + k - (c + 2)) + 1]
      BY <2>1, <3>1
    <3> QED BY <1>2, <3>1, <3>2
  <2>6. c + 2 < n => InRun(tiles, (c + 2) + 1) % 2 = 1
    <3> HAVE c + 2 < n
    <3>1. c + 2 \in Nat \ {0}
      BY <1>1
    <3>2. InRun(tiles, (c + 2) + 1) = IF tiles[(c + 2) + 1] = tiles[c + 2]
                                      THEN InRun(tiles, c + 2) + 1 ELSE 1
      BY <3>1, RunIs
    <3> DEFINE x == InRun(tiles, c + 1)
    <3>3. x \in Nat /\ x % 2 = 1 /\ InRun(tiles, c + 2) = x + 1
      BY <1>2, <1>6, <2>3
    <3>4. InRun(tiles, (c + 2) + 1) = x + 2 \/ InRun(tiles, (c + 2) + 1) = 1
      BY <3>2, <3>3
    <3> HIDE DEF x
    <3>5. (x + 2) % 2 = 1
      BY <3>3
    <3> QED BY <3>4, <3>5
  <2>7. c + 2 \in j .. n /\ Len(new) = j + n - (c + 2) /\ left[c + 2] \in Seq(Nat)
    BY <1>1, <1>3, <1>8, <2>1, <2>3 DEF j
  <2>8. Sliding(new, left[c + 2], tiles, j, c + 2)
    BY <1>1, <2>1, <2>4, <2>5, <2>6, <2>7 DEF Sliding, n
  <2> QED BY <2>7, <2>8 DEF new, j, n
<1> QED BY <1>7, <1>8

(* Merging makes of a row of tiles what the reference says.                *)
LEMMA MergedIsLeft ==
  ASSUME NEW tiles \in Seq(Tiles)
  PROVE  Merged(tiles).row = WithoutEven(tiles)
<1> DEFINE n == Len(tiles)
<1>1. PICK m : Merging(m, tiles)
  BY MergingExists
<1>2. PICK left : Leaving(left, tiles)
  BY LeavingExists
<1>3. /\ n \in Nat /\ m \in [0 .. n -> Line] /\ m[0].row = tiles /\ m[n] = Merged(tiles)
      /\ \A i \in 1 .. n : m[i] = MergeStep(m[i - 1], i)
  BY <1>1 DEF Merging
<1>4. /\ left \in [0 .. n -> Seq(Nat)] /\ left[0] = <<>> /\ left[n] = WithoutEven(tiles)
  BY <1>2 DEF Leaving
<1> DEFINE T == {i \in Nat : i <= n => Slidden(m, left, tiles, i)}
<1>5. 0 \in T
  <2>1. 0 < n => InRun(tiles, 0 + 1) % 2 = 1
    <3>1. 1 \in Nat \ {0} /\ 0 + 1 = 1 /\ 1 % 2 = 1
      OBVIOUS
    <3>2. InRun(tiles, 1) = 1
      BY <3>1, RunIs
    <3> QED BY <3>1, <3>2
  <2>2. /\ left[0] \in Seq(Nat) /\ Len(left[0]) = 0 /\ 0 \in 0 .. n /\ n = 0 + n - 0
        /\ \A k \in 0 + 1 .. n : tiles[0 + k - 0] = tiles[k]
    BY <1>3, <1>4
  <2>3. Sliding(m[0].row, left[0], tiles, 0, 0)
    BY <1>3, <2>1, <2>2 DEF Sliding
  <2>4. Slidden(m, left, tiles, 0)
    BY <2>2, <2>3 DEF Slidden
  <2> QED BY <2>4
<1> HIDE DEF n
<1>6. ASSUME NEW i \in Nat, i \in T PROVE i + 1 \in T
  <2> SUFFICES ASSUME i + 1 <= n PROVE Slidden(m, left, tiles, i + 1)
    OBVIOUS
  <2>1. /\ i + 1 \in 1 .. n /\ (i + 1) - 1 = i /\ i <= n /\ i \in 0 .. n /\ i + 1 \in Nat \ {0}
    BY <1>3
  <2>2. m[i + 1] = MergeStep(m[i], i + 1) /\ m[i] \in Line
    BY <1>3, <2>1
  <2>3. Slidden(m, left, tiles, i)
    BY <1>6, <2>1
  <2>4. ASSUME m[i].row = left[n], Len(m[i].row) < i + 1
        PROVE  Slidden(m, left, tiles, i + 1)
    <3>1. Len(m[i].row) \in Nat
      BY <2>2 DEF Line
    <3>2. ~Merges(m[i], i + 1)
      BY <2>4, <3>1 DEF Merges
    <3>3. m[i + 1] = m[i]
      BY <2>2, <3>2, MergeStepKeeps
    <3> QED BY <2>4, <3>3 DEF Slidden, n
  <2>5. CASE m[i].row = left[n] /\ Len(m[i].row) < i
    <3>1. Len(m[i].row) \in Nat
      BY <2>2 DEF Line
    <3> QED BY <2>4, <2>5, <3>1
  <2>6. CASE \E c \in i .. n : Sliding(m[i].row, left[c], tiles, i, c)
    <3>1. PICK c \in i .. n : Sliding(m[i].row, left[c], tiles, i, c)
      BY <2>6
    <3>2. CASE c < n
      <4>1. c \in Nat /\ c < Len(tiles)
        BY <1>3, <3>2 DEF n
      <4>2. \E d \in i + 1 .. Len(tiles) :
              Sliding(MergeStep(m[i], i + 1).row, left[d], tiles, i + 1, d)
        BY <1>2, <2>2, <3>1, <4>1, SlidingStep
      <4> QED BY <2>2, <4>2 DEF Slidden
    <3>3. CASE c = n
      <4>1. /\ m[i].row \in Seq(Tiles) /\ left[n] \in Seq(Nat) /\ Len(left[n]) = i
            /\ Len(m[i].row) = i + n - n /\ \A k \in 1 .. i : m[i].row[k] = left[n][k]
        BY <3>1, <3>3 DEF Sliding, n
      <4>2. Len(m[i].row) = i
        BY <1>3, <4>1
      <4>3. m[i].row = left[n]
        <5> DEFINE q == m[i].row
                   l == left[n]
        <5>1. /\ q \in Seq(Tiles) /\ l \in Seq(Nat) /\ Len(q) = i /\ Len(l) = i
              /\ \A k \in 1 .. i : q[k] = l[k]
          BY <4>1, <4>2
        <5> HIDE DEF q, l
        <5>2. q = l
          BY <5>1
        <5> QED BY <5>2 DEF q, l
      <4>4. Len(m[i].row) < i + 1
        BY <4>2
      <4> QED BY <2>4, <4>3, <4>4
    <3> QED BY <1>3, <3>1, <3>2, <3>3
  <2> QED BY <2>3, <2>5, <2>6 DEF Slidden, n
<1> HIDE DEF T
<1>7. \A i \in Nat : i \in T
  BY <1>5, <1>6, NatInductionSet
<1>8. Slidden(m, left, tiles, n)
  <2>1. n \in T /\ n <= n
    BY <1>3, <1>7
  <2> QED BY <2>1 DEF T
<1>9. m[n].row = left[n]
  <2>1. CASE \E c \in n .. n : Sliding(m[n].row, left[c], tiles, n, c)
    <3>1. Sliding(m[n].row, left[n], tiles, n, n)
      BY <1>3, <2>1
    <3>2. /\ m[n].row \in Seq(Tiles) /\ left[n] \in Seq(Nat) /\ Len(left[n]) = n
          /\ Len(m[n].row) = n + n - n /\ \A k \in 1 .. n : m[n].row[k] = left[n][k]
      BY <3>1 DEF Sliding, n
    <3>3. Len(m[n].row) = n
      BY <1>3, <3>2
    <3> DEFINE q == m[n].row
               l == left[n]
    <3>4. q \in Seq(Tiles) /\ l \in Seq(Nat) /\ Len(q) = n /\ Len(l) = n /\ \A k \in 1 .. n : q[k] = l[k]
      BY <3>2, <3>3
    <3> HIDE DEF q, l
    <3>5. q = l
      BY <3>4
    <3> QED BY <3>5 DEF q, l
  <2> QED BY <1>8, <2>1 DEF Slidden, n
<1> QED BY <1>3, <1>4, <1>9

(* A row of any length slides as the reference says, and gains what its    *)
(* worth grows by (game.c:55-87): each tile merges at most once and pairs  *)
(* are taken from the side the row slides to.                              *)
THEOREM RowSlides ==
  ASSUME NEW row \in Seq(Values)
  PROVE  /\ moveRowLeft(row).row = SlideRef(row)
         /\ RowWorth(moveRowLeft(row).row) = RowWorth(row) + moveRowLeft(row).gained
<1> DEFINE tiles == TilesOf(row)
           p == Merged(tiles).row
           n == Len(row)
<1>1. n \in Nat /\ tiles \in Seq(Tiles) /\ Len(tiles) <= n /\ RowWorth(tiles) = RowWorth(row)
  BY TilesOfRow
<1>2. moveRowLeft(row) = [row |-> Padded(p, n), gained |-> Merged(tiles).gained]
  BY DEF moveRowLeft
<1>3. SlideRef(row) = Padded(WithoutEven(tiles), n)
  BY DEF SlideRef
<1> HIDE DEF tiles, n
<1>4. p = WithoutEven(tiles)
  BY <1>1, MergedIsLeft
<1>5. /\ Merged(tiles) \in Line /\ Len(p) <= Len(tiles)
      /\ RowWorth(p) = RowWorth(tiles) + Merged(tiles).gained
  BY <1>1, MergedRow
<1>6. p \in Seq(Tiles) /\ Len(p) <= n
  <2>1. p \in Seq(Tiles) /\ Len(p) \in Nat /\ Len(tiles) \in Nat
    BY <1>1, <1>5 DEF Line
  <2> HIDE DEF p
  <2> QED BY <1>1, <1>5, <2>1
<1> HIDE DEF p
<1>7. RowWorth(Padded(p, n)) = RowWorth(p)
  BY <1>1, <1>6, PaddedRow
<1> QED BY <1>1, <1>2, <1>3, <1>4, <1>5, <1>7

-----------------------------------------------------------------------------
(* The board and the score.  What holds of them in every state: the types, *)
(* that the score is what the tiles earned, that there is a tile, gameOver *)
(* is what gameCanMove says, and a game that is over and was not won is    *)
(* not played on.                                                          *)
TypeOK ==
  /\ board \in Boards /\ score \in Nat /\ fours \in Nat
  /\ gameOver \in BOOLEAN /\ win \in BOOLEAN
  /\ phase \in {"menu", "controls", "leaderboard", "play"}
  /\ selectedMenuItem \in 0 .. 3 /\ running \in BOOLEAN /\ saving \in BOOLEAN
  /\ starts \in Nat /\ games \in Nat /\ faults \in Nat
  /\ leaderboard \in Seq(Int) /\ file \in Seq(Int)
  /\ results \subseteq Int \X Nat
HasTile(b) == \E c \in Cells : Tile(b, c) # 0
Played(over, b) == (over <=> ~gameCanMove(b)) /\ HasTile(b)
WhilePlayed ==
  running => Played(gameOver, board) /\ (phase = "play" => win \/ ~gameOver)

(* A board without tiles is worth nothing.                                 *)
LEMMA NoTilesBoard ==
  /\ NoTiles \in Boards /\ BoardWorth(NoTiles) = 0
  /\ \A c \in Cells : Tile(NoTiles, c) = 0
<1> DEFINE F == [i \in Index |-> RowWorth(NoTiles[i])]
<1>1. SIZE \in Nat /\ Index = 1 .. SIZE
  BY GameAssumption DEF Index
<1>2. 0 \in Values
  BY DEF Values
<1>3. NoTiles \in Boards /\ \A i, j \in Index : NoTiles[i][j] = 0
  BY <1>2 DEF NoTiles, Boards, Rows
<1>4. \A c \in Cells : Tile(NoTiles, c) = 0
  BY <1>3 DEF Cells, Tile
<1>5. ASSUME NEW i \in Index PROVE RowWorth(NoTiles[i]) = 0
  <2> DEFINE r == NoTiles[i]
             f == [j \in 1 .. Len(r) |-> Worth[r[j]]]
  <2>1. r \in Rows
    BY <1>3 DEF Boards
  <2>2. Len(r) = SIZE
    BY <2>1, RowsAreSequences
  <2>3. \A j \in 1 .. SIZE : f[j] = 0
    BY <1>1, <1>3, <2>2, WorthOfTiles
  <2>4. RowWorth(r) = Total(f, SIZE)
    BY <2>2 DEF RowWorth
  <2> HIDE DEF f
  <2>5. Total(f, SIZE) = 0
    BY <1>1, <2>3, TotalOfZeros
  <2> QED BY <2>4, <2>5
<1>6. \A i \in 1 .. SIZE : F[i] = 0
  BY <1>1, <1>5
<1>7. BoardWorth(NoTiles) = Total(F, SIZE)
  BY DEF BoardWorth
<1> HIDE DEF F
<1>8. Total(F, SIZE) = 0
  BY <1>1, <1>6, TotalOfZeros
<1> QED BY <1>3, <1>4, <1>7, <1>8

(* A new game: two tiles, and there is room for a third.                   *)
LEMMA NewBoard ==
  ASSUME gameInit
  PROVE  /\ board' \in Boards /\ score' = 0 /\ fours' \in Nat
         /\ gameOver' = FALSE /\ win' = FALSE
         /\ score' + 4 * fours' = BoardWorth(board')
         /\ Played(gameOver', board')
<1>1. PICK c \in Cells, d \in Cells, v \in {2, 4}, w \in {2, 4} :
        /\ c # d
        /\ board' = WithTile(WithTile(NoTiles, c, v), d, w)
        /\ fours' = (v \div 4) + (w \div 4)
        /\ score' = 0 /\ gameOver' = FALSE /\ win' = FALSE
  BY DEF gameInit
<1> DEFINE a == WithTile(NoTiles, c, v)
           b == WithTile(a, d, w)
<1>2. /\ a \in Boards /\ v \div 4 \in Nat
      /\ BoardWorth(a) = BoardWorth(NoTiles) + 4 * (v \div 4)
      /\ \A e \in Cells : Tile(a, e) = IF e = c THEN v ELSE Tile(NoTiles, e)
  BY NoTilesBoard, TilePut
<1> HIDE DEF a
<1>3. BoardWorth(a) = 4 * (v \div 4) /\ \A e \in Cells : Tile(a, e) = IF e = c THEN v ELSE 0
  BY <1>2, NoTilesBoard
<1>4. Tile(a, d) = 0
  BY <1>1, <1>3
<1>5. /\ b \in Boards /\ w \div 4 \in Nat
      /\ BoardWorth(b) = BoardWorth(a) + 4 * (w \div 4)
      /\ \A e \in Cells : Tile(b, e) = IF e = d THEN w ELSE Tile(a, e)
  BY <1>2, <1>4, TilePut
<1>6. board' = b
  BY <1>1 DEF a
<1> HIDE DEF b
<1>7. fours' \in Nat /\ score' + 4 * fours' = BoardWorth(board')
  <2> DEFINE x == v \div 4
             y == w \div 4
  <2>1. x \in Nat /\ y \in Nat /\ fours' = x + y /\ BoardWorth(b) = 4 * x + 4 * y /\ score' = 0
    BY <1>1, <1>2, <1>3, <1>5
  <2> HIDE DEF x, y
  <2> QED BY <1>6, <2>1
<1>8. HasTile(b)
  BY <1>5 DEF HasTile
<1>9. gameCanMove(b)
  <2>1. SIZE \in Nat /\ SIZE > 1 /\ 1 \in Index /\ 2 \in Index
    BY GameAssumption DEF Index
  <2>2. PICK e \in Cells : e # c /\ e # d
    <3>1. <<1, 1>> \in Cells /\ <<1, 2>> \in Cells /\ <<2, 1>> \in Cells
      BY <2>1 DEF Cells
    <3>2. <<1, 1>> # <<1, 2>> /\ <<1, 1>> # <<2, 1>> /\ <<1, 2>> # <<2, 1>>
      OBVIOUS
    <3> QED BY <3>1, <3>2
  <2>3. e \in Empty(b)
    BY <1>3, <1>5, <2>2 DEF Empty
  <2> QED BY <2>3 DEF gameCanMove
<1>10. Played(gameOver', board')
  BY <1>1, <1>6, <1>8, <1>9 DEF Played
<1> QED BY <1>1, <1>5, <1>6, <1>7, <1>10

(* The end of a game is the same on the transposed board.                  *)
LEMMA SeenCanMove ==
  ASSUME NEW b, NEW dir
  PROVE  gameCanMove(Seen(dir, b)) <=> gameCanMove(b)
<1> DEFINE t == transpose(b)
<1>1. \A i, j \in Index : t[i][j] = b[j][i]
  BY DEF transpose
<1> HIDE DEF t
<1>2. Empty(t) # {} <=> Empty(b) # {}
  <2>1. ASSUME NEW c \in Empty(t) PROVE <<c[2], c[1]>> \in Empty(b)
    BY <1>1 DEF Empty, Cells, Tile
  <2>2. ASSUME NEW c \in Empty(b) PROVE <<c[2], c[1]>> \in Empty(t)
    BY <1>1 DEF Empty, Cells, Tile
  <2> QED BY <2>1, <2>2
<1>3. \A k \in 1 .. SIZE - 1 : k \in Index /\ k + 1 \in Index
  BY GameAssumption DEF Index
<1>4. (\E i \in Index, j \in 1 .. SIZE - 1 : t[i][j] = t[i][j + 1])
        <=> \E j \in Index, i \in 1 .. SIZE - 1 : b[i][j] = b[i + 1][j]
  BY <1>1, <1>3
<1>5. (\E j \in Index, i \in 1 .. SIZE - 1 : t[i][j] = t[i + 1][j])
        <=> \E i \in Index, j \in 1 .. SIZE - 1 : b[i][j] = b[i][j + 1]
  BY <1>1, <1>3
<1>6. gameCanMove(t) <=> gameCanMove(b)
  BY <1>2, <1>4, <1>5 DEF gameCanMove
<1> QED BY <1>6 DEF Seen, t

(* A move: what it makes of the board, with the tile that is added.        *)
LEMMA MoveBoard ==
  ASSUME TypeOK, ScoreExplained, NEW dir \in Directions, Move(dir)
  PROVE  /\ board' \in Boards /\ score' \in Nat /\ fours' \in Nat
         /\ gameOver' \in BOOLEAN /\ win' \in BOOLEAN
         /\ score' + 4 * fours' = BoardWorth(board')
         /\ Played(gameOver', board')
<1> DEFINE m == Moved(dir, board)
<1>1. board \in Boards /\ score \in Nat /\ fours \in Nat /\ score + 4 * fours = BoardWorth(board)
  BY DEF TypeOK, ScoreExplained
<1>2. PICK c \in Empty(m.board), v \in {2, 4} :
        board' = WithTile(m.board, c, v) /\ fours' = fours + v \div 4
  BY DEF Move
<1>3. /\ score' = score + m.gained /\ win' \in BOOLEAN
      /\ gameOver' \in BOOLEAN /\ (gameOver' <=> ~gameCanMove(board'))
  <2>1. /\ score' = score + m.gained /\ win' = gameCheckWin(Seen(dir, board'))
        /\ gameOver' = ~gameCanMove(Seen(dir, board'))
    BY DEF Move
  <2>2. gameCanMove(Seen(dir, board')) <=> gameCanMove(board')
    BY SeenCanMove
  <2>3. win' \in BOOLEAN
    BY <2>1 DEF gameCheckWin
  <2> QED BY <2>1, <2>2, <2>3
<1>4. Slid(board, m)
  BY <1>1, MovedBoards
<1> HIDE DEF m
<1>5. /\ m.board \in Boards /\ m.gained \in Nat
      /\ BoardWorth(m.board) = BoardWorth(board) + m.gained
  BY <1>4 DEF Slid
<1>6. c \in Cells /\ Tile(m.board, c) = 0
  BY DEF Empty
<1>7. /\ WithTile(m.board, c, v) \in Boards /\ v \div 4 \in Nat
      /\ BoardWorth(WithTile(m.board, c, v)) = BoardWorth(m.board) + 4 * (v \div 4)
      /\ \A e \in Cells : Tile(WithTile(m.board, c, v), e) = IF e = c THEN v ELSE Tile(m.board, e)
  BY <1>5, <1>6, TilePut
<1>8. HasTile(board')
  <2>1. Tile(board', c) # 0
    BY <1>2, <1>6, <1>7
  <2> QED BY <1>6, <2>1 DEF HasTile
<1>9. Played(gameOver', board')
  BY <1>3, <1>8, Zenon DEF Played
<1>10. score' \in Nat /\ fours' \in Nat /\ score' + 4 * fours' = BoardWorth(board')
  <2> DEFINE x == v \div 4
             g == m.gained
  <2>1. /\ x \in Nat /\ g \in Nat /\ score \in Nat /\ fours \in Nat /\ score' = score + g
        /\ fours' = fours + x /\ BoardWorth(board') = (score + 4 * fours) + g + 4 * x
    BY <1>1, <1>2, <1>3, <1>5, <1>7
  <2> HIDE DEF x, g
  <2> QED BY <2>1
<1> QED BY <1>2, <1>3, <1>7, <1>9, <1>10

-----------------------------------------------------------------------------
(* The table.                                                              *)
LEMMA InOrderAll ==
  ASSUME NEW t \in Seq(Int), InOrder(t), NEW i \in 1 .. Len(t), NEW j \in 1 .. Len(t), i <= j
  PROVE  t[i] >= t[j]
<1> DEFINE T == {k \in Nat : i + k <= Len(t) => t[i] >= t[i + k]}
<1>1. Len(t) \in Nat /\ \A k \in 1 .. Len(t) : t[k] \in Int
  OBVIOUS
<1>2. 0 \in T
  <2>1. i + 0 = i /\ t[i] \in Int
    BY <1>1
  <2> QED BY <2>1
<1>3. ASSUME NEW k \in Nat, k \in T PROVE k + 1 \in T
  <2> SUFFICES ASSUME i + (k + 1) <= Len(t) PROVE t[i] >= t[i + (k + 1)]
    OBVIOUS
  <2>1. /\ i + k \in 1 .. Len(t) - 1 /\ i + (k + 1) = (i + k) + 1 /\ i + k <= Len(t)
        /\ i + k \in 1 .. Len(t) /\ i + (k + 1) \in 1 .. Len(t)
    BY <1>1
  <2>2. t[i + k] >= t[(i + k) + 1]
    BY <2>1 DEF InOrder
  <2>3. t[i] >= t[i + k]
    BY <1>3, <2>1
  <2>4. t[i] \in Int /\ t[i + k] \in Int /\ t[(i + k) + 1] \in Int
    BY <1>1, <2>1
  <2> QED BY <2>1, <2>2, <2>3, <2>4
<1> HIDE DEF T
<1>4. \A k \in Nat : k \in T
  BY <1>2, <1>3, NatInductionSet
<1>5. j - i \in Nat /\ i + (j - i) = j
  BY <1>1
<1> QED BY <1>1, <1>4, <1>5, SMTT(30) DEF T

(* What qsort makes of a table in order with one more entry behind it: the *)
(* entries in some other order, and that is in order.                      *)
Permuted(u, q, p) ==
  /\ p \in Bijection(1 .. Len(q), 1 .. Len(q))
  /\ u = [k \in 1 .. Len(q) |-> q[p[k]]]

(* A table in order with one more entry behind it can be sorted: the new   *)
(* entry goes before the first one that is smaller.                        *)
LEMMA SortedExists ==
  ASSUME NEW t \in Seq(Int), InOrder(t), NEW s \in Int
  PROVE  \E p, u : Permuted(u, Append(t, s), p) /\ InOrder(u)
<1> DEFINE m == Len(t)
           q == Append(t, s)
           S == {k \in 1 .. m + 1 : k = m + 1 \/ t[k] < s}
<1>1. /\ m \in Nat /\ Len(q) = m + 1 /\ q[m + 1] = s
      /\ \A k \in 1 .. m : q[k] = t[k] /\ t[k] \in Int
  OBVIOUS
<1> HIDE DEF q
<1>2. PICK x \in S : \A k \in S : x <= k
  <2>1. S \subseteq Nat /\ m + 1 \in S
    BY <1>1
  <2> HIDE DEF S
  <2> QED BY <2>1, LeastNat
<1>3. /\ x \in 1 .. m + 1
      /\ \A k \in 1 .. m : k < x => t[k] >= s
      /\ \A k \in 1 .. m : k >= x => t[k] < s
  <2>1. x \in 1 .. m + 1 /\ (x = m + 1 \/ t[x] < s)
    BY <1>2
  <2>2. \A k \in 1 .. m : k < x => t[k] >= s
    BY <1>1, <1>2
  <2>3. ASSUME NEW k \in 1 .. m, k >= x PROVE t[k] < s
    <3>1. x \in 1 .. m /\ x <= k /\ t[x] < s
      BY <1>1, <2>1, <2>3
    <3>2. t[x] >= t[k]
      BY <3>1, InOrderAll
    <3> QED BY <1>1, <3>1, <3>2
  <2> QED BY <2>1, <2>2, <2>3
<1> HIDE DEF m, S
<1> DEFINE p == [k \in 1 .. m + 1 |-> IF k < x THEN k ELSE IF k = x THEN m + 1 ELSE k - 1]
           u == [k \in 1 .. m + 1 |-> q[p[k]]]
<1>4. p \in Bijection(1 .. m + 1, 1 .. m + 1)
  <2>1. p \in [1 .. m + 1 -> 1 .. m + 1]
    BY <1>1, <1>3
  <2>2. \A k, l \in 1 .. m + 1 : p[k] = p[l] => k = l
    BY <1>1, <1>3
  <2>3. \A l \in 1 .. m + 1 : \E k \in 1 .. m + 1 : p[k] = l
    <3> TAKE l \in 1 .. m + 1
    <3>1. CASE l < x
      <4>1. p[l] = l
        BY <3>1
      <4> QED BY <4>1
    <3>2. CASE l = m + 1
      <4>1. p[x] = m + 1
        BY <1>3
      <4> QED BY <1>3, <3>2, <4>1
    <3>3. CASE l >= x /\ l < m + 1
      <4>1. l + 1 \in 1 .. m + 1 /\ p[l + 1] = l
        BY <1>1, <1>3, <3>3
      <4> QED BY <4>1
    <3> QED BY <1>1, <1>3, <3>1, <3>2, <3>3
  <2> HIDE DEF p
  <2>4. p \in Injection(1 .. m + 1, 1 .. m + 1)
    BY <2>1, <2>2 DEF Injection, IsInjective
  <2>5. p \in Surjection(1 .. m + 1, 1 .. m + 1)
    BY <2>1, <2>3 DEF Surjection
  <2> QED BY <2>4, <2>5 DEF Bijection
<1>5. \A k \in 1 .. m + 1 : u[k] = IF k < x THEN t[k] ELSE IF k = x THEN s ELSE t[k - 1]
  <2> TAKE k \in 1 .. m + 1
  <2>1. CASE k < x
    <3>1. k \in 1 .. m /\ p[k] = k
      BY <1>1, <1>3, <2>1
    <3> QED BY <1>1, <2>1, <3>1
  <2>2. CASE k = x
    BY <1>1, <1>3, <2>2
  <2>3. CASE k > x
    <3>1. k - 1 \in 1 .. m /\ p[k] = k - 1
      BY <1>1, <1>3, <2>3
    <3> QED BY <1>1, <1>3, <2>3, <3>1
  <2> QED BY <1>3, <2>1, <2>2, <2>3
<1>6. Len(u) = m + 1
  <2>1. \A k \in 1 .. m + 1 : u[k] \in Int
    <3> HIDE DEF u
    <3> TAKE k \in 1 .. m + 1
    <3>1. k < x => k \in 1 .. m
      BY <1>1, <1>3
    <3>2. k > x => k - 1 \in 1 .. m
      BY <1>1, <1>3
    <3>3. k < x \/ k = x \/ k > x
      BY <1>3
    <3>4. u[k] = IF k < x THEN t[k] ELSE IF k = x THEN s ELSE t[k - 1]
      BY <1>5
    <3>5. ~(k > x /\ k < x) /\ ~(k > x /\ k = x)
      BY <1>3
    <3> QED BY <1>1, <3>1, <3>2, <3>3, <3>4, <3>5
  <2>2. u \in [1 .. m + 1 -> Int]
    <3>1. u = [k \in 1 .. m + 1 |-> u[k]]
      OBVIOUS
    <3> HIDE DEF u
    <3> QED BY <2>1, <3>1
  <2> HIDE DEF u
  <2>3. u \in Seq(Int)
    BY <1>1, <2>2
  <2> QED BY <1>1, <2>2, <2>3
<1>7. InOrder(u)
  <2> HIDE DEF u
  <2>0. 1 .. Len(u) - 1 = 1 .. m
    BY <1>1, <1>6
  <2> SUFFICES ASSUME NEW k \in 1 .. m PROVE u[k] >= u[k + 1]
    BY <2>0 DEF InOrder
  <2>1. k \in 1 .. m + 1 /\ k + 1 \in 1 .. m + 1 /\ (k + 1) - 1 = k /\ k \in Int
    BY <1>1
  <2>2. /\ u[k] = IF k < x THEN t[k] ELSE IF k = x THEN s ELSE t[k - 1]
        /\ u[k + 1] = IF k + 1 < x THEN t[k + 1] ELSE IF k + 1 = x THEN s ELSE t[k]
    BY <1>5, <2>1
  <2> HIDE DEF u
  <2>3. CASE k + 1 < x
    <3>1. k \in 1 .. Len(t) - 1
      BY <1>1, <1>3, <2>3 DEF m
    <3>2. t[k] >= t[k + 1]
      BY <3>1 DEF InOrder
    <3> QED BY <1>3, <2>1, <2>2, <2>3, <3>2
  <2>4. CASE k + 1 = x
    <3>1. t[k] >= s
      BY <1>3, <2>1, <2>4
    <3> QED BY <2>1, <2>2, <2>4, <3>1
  <2>5. CASE k = x
    <3>1. t[k] < s /\ t[k] \in Int
      BY <1>1, <1>3, <2>1, <2>5
    <3> QED BY <2>1, <2>2, <2>5, <3>1
  <2>6. CASE k > x
    <3>1. k - 1 \in 1 .. Len(t) - 1 /\ (k - 1) + 1 = k
      BY <1>1, <1>3, <2>6 DEF m
    <3>2. t[k - 1] >= t[k]
      BY <3>1 DEF InOrder
    <3> QED BY <1>3, <2>1, <2>2, <2>6, <3>2
  <2> QED BY <1>3, <2>1, <2>3, <2>4, <2>5, <2>6
<1>8. Permuted(u, q, p)
  BY <1>1, <1>4 DEF Permuted
<1> QED BY <1>7, <1>8 DEF q

(* The smaller one of two numbers.                                         *)
LEMMA MinOfTwo ==
  ASSUME NEW a \in Int, NEW b \in Int
  PROVE  Min({a, b}) = IF a <= b THEN a ELSE b
<1> DEFINE S == {a, b}
           x == IF a <= b THEN a ELSE b
<1>1. x \in S /\ \A y \in S : x <= y
  OBVIOUS
<1>2. \A y \in S : (\A z \in S : y <= z) => y = x
  OBVIOUS
<1>3. Min(S) = CHOOSE y \in S : \A z \in S : y <= z
  BY DEF Min
<1> HIDE DEF S, x
<1>4. Min(S) \in S /\ \A z \in S : Min(S) <= z
  BY <1>1, <1>3
<1> QED BY <1>2, <1>4 DEF S, x

(* What addLeaderboardEntry makes of the table: the entries it keeps and   *)
(* the new one, in order, in a table that is not too long.                 *)
LEMMA AddedIs ==
  ASSUME leaderboard \in Seq(Int), InOrder(leaderboard), NEW s \in Int
  PROVE  /\ Kept \in Seq(Int)
         /\ Len(Kept) = IF Len(leaderboard) < MAX_LEADERBOARD
                        THEN Len(leaderboard) ELSE MAX_LEADERBOARD - 1
         /\ \A k \in 1 .. Len(Kept) : Kept[k] = leaderboard[k]
         /\ Added(s) \in Seq(Int) /\ Len(Added(s)) = Len(Kept) + 1
         /\ InOrder(Added(s))
         /\ \E p : Permuted(Added(s), Append(Kept, s), p)
<1> DEFINE M == MAX_LEADERBOARD
           L == Len(leaderboard)
           n == Min({L, M - 1})
           q == Append(Kept, s)
<1>1. L \in Nat /\ M \in Nat \ {0} /\ \A k \in 1 .. L : leaderboard[k] \in Int
  BY GameAssumption
<1>2. n = (IF L < M THEN L ELSE M - 1) /\ n \in 0 .. L
  <2>1. L \in Int /\ M - 1 \in Int
    BY <1>1
  <2>2. n = IF L <= M - 1 THEN L ELSE M - 1
    BY <2>1, MinOfTwo
  <2> QED BY <1>1, <2>2
<1>3. Kept = SubSeq(leaderboard, 1, n)
  BY DEF Kept
<1> HIDE DEF n, L
<1>4. Kept \in Seq(Int) /\ Len(Kept) = n /\ \A k \in 1 .. n : Kept[k] = leaderboard[k]
  BY <1>1, <1>2, <1>3 DEF L
<1>5. InOrder(Kept)
  <2>1. \A k \in 1 .. n - 1 : k \in 1 .. n /\ k + 1 \in 1 .. n /\ k \in 1 .. L - 1
    BY <1>1, <1>2
  <2> QED BY <1>4, <2>1 DEF InOrder, L
<1>6. q \in Seq(Int) /\ Len(q) = n + 1 /\ DOMAIN q = 1 .. n + 1
  BY <1>4
<1> DEFINE U == {[k \in DOMAIN q |-> q[p[k]]] : p \in Bijection(DOMAIN q, DOMAIN q)}
<1>7. \E u \in U : InOrder(u)
  <2>1. PICK p, u : Permuted(u, q, p) /\ InOrder(u)
    BY <1>4, <1>5, SortedExists
  <2> HIDE DEF q
  <2>2. p \in Bijection(DOMAIN q, DOMAIN q) /\ u = [k \in DOMAIN q |-> q[p[k]]]
    BY <1>6, <2>1 DEF Permuted
  <2> QED BY <2>1, <2>2
<1>8. Added(s) = CHOOSE u \in U : InOrder(u)
  BY DEF Added, qsort
<1> HIDE DEF U
<1>9. Added(s) \in U /\ InOrder(Added(s))
  BY <1>7, <1>8
<1> HIDE DEF q
<1>10. PICK p \in Bijection(DOMAIN q, DOMAIN q) : Added(s) = [k \in DOMAIN q |-> q[p[k]]]
  BY <1>9 DEF U
<1>11. Permuted(Added(s), q, p)
  BY <1>6, <1>10 DEF Permuted
<1>12. p \in [1 .. n + 1 -> 1 .. n + 1]
  BY <1>6, <1>10 DEF Bijection, Injection
<1>13. Added(s) \in [1 .. n + 1 -> Int]
  <2>1. \A k \in 1 .. n + 1 : q[p[k]] \in Int
    BY <1>6, <1>12
  <2> QED BY <1>6, <1>10, <2>1
<1>14. n + 1 \in Nat
  BY <1>1, <1>2
<1>15. Added(s) \in Seq(Int) /\ Len(Added(s)) = n + 1
  BY <1>13, <1>14, SMTT(30)
<1> QED BY <1>2, <1>4, <1>9, <1>11, <1>15 DEF q, L

(* The games behind the entries of a table: every entry is the result of a *)
(* game of its own, none of them later than game l.                        *)
Behind(t, id, R, l) ==
  /\ id \in [1 .. Len(t) -> Int]
  /\ \A i, j \in 1 .. Len(t) : id[i] = id[j] => i = j
  /\ \A i \in 1 .. Len(t) : <<id[i], t[i]>> \in R /\ id[i] <= l
(* Every other result is no better than the last entry of a full table.    *)
Complete(t, id, R) ==
  \A r \in R : \/ \E i \in 1 .. Len(t) : r = <<id[i], t[i]>>
               \/ Len(t) = MAX_LEADERBOARD /\ t[MAX_LEADERBOARD] >= r[2]
Genuine(t, R, l) == \E id : Behind(t, id, R, l)
Full(t, R, l) == \E id : Behind(t, id, R, l) /\ Complete(t, id, R)

(* Later games and other results change nothing about a table.             *)
LEMMA GenuineLater ==
  ASSUME NEW t, NEW R, NEW Q, NEW l \in Int, NEW m \in Int, R \subseteq Q, l <= m,
         Genuine(t, R, l)
  PROVE  Genuine(t, Q, m)
<1>1. PICK id : Behind(t, id, R, l)
  BY DEF Genuine
<1>2. Behind(t, id, Q, m)
  BY <1>1 DEF Behind
<1> QED BY <1>2 DEF Genuine

(* The same for a table that misses nothing.                               *)
LEMMA FullLater ==
  ASSUME NEW t, NEW R, NEW l \in Int, NEW m \in Int, l <= m, Full(t, R, l)
  PROVE  Full(t, R, m)
<1>1. PICK id : Behind(t, id, R, l) /\ Complete(t, id, R)
  BY DEF Full
<1>2. Behind(t, id, R, m)
  BY <1>1 DEF Behind
<1> QED BY <1>1, <1>2 DEF Full

(* A table from which the last entries are missing is still genuine.       *)
LEMMA GenuinePrefix ==
  ASSUME NEW t \in Seq(Int), NEW R, NEW l, NEW n \in 0 .. Len(t), Genuine(t, R, l)
  PROVE  /\ Genuine(SubSeq(t, 1, n), R, l)
         /\ SubSeq(t, 1, n) \in Seq(Int) /\ Len(SubSeq(t, 1, n)) = n
         /\ InOrder(t) => InOrder(SubSeq(t, 1, n))
<1> DEFINE u == SubSeq(t, 1, n)
<1>1. u \in Seq(Int) /\ Len(u) = n /\ \A k \in 1 .. n : u[k] = t[k] /\ k \in 1 .. Len(t)
  OBVIOUS
<1> HIDE DEF u
<1>2. PICK id : Behind(t, id, R, l)
  BY DEF Genuine
<1> DEFINE new == [k \in 1 .. n |-> id[k]]
<1>3. Behind(u, new, R, l)
  BY <1>1, <1>2 DEF Behind
<1>4. Genuine(u, R, l)
  BY <1>3 DEF Genuine
<1>5. ASSUME InOrder(t) PROVE InOrder(u)
  <2>1. \A k \in 1 .. n - 1 : k \in 1 .. n /\ k + 1 \in 1 .. n /\ k \in 1 .. Len(t) - 1
    OBVIOUS
  <2> QED BY <1>1, <1>5, <2>1 DEF InOrder
<1> QED BY <1>1, <1>4, <1>5 DEF u

(* A table without entries is genuine.                                     *)
LEMMA GenuineEmpty ==
  ASSUME NEW R, NEW l
  PROVE  Genuine(<<>>, R, l) /\ InOrder(<<>>)
<1> DEFINE id == [k \in 1 .. 0 |-> 0]
<1>1. Len(<<>>) = 0 /\ 1 .. 0 = {} /\ 1 .. 0 - 1 = {}
  OBVIOUS
<1>2. Behind(<<>>, id, R, l)
  BY <1>1 DEF Behind
<1> QED BY <1>1, <1>2 DEF Genuine, InOrder

(* A result that is not entered is not missing.                            *)
LEMMA FullNotHigh ==
  ASSUME NEW t, NEW R, NEW l, NEW g, NEW s, Full(t, R, l),
         Len(t) = MAX_LEADERBOARD, t[MAX_LEADERBOARD] >= s
  PROVE  Full(t, R \union {<<g, s>>}, l)
<1>1. PICK id : Behind(t, id, R, l) /\ Complete(t, id, R)
  BY DEF Full
<1>2. Behind(t, id, R \union {<<g, s>>}, l)
  BY <1>1 DEF Behind
<1>3. Complete(t, id, R \union {<<g, s>>})
  <2> SUFFICES ASSUME NEW r \in R \union {<<g, s>>}
               PROVE  \/ \E i \in 1 .. Len(t) : r = <<id[i], t[i]>>
                      \/ Len(t) = MAX_LEADERBOARD /\ t[MAX_LEADERBOARD] >= r[2]
    BY DEF Complete
  <2>1. CASE r \in R
    BY <1>1, <2>1 DEF Complete
  <2>2. CASE r = <<g, s>>
    <3>1. r[2] = s
      BY <2>2
    <3> QED BY <3>1
  <2> QED BY <2>1, <2>2
<1> QED BY <1>2, <1>3 DEF Full

(* Entering a result of the game that is played.                           *)
NewIds(p, id, n, g) == [k \in 1 .. n |-> IF p[k] = n THEN g ELSE id[p[k]]]

(* Every entry of the new table is the result of a game of its own.        *)
LEMMA AddedBehind ==
  ASSUME leaderboard \in Seq(Int), InOrder(leaderboard), Len(leaderboard) <= MAX_LEADERBOARD,
         NEW s \in Int, NEW g \in Int, NEW R, NEW id, Behind(leaderboard, id, R, g - 1),
         NEW p, Permuted(Added(s), Append(Kept, s), p)
  PROVE  Behind(Added(s), NewIds(p, id, Len(Kept) + 1, g), R \union {<<g, s>>}, g)
<1> DEFINE u == Added(s)
           q == Append(Kept, s)
           m == Len(Kept)
           n == m + 1
           new == NewIds(p, id, n, g)
           Q == R \union {<<g, s>>}
<1>1. /\ Kept \in Seq(Int) /\ m <= Len(leaderboard) /\ m \in Nat /\ Len(leaderboard) \in Nat
      /\ \A k \in 1 .. m : Kept[k] = leaderboard[k] /\ k \in 1 .. Len(leaderboard)
      /\ Len(u) = n
  <2>1. /\ Kept \in Seq(Int) /\ Len(u) = n
        /\ m = IF Len(leaderboard) < MAX_LEADERBOARD
               THEN Len(leaderboard) ELSE MAX_LEADERBOARD - 1
        /\ \A k \in 1 .. m : Kept[k] = leaderboard[k]
    BY AddedIs
  <2>2. Len(leaderboard) \in Nat /\ MAX_LEADERBOARD \in Nat \ {0}
    BY GameAssumption
  <2>3. m \in Nat
    BY <2>1
  <2> HIDE DEF m
  <2>4. m <= Len(leaderboard)
    BY <2>1, <2>2, <2>3
  <2> QED BY <2>1, <2>2, <2>3, <2>4
<1>2. Len(q) = n /\ q[n] = s /\ \A k \in 1 .. m : q[k] = leaderboard[k]
  BY <1>1
<1>3. p \in Bijection(1 .. n, 1 .. n) /\ \A k \in 1 .. n : u[k] = q[p[k]]
  BY <1>2 DEF Permuted
<1>4. p \in [1 .. n -> 1 .. n] /\ \A j, k \in 1 .. n : p[j] = p[k] => j = k
  BY <1>3 DEF Bijection, Injection, IsInjective
<1> HIDE DEF u, q, m
<1> HIDE DEF n
<1>5. ASSUME NEW k \in 1 .. n
      PROVE  \/ p[k] = n /\ new[k] = g /\ u[k] = s
             \/ /\ p[k] \in 1 .. m /\ p[k] \in 1 .. Len(leaderboard)
                /\ new[k] = id[p[k]] /\ u[k] = leaderboard[p[k]]
  <2>0. new[k] = (IF p[k] = n THEN g ELSE id[p[k]]) /\ u[k] = q[p[k]]
    BY <1>3 DEF NewIds
  <2> HIDE DEF new
  <2>1. CASE p[k] = n
    BY <1>2, <2>0, <2>1
  <2>2. CASE p[k] # n
    <3>1. p[k] \in 1 .. m
      <4>1. p[k] \in 1 .. n
        BY <1>4
      <4> QED BY <1>1, <2>2, <4>1 DEF n
    <3>2. q[p[k]] = leaderboard[p[k]] /\ p[k] \in 1 .. Len(leaderboard)
      BY <1>1, <1>2, <3>1
    <3> QED BY <2>0, <2>2, <3>1, <3>2
  <2> QED BY <2>1, <2>2
<1> HIDE DEF new
<1>6. \A k \in 1 .. Len(leaderboard) : id[k] \in Int /\ id[k] < g /\ <<id[k], leaderboard[k]>> \in R
  BY SMTT(30) DEF Behind
<1>7. \A j, k \in 1 .. Len(leaderboard) : id[j] = id[k] => j = k
  BY DEF Behind
<1>8. ASSUME NEW k \in 1 .. n
      PROVE  new[k] \in Int /\ new[k] <= g /\ <<new[k], u[k]>> \in Q
  <2>1. CASE p[k] = n /\ new[k] = g /\ u[k] = s
    BY <2>1
  <2>2. CASE /\ p[k] \in 1 .. m /\ p[k] \in 1 .. Len(leaderboard)
             /\ new[k] = id[p[k]] /\ u[k] = leaderboard[p[k]]
    <3>1. id[p[k]] \in Int /\ id[p[k]] < g /\ <<id[p[k]], leaderboard[p[k]]>> \in R
      BY <1>6, <2>2
    <3> QED BY <2>2, <3>1
  <2> QED BY <1>5, <2>1, <2>2
<1>9. ASSUME NEW j \in 1 .. n, NEW k \in 1 .. n, new[j] = new[k] PROVE j = k
  <2>1. \A i \in 1 .. n : \/ p[i] = n /\ new[i] = g
                          \/ p[i] # n /\ p[i] \in 1 .. Len(leaderboard) /\ new[i] = id[p[i]]
    BY <1>1, <1>5 DEF n
  <2>2. p[j] = p[k]
    <3>1. \A i \in 1 .. Len(leaderboard) : id[i] # g
      <4> TAKE i \in 1 .. Len(leaderboard)
      <4>1. id[i] \in Int /\ id[i] < g
        BY <1>6
      <4> QED BY <4>1
    <3>2. CASE p[j] = n
      BY <1>9, <2>1, <3>1, <3>2
    <3>3. CASE p[j] # n
      <4>1. p[j] \in 1 .. Len(leaderboard) /\ new[j] = id[p[j]] /\ id[p[j]] # g
        BY <2>1, <3>1, <3>3
      <4>2. p[k] \in 1 .. Len(leaderboard) /\ new[k] = id[p[k]]
        BY <1>9, <2>1, <4>1
      <4> QED BY <1>7, <1>9, <4>1, <4>2
    <3> QED BY <3>2, <3>3
  <2> QED BY <1>4, <2>2
<1>10. new \in [1 .. n -> Int]
  <2>1. new = [k \in 1 .. n |-> new[k]]
    BY DEF NewIds, new
  <2> QED BY <1>8, <2>1
<1> HIDE DEF Q
<1>11. Behind(u, new, Q, g)
  BY <1>1, <1>8, <1>9, <1>10 DEF Behind
<1> QED BY <1>11 DEF u, new, Q, n, m

(* Nothing is missing from a full table into which a high score went: what *)
(* it lost was no better than any entry it has now.                        *)
HighScore(t, s) == Len(t) < MAX_LEADERBOARD \/ s > t[Len(t)]

(* A full table stays full when a high score is entered.                   *)
LEMMA AddedFull ==
  ASSUME leaderboard \in Seq(Int), InOrder(leaderboard), Len(leaderboard) <= MAX_LEADERBOARD,
         NEW s \in Int, NEW g \in Int, NEW R, R \subseteq Int \X Int,
         Full(leaderboard, R, g - 1), HighScore(leaderboard, s)
  PROVE  Full(Added(s), R \union {<<g, s>>}, g)
<1> DEFINE t == leaderboard
           u == Added(s)
           q == Append(Kept, s)
           m == Len(Kept)
           n == m + 1
           M == MAX_LEADERBOARD
<1>1. PICK id : Behind(t, id, R, g - 1) /\ Complete(t, id, R)
  BY DEF Full
<1>2. PICK p : Permuted(u, q, p)
  BY AddedIs
<1> DEFINE new == NewIds(p, id, n, g)
           Q == R \union {<<g, s>>}
<1>3. Behind(u, new, Q, g)
  BY <1>1, <1>2, AddedBehind
<1>4. /\ Kept \in Seq(Int) /\ u \in Seq(Int) /\ Len(u) = n
      /\ m = IF Len(t) < M THEN Len(t) ELSE M - 1
      /\ \A k \in 1 .. m : Kept[k] = t[k]
  BY AddedIs
<1>5. Len(t) \in Nat /\ M \in Nat \ {0} /\ Len(t) <= M /\ \A k \in 1 .. Len(t) : t[k] \in Int
  BY GameAssumption
<1>6. m \in Nat /\ m <= Len(t) /\ (m < Len(t) => Len(t) = M /\ n = M)
  <2> HIDE DEF m, t
  <2> QED BY <1>4, <1>5
<1>7. Len(q) = n /\ q[n] = s /\ \A k \in 1 .. m : q[k] = t[k]
  BY <1>4, <1>6
<1>8. \A k \in 1 .. n : u[k] = q[p[k]]
  BY <1>2, <1>7 DEF Permuted
<1>9. p \in [1 .. n -> 1 .. n] /\ \A i \in 1 .. n : \E k \in 1 .. n : p[k] = i
  <2>1. p \in Bijection(1 .. n, 1 .. n)
    BY <1>2, <1>7 DEF Permuted
  <2> QED BY <2>1 DEF Bijection, Injection, Surjection
<1>10. \A k \in 1 .. n : new[k] = IF p[k] = n THEN g ELSE id[p[k]]
  BY DEF NewIds
<1> HIDE DEF t, u, q, m, new
<1>11. ASSUME Len(t) = M PROVE Len(u) = M /\ u[M] >= t[M] /\ u[M] \in Int
  <2>1. n = M /\ M \in 1 .. n /\ M \in 1 .. Len(t) /\ Len(t) = M /\ m = M - 1
    BY <1>4, <1>5, <1>11
  <2>2. u[M] = q[p[M]] /\ p[M] \in 1 .. n
    BY <1>8, <1>9, <2>1
  <2>3. CASE p[M] = n
    <3>1. s > t[M] /\ t[M] \in Int
      BY <1>5, <2>1 DEF HighScore, t
    <3> QED BY <1>4, <1>7, <2>1, <2>2, <2>3, <3>1
  <2>4. CASE p[M] # n
    <3>1. p[M] \in 1 .. m /\ p[M] \in 1 .. Len(t) /\ p[M] <= M
      BY <1>6, <2>1, <2>2, <2>4
    <3>2. t[p[M]] >= t[M] /\ u[M] = t[p[M]] /\ t[p[M]] \in Int
      BY <1>5, <1>7, <2>1, <2>2, <3>1, InOrderAll DEF t
    <3> QED BY <1>4, <2>1, <3>2
  <2> QED BY <2>3, <2>4
<1>12. Complete(u, new, Q)
  <2> SUFFICES ASSUME NEW r \in Q
               PROVE  \/ \E i \in 1 .. Len(u) : r = <<new[i], u[i]>>
                      \/ Len(u) = M /\ u[M] >= r[2]
    BY DEF Complete
  <2>1. CASE r = <<g, s>>
    <3>1. n \in 1 .. n
      BY <1>6
    <3>2. PICK k \in 1 .. n : p[k] = n
      BY <1>9, <3>1
    <3>3. new[k] = g /\ u[k] = s
      BY <1>7, <1>8, <1>10, <3>2
    <3> QED BY <1>4, <2>1, <3>2, <3>3
  <2>2. ASSUME NEW i \in 1 .. Len(t), r = <<id[i], t[i]>>
        PROVE  \/ \E k \in 1 .. Len(u) : r = <<new[k], u[k]>>
               \/ Len(u) = M /\ u[M] >= r[2]
    <3>1. CASE i <= m
      <4>1. i \in 1 .. n /\ i # n /\ i \in 1 .. m
        BY <1>5, <1>6, <3>1
      <4>2. PICK k \in 1 .. n : p[k] = i
        BY <1>9, <4>1
      <4>3. new[k] = id[i] /\ u[k] = t[i]
        BY <1>7, <1>8, <1>10, <4>1, <4>2
      <4> QED BY <1>4, <2>2, <4>2, <4>3
    <3>2. CASE i > m
      <4>1. Len(t) = M /\ i = M
        BY <1>5, <1>6, <3>2
      <4>2. r[2] = t[M]
        BY <2>2, <4>1
      <4> QED BY <1>11, <4>1, <4>2
    <3> QED BY <1>5, <1>6, <3>1, <3>2
  <2>3. ASSUME Len(t) = M, t[M] >= r[2], r[2] \in Int
        PROVE  Len(u) = M /\ u[M] >= r[2]
    <3>1. t[M] \in Int
      <4>1. M \in 1 .. Len(t)
        BY <1>5, <2>3
      <4> QED BY <1>5, <4>1
    <3> QED BY <1>11, <2>3, <3>1
  <2>4. CASE r \in R
    <3>1. r[2] \in Int
      BY <2>4
    <3>2. \/ \E i \in 1 .. Len(t) : r = <<id[i], t[i]>>
          \/ Len(t) = M /\ t[M] >= r[2]
      BY <1>1, <2>4 DEF Complete
    <3> QED BY <2>2, <2>3, <3>1, <3>2
  <2> QED BY <2>1, <2>4
<1> QED BY <1>3, <1>12 DEF Full, u, new

(* An entry goes in behind the entries of other games, whatever is lost.   *)
LEMMA AddedGenuine ==
  ASSUME leaderboard \in Seq(Int), InOrder(leaderboard), Len(leaderboard) <= MAX_LEADERBOARD,
         NEW s \in Int, NEW g \in Int, NEW R, Genuine(leaderboard, R, g - 1)
  PROVE  Genuine(Added(s), R \union {<<g, s>>}, g)
<1>1. PICK id : Behind(leaderboard, id, R, g - 1)
  BY DEF Genuine
<1>2. PICK p : Permuted(Added(s), Append(Kept, s), p)
  BY AddedIs
<1>3. Behind(Added(s), NewIds(p, id, Len(Kept) + 1, g), R \union {<<g, s>>}, g)
  BY <1>1, <1>2, AddedBehind
<1> QED BY <1>3 DEF Genuine

-----------------------------------------------------------------------------
(* The table and its file in every state.  The last game whose result the  *)
(* table may hold is the one before the game that is played.  Beside the   *)
(* results themselves there is what saving left of those of some games, no *)
(* more games than things have gone wrong.                                 *)
LastGame == IF phase = "play" THEN games - 1 ELSE games
Table(t, R, l) == t \in Seq(Int) /\ Len(t) <= MAX_LEADERBOARD /\ InOrder(t) /\ Genuine(t, R, l)
WithCuts(R, C) ==
  R \union {e \in Int \X Nat : e[1] \in C /\ \E r \in R : r[1] = e[1] /\ e[2] \in Leading[r[2]]}
AtMost(C, n) == IsFiniteSet(C) /\ Cardinality(C) <= n
Entered(t, R, n, l) == \E C : AtMost(C, n) /\ Table(t, WithCuts(R, C), l)
TableState ==
  /\ IsFiniteSet(results)
  /\ Entered(leaderboard, results, faults, LastGame) /\ Entered(file, results, faults, LastGame)
  /\ saving => running
  /\ faults = 0 /\ running => Full(leaderboard, results, LastGame)
  /\ faults = 0 /\ ~saving => Full(file, results, LastGame)
  /\ faults = 0 /\ running /\ ~saving => file = leaderboard

(* Whatever the games behind them, the entries are numbers in order.       *)
LEMMA EnteredTable ==
  ASSUME NEW t, NEW R, NEW n, NEW l, Entered(t, R, n, l)
  PROVE  t \in Seq(Int) /\ Len(t) <= MAX_LEADERBOARD /\ InOrder(t)
BY DEF Entered, Table

(* With more results there is more that may be left.                       *)
LEMMA MoreCuts ==
  ASSUME NEW R, NEW Q, NEW C, NEW D, R \subseteq Q, C \subseteq D
  PROVE  WithCuts(R, C) \subseteq WithCuts(Q, D) /\ R \subseteq WithCuts(R, C)
BY DEF WithCuts

(* A table stays right when there are more results, when more has gone     *)
(* wrong and when later games may be in it.                                *)
LEMMA EnteredLater ==
  ASSUME NEW t, NEW R, NEW Q, NEW n \in Int, NEW k \in Int, NEW l \in Int, NEW m \in Int,
         R \subseteq Q, n <= k, l <= m, Entered(t, R, n, l)
  PROVE  Entered(t, Q, k, m)
<1>1. PICK C : AtMost(C, n) /\ Table(t, WithCuts(R, C), l)
  BY DEF Entered
<1>2. AtMost(C, k)
  <2>1. Cardinality(C) \in Nat
    BY <1>1, FS_CardinalityType DEF AtMost
  <2> QED BY <1>1, <2>1 DEF AtMost
<1> DEFINE P == WithCuts(R, C)
           S == WithCuts(Q, C)
<1>3. P \subseteq S
  BY MoreCuts
<1>4. Table(t, P, l)
  BY <1>1
<1> HIDE DEF P, S
<1>5. Genuine(t, S, m)
  BY <1>3, <1>4, GenuineLater DEF Table
<1>6. Table(t, S, m)
  BY <1>4, <1>5 DEF Table
<1> QED BY <1>2, <1>6 DEF Entered, S

(* No game is no more than any number of them.                             *)
LEMMA NoCuts ==
  ASSUME NEW n \in Nat
  PROVE  AtMost({}, n)
BY FS_EmptySet DEF AtMost

(* The table that is empty.                                                *)
LEMMA EmptyTable ==
  ASSUME NEW R, NEW n \in Nat, NEW l
  PROVE  Entered(<<>>, R, n, l)
<1>1. <<>> \in Seq(Int) /\ Len(<<>>) = 0 /\ 0 <= MAX_LEADERBOARD
  BY GameAssumption
<1>2. Table(<<>>, WithCuts(R, {}), l)
  BY <1>1, GenuineEmpty DEF Table
<1> QED BY <1>2, NoCuts DEF Entered

(* What leaves the table alone leaves it right.                            *)
LEMMA TableKept ==
  ASSUME TypeOK, TableState, UNCHANGED <<leaderboard, file, saving, faults, results, running>>,
         LastGame \in Int, LastGame' \in Int, LastGame <= LastGame'
  PROVE  TableState'
<1>1. /\ leaderboard' = leaderboard /\ file' = file /\ saving' = saving /\ faults' = faults
      /\ results' = results /\ running' = running
  OBVIOUS
<1> DEFINE l == LastGame
           m == LastGame'
<1>2. l \in Int /\ m \in Int /\ l <= m /\ faults \in Int /\ faults <= faults
      /\ results \subseteq results
  BY DEF TypeOK
<1>3. Entered(leaderboard, results, faults, l) /\ Entered(file, results, faults, l)
  BY DEF TableState
<1> HIDE DEF l, m
<1>4. Entered(leaderboard, results, faults, m) /\ Entered(file, results, faults, m)
  BY <1>2, <1>3, EnteredLater
<1>5. \A t : Full(t, results, l) => Full(t, results, m)
  BY <1>2, FullLater
<1>6. /\ Entered(leaderboard', results', faults', LastGame')
      /\ Entered(file', results', faults', LastGame')
      /\ \A t : Full(t, results, LastGame) => Full(t, results', LastGame')
  BY <1>1, <1>4, <1>5 DEF l, m
<1> HIDE DEF LastGame
<1>7. IsFiniteSet(results') /\ (saving' => running')
  BY <1>1 DEF TableState
<1>8. /\ faults' = 0 /\ running' => Full(leaderboard', results', LastGame')
      /\ faults' = 0 /\ ~saving' => Full(file', results', LastGame')
      /\ faults' = 0 /\ running' /\ ~saving' => file' = leaderboard'
  <2>1. /\ faults = 0 /\ running => Full(leaderboard, results, LastGame)
        /\ faults = 0 /\ ~saving => Full(file, results, LastGame)
        /\ faults = 0 /\ running /\ ~saving => file = leaderboard
    BY DEF TableState
  <2> QED BY <1>1, <1>6, <2>1
<1> QED BY <1>6, <1>7, <1>8 DEF TableState

(* Loading what is not longer than a table reads the file.                 *)
LEMMA LoadReads ==
  ASSUME file \in Seq(Int), Len(file) <= MAX_LEADERBOARD
  PROVE  loadLeaderboard = file
<1>1. file \in Seq(Int) /\ Len(file) \in Nat /\ MAX_LEADERBOARD \in Nat /\ Len(file) <= MAX_LEADERBOARD
  BY GameAssumption
<1>2. Min({Len(file), MAX_LEADERBOARD}) = Len(file)
  <2>1. Len(file) \in Int /\ MAX_LEADERBOARD \in Int
    BY <1>1
  <2> QED BY <1>1, <2>1, MinOfTwo
<1>3. SubSeq(file, 1, Len(file)) = file
  BY <1>1
<1> QED BY <1>2, <1>3 DEF loadLeaderboard

TableTypes ==
  /\ leaderboard \in Seq(Int) /\ file \in Seq(Int) /\ saving \in BOOLEAN
  /\ faults \in Nat /\ results \subseteq Int \X Nat

(* A result that enters: the table is sorted in memory, the file truncated *)
(* or not opened.  The game it is the result of is over.                   *)
LEMMA EnterHigh ==
  ASSUME TypeOK, TableState, running, running', ~saving, phase = "play", NEW s \in Nat,
         isHighScore(s), Enter(s), LastGame' = games
  PROVE  TableState' /\ TableTypes'
<1> DEFINE u == Added(s)
           R == results
           Q == results \union {<<games, s>>}
           lb == leaderboard
<1>1. /\ results' = Q /\ leaderboard' = u
      /\ \/ file' = <<>> /\ saving' = TRUE /\ faults' = faults
         \/ faults' = faults + 1 /\ file' = file /\ saving' = saving
  BY DEF Enter
<1>2. /\ games \in Int /\ LastGame = games - 1 /\ games - 1 <= games /\ games - 1 \in Int
      /\ lb \in Seq(Int) /\ file \in Seq(Int) /\ faults \in Nat /\ R \subseteq Int \X Nat
      /\ s \in Int /\ R \subseteq Int \X Int
  BY DEF TypeOK, LastGame
<1>3. /\ IsFiniteSet(R)
      /\ Entered(lb, R, faults, games - 1) /\ Entered(file, R, faults, games - 1)
  BY <1>2 DEF TableState
<1>4. HighScore(lb, s)
  BY DEF HighScore, isHighScore
<1>5. lb \in Seq(Int) /\ InOrder(lb) /\ Len(lb) <= MAX_LEADERBOARD
  BY <1>3, EnteredTable
<1>6. Entered(u, Q, faults, games)
  <2>1. PICK C : AtMost(C, faults) /\ Table(lb, WithCuts(R, C), games - 1)
    BY <1>3 DEF Entered
  <2> DEFINE P == WithCuts(R, C)
             S == WithCuts(Q, C)
  <2>2. P \union {<<games, s>>} \subseteq S
    <3>1. P \subseteq S /\ Q \subseteq S
      BY MoreCuts
    <3> HIDE DEF P, S
    <3> QED BY <3>1
  <2>3. Genuine(lb, P, games - 1)
    BY <2>1 DEF Table
  <2> HIDE DEF P, S
  <2>4. Genuine(u, P \union {<<games, s>>}, games)
    BY <1>2, <1>5, <2>3, AddedGenuine
  <2>5. games <= games
    BY <1>2
  <2> DEFINE N == P \union {<<games, s>>}
  <2>6. N \subseteq S /\ Genuine(u, N, games)
    BY <2>2, <2>4
  <2> HIDE DEF u, N
  <2>7. Genuine(u, S, games)
    BY <1>2, <2>5, <2>6, GenuineLater
  <2>8. /\ u \in Seq(Int) /\ Len(u) = Len(Kept) + 1 /\ InOrder(u)
        /\ Len(Kept) = IF Len(lb) < MAX_LEADERBOARD THEN Len(lb) ELSE MAX_LEADERBOARD - 1
    BY <1>2, <1>5, AddedIs DEF u
  <2>9. Len(lb) \in Nat /\ MAX_LEADERBOARD \in Nat
    BY <1>5, GameAssumption
  <2> HIDE DEF lb
  <2>10. Len(u) <= MAX_LEADERBOARD
    BY <2>8, <2>9
  <2>11. Table(u, S, games)
    BY <2>7, <2>8, <2>10 DEF Table
  <2> QED BY <2>1, <2>11 DEF Entered, S
<1>7. ASSUME NEW t, Entered(t, R, faults, games - 1)
      PROVE  Entered(t, Q, faults, games)
  <2>1. faults \in Int /\ faults <= faults /\ R \subseteq Q
    BY <1>2
  <2> HIDE DEF Q
  <2> QED BY <1>2, <1>7, <2>1, EnteredLater
<1>8. ASSUME faults = 0 PROVE Full(u, Q, games)
  <2>1. Full(lb, R, games - 1)
    BY <1>2, <1>8 DEF TableState
  <2> QED BY <1>2, <1>4, <1>5, <2>1, AddedFull
<1>9. Entered(<<>>, Q, faults, games)
  BY <1>2, EmptyTable
<1>10. IsFiniteSet(Q) /\ Q \subseteq Int \X Nat
  <2>1. IsFiniteSet(R \union {<<games, s>>})
    BY <1>3, FS_AddElement
  <2>2. <<games, s>> \in Int \X Nat
    BY <1>2
  <2> QED BY <1>2, <2>1, <2>2
<1> HIDE DEF u, Q
<1>11. CASE file' = <<>> /\ saving' = TRUE /\ faults' = faults
  <2>1. /\ Entered(leaderboard', results', faults', LastGame')
        /\ Entered(file', results', faults', LastGame')
    BY <1>1, <1>6, <1>9, <1>11
  <2>2. faults' = 0 => Full(leaderboard', results', LastGame')
    BY <1>1, <1>8, <1>11
  <2>3. TableState'
    BY <1>1, <1>10, <1>11, <2>1, <2>2 DEF TableState
  <2>4. leaderboard' \in Seq(Int) /\ file' \in Seq(Int)
    BY <2>1, EnteredTable
  <2>5. TableTypes'
    BY <1>1, <1>2, <1>10, <1>11, <2>4 DEF TableTypes
  <2> QED BY <2>3, <2>5
<1>12. CASE faults' = faults + 1 /\ file' = file /\ saving' = saving
  <2>1. ASSUME NEW t, Entered(t, Q, faults, games)
        PROVE  Entered(t, Q, faults + 1, games)
    <3>1. /\ faults \in Int /\ faults + 1 \in Int /\ faults <= faults + 1 /\ Q \subseteq Q
          /\ games <= games
      BY <1>2
    <3> QED BY <1>2, <2>1, <3>1, EnteredLater
  <2>2. /\ Entered(leaderboard', results', faults', LastGame')
        /\ Entered(file', results', faults', LastGame')
    BY <1>1, <1>3, <1>6, <1>7, <1>12, <2>1
  <2>3. faults' # 0 /\ faults' \in Nat
    BY <1>2, <1>12
  <2>4. TableState'
    BY <1>1, <1>10, <1>12, <2>2, <2>3 DEF TableState
  <2>5. TableTypes'
    <3>1. saving \in BOOLEAN
      BY DEF TypeOK
    <3>2. leaderboard' \in Seq(Int) /\ file' \in Seq(Int)
      BY <2>2, EnteredTable
    <3> QED BY <1>1, <1>10, <1>12, <2>3, <3>1, <3>2 DEF TableTypes
  <2> QED BY <2>4, <2>5
<1> QED BY <1>1, <1>11, <1>12

(* A result that does not enter.                                           *)
LEMMA EnterLow ==
  ASSUME TypeOK, TableState, running, running', ~saving, NEW s \in Nat,
         ~isHighScore(s), Enter(s), LastGame' \in Int, LastGame <= LastGame'
  PROVE  TableState' /\ TableTypes'
<1> DEFINE R == results
           Q == results \union {<<games, s>>}
           lb == leaderboard
           l == LastGame
           m == LastGame'
<1>1. /\ results' = Q /\ leaderboard' = lb /\ file' = file /\ saving' = saving /\ faults' = faults
  BY DEF Enter
<1>2. /\ games \in Int /\ l \in Int /\ m \in Int /\ l <= m
      /\ lb \in Seq(Int) /\ file \in Seq(Int) /\ faults \in Nat /\ R \subseteq Int \X Nat
  BY DEF TypeOK, LastGame
<1>3. IsFiniteSet(R) /\ Entered(lb, R, faults, l) /\ Entered(file, R, faults, l)
  BY DEF TableState
<1>4. Len(lb) = MAX_LEADERBOARD /\ lb[MAX_LEADERBOARD] >= s
  <2>1. /\ Len(lb) \in Nat /\ MAX_LEADERBOARD \in Nat \ {0} /\ Len(lb) <= MAX_LEADERBOARD
        /\ \A k \in 1 .. Len(lb) : lb[k] \in Int
    BY <1>3, EnteredTable, GameAssumption
  <2>2. ~(Len(lb) < MAX_LEADERBOARD) /\ ~(s > lb[Len(lb)])
    BY DEF isHighScore
  <2>3. Len(lb) = MAX_LEADERBOARD
    BY <2>1, <2>2
  <2>4. Len(lb) \in 1 .. Len(lb)
    BY <2>1, <2>3
  <2>5. lb[Len(lb)] \in Int
    BY <2>1, <2>4
  <2> QED BY <2>2, <2>3, <2>5
<1> HIDE DEF l, m
<1>5. \A t : Entered(t, R, faults, l) => Entered(t, Q, faults, m)
  <2> TAKE t
  <2> HAVE Entered(t, R, faults, l)
  <2>1. R \subseteq Q /\ faults \in Int /\ faults <= faults
    BY <1>2
  <2> HIDE DEF Q
  <2> QED BY <1>2, <2>1, EnteredLater
<1>6. Full(lb, R, l) => Full(lb, Q, m)
  <2> HAVE Full(lb, R, l)
  <2>1. Full(lb, Q, l)
    BY <1>4, FullNotHigh
  <2> HIDE DEF Q
  <2> QED BY <1>2, <2>1, FullLater
<1>7. IsFiniteSet(Q) /\ Q \subseteq Int \X Nat
  <2>1. IsFiniteSet(R \union {<<games, s>>})
    BY <1>3, FS_AddElement
  <2>2. <<games, s>> \in Int \X Nat
    BY <1>2
  <2> QED BY <1>2, <2>1, <2>2
<1> HIDE DEF Q
<1>8. /\ Entered(leaderboard', results', faults', LastGame')
      /\ Entered(file', results', faults', LastGame')
  BY <1>1, <1>3, <1>5 DEF m
<1>9. /\ faults = 0 => Full(lb, R, l)
      /\ faults = 0 => file = lb
  BY DEF TableState, l
<1>10. faults' = 0 => /\ Full(leaderboard', results', LastGame') /\ file' = leaderboard'
                      /\ Full(file', results', LastGame')
  BY <1>1, <1>6, <1>9 DEF m
<1>11. TableState'
  BY <1>1, <1>7, <1>8, <1>10 DEF TableState
<1>12. TableTypes'
  BY <1>1, <1>2, <1>7 DEF TableTypes, TypeOK
<1> QED BY <1>11, <1>12

(* What is looked at after every key: the end of the game may enter its    *)
(* result; the game goes on only if nothing was entered.                   *)
LEMMA AfterKeyRight ==
  ASSUME TypeOK, TableState, running, running', ~saving, phase = "play", games' = games,
         score' \in Nat, NEW here \in {"play", "menu"}, AfterKey(here)
  PROVE  /\ phase' \in {here, "leaderboard"}
         /\ (phase' = "play" => win' \/ ~gameOver')
         /\ (phase' = "leaderboard" => win' \/ gameOver')
         /\ TableState' /\ TableTypes'
<1>1. /\ games \in Int /\ LastGame = games - 1 /\ LastGame \in Int
      /\ LastGame' = (IF phase' = "play" THEN games - 1 ELSE games)
  BY DEF TypeOK, LastGame
<1>2. LastGame' \in Int /\ LastGame <= LastGame' /\ (phase' # "play" => LastGame' = games)
  BY <1>1
<1> DEFINE s == score'
<1>3. s \in Nat
  OBVIOUS
<1>4. ASSUME Enter(s), phase' = "leaderboard" PROVE TableState' /\ TableTypes'
  <2>1. LastGame' = games
    BY <1>1, <1>4
  <2>2. CASE isHighScore(s)
    BY <1>3, <1>4, <2>1, <2>2, EnterHigh
  <2>3. CASE ~isHighScore(s)
    BY <1>2, <1>3, <1>4, <2>3, EnterLow
  <2> QED BY <2>2, <2>3
<1>5. CASE win'
  <2>1. Enter(s) /\ phase' = IF isHighScore(s) THEN "leaderboard" ELSE here
    BY <1>5 DEF AfterKey, AfterRecord
  <2>2. CASE isHighScore(s)
    BY <1>4, <1>5, <2>1, <2>2
  <2>3. CASE ~isHighScore(s)
    <3>1. TableState' /\ TableTypes'
      BY <1>2, <1>3, <2>1, <2>3, EnterLow
    <3> QED BY <1>5, <2>1, <2>3, <3>1
  <2> QED BY <2>2, <2>3
<1>6. CASE ~win' /\ gameOver'
  <2>1. Enter(s) /\ phase' = "leaderboard"
    BY <1>6 DEF AfterKey
  <2> QED BY <1>4, <1>6, <2>1
<1>7. CASE ~win' /\ ~gameOver'
  <2>1. phase' = here /\ UNCHANGED <<leaderboard, file, saving, faults, results>>
    BY <1>7 DEF AfterKey
  <2>2. UNCHANGED running
    OBVIOUS
  <2>3. TableState'
    BY <1>1, <1>2, <2>1, <2>2, TableKept
  <2>4. TableTypes'
    BY <2>1 DEF TypeOK, TableTypes
  <2> QED BY <1>7, <2>1, <2>3, <2>4
<1> QED BY <1>5, <1>6, <1>7

(* What is left of a table when entries are missing at its end.            *)
LEMMA PrefixTable ==
  ASSUME NEW t, NEW R, NEW n \in Nat, NEW l \in Int, Entered(t, R, n, l),
         NEW k \in Nat, k < Len(t)
  PROVE  Entered(SubSeq(t, 1, k), R, n + 1, l)
<1>1. PICK C : AtMost(C, n) /\ Table(t, WithCuts(R, C), l)
  BY DEF Entered
<1> DEFINE P == WithCuts(R, C)
           u == SubSeq(t, 1, k)
<1>2. /\ t \in Seq(Int) /\ Len(t) \in Nat /\ Len(t) <= MAX_LEADERBOARD /\ InOrder(t)
      /\ Genuine(t, P, l) /\ k \in 0 .. Len(t) /\ MAX_LEADERBOARD \in Nat
  BY <1>1, GameAssumption DEF Table
<1> HIDE DEF P
<1>3. Genuine(u, P, l) /\ u \in Seq(Int) /\ Len(u) = k /\ InOrder(u)
  BY <1>2, GenuinePrefix
<1> HIDE DEF u
<1>4. Table(u, P, l)
  BY <1>2, <1>3 DEF Table
<1>5. Entered(u, R, n, l)
  BY <1>1, <1>4 DEF Entered, P
<1>6. n \in Int /\ n + 1 \in Int /\ n <= n + 1 /\ l <= l /\ R \subseteq R
  OBVIOUS
<1> QED BY <1>5, <1>6, EnteredLater DEF u

(* The same when a part of the number of the next entry is still there: it *)
(* is what is left of the result of the same game.                         *)
LEMMA CutTable ==
  ASSUME NEW t, NEW R, R \subseteq Int \X Nat, NEW n \in Nat, NEW l, Entered(t, R, n, l),
         NEW k \in Nat, k < Len(t), NEW c \in Leading[t[k + 1]]
  PROVE  Entered(Append(SubSeq(t, 1, k), c), R, n + 1, l)
<1>1. PICK C : AtMost(C, n) /\ Table(t, WithCuts(R, C), l)
  BY DEF Entered
<1>2. /\ t \in Seq(Int) /\ Len(t) \in Nat /\ Len(t) <= MAX_LEADERBOARD /\ InOrder(t)
      /\ MAX_LEADERBOARD \in Nat /\ k + 1 \in 1 .. Len(t)
      /\ \A i \in 1 .. k : i \in 1 .. Len(t)
  BY <1>1, GameAssumption DEF Table
<1> DEFINE P == WithCuts(R, C)
<1>3. PICK id : Behind(t, id, P, l)
  BY <1>1 DEF Table, Genuine
<1> DEFINE g == id[k + 1]
           D == C \union {g}
           S == WithCuts(R, D)
           u == Append(SubSeq(t, 1, k), c)
           new == [i \in 1 .. k + 1 |-> id[i]]
<1>4. AtMost(D, n + 1)
  <2>1. IsFiniteSet(C) /\ Cardinality(C) \in Nat /\ Cardinality(C) <= n
    BY <1>1, FS_CardinalityType DEF AtMost
  <2>2. /\ IsFiniteSet(D)
        /\ Cardinality(D) = IF g \in C THEN Cardinality(C) ELSE Cardinality(C) + 1
    BY <2>1, FS_AddElement
  <2> HIDE DEF D
  <2>3. Cardinality(D) <= n + 1
    BY <2>1, <2>2
  <2> QED BY <2>2, <2>3 DEF AtMost
<1>5. /\ P \subseteq S
      /\ P \subseteq Int \X Nat
  BY MoreCuts DEF WithCuts
<1>6. <<g, t[k + 1]>> \in P /\ t[k + 1] \in Nat /\ g \in Int
  <2>1. <<id[k + 1], t[k + 1]>> \in P
    BY <1>2, <1>3 DEF Behind
  <2> HIDE DEF P
  <2> QED BY <1>5, <2>1
<1>7. c \in Nat /\ c < t[k + 1]
  BY <1>6, LeadingEquation
<1>8. <<g, c>> \in S
  <2>1. \E r \in R : r[1] = g /\ c \in Leading[r[2]]
    <3>1. CASE <<g, t[k + 1]>> \in R
      <4>1. <<g, t[k + 1]>>[1] = g /\ <<g, t[k + 1]>>[2] = t[k + 1]
        OBVIOUS
      <4> QED BY <3>1, <4>1
    <3>2. CASE \E r \in R : r[1] = g /\ t[k + 1] \in Leading[r[2]]
      <4>1. PICK r \in R : r[1] = g /\ t[k + 1] \in Leading[r[2]]
        BY <3>2
      <4>2. r[2] \in Nat
        BY <4>1
      <4>3. c \in Leading[r[2]]
        BY <4>1, <4>2, LeadingTwice
      <4> QED BY <4>1, <4>3
    <3> QED BY <1>6, <3>1, <3>2 DEF WithCuts
  <2>2. <<g, c>> \in Int \X Nat /\ <<g, c>>[1] = g /\ <<g, c>>[2] = c /\ g \in D
    BY <1>6, <1>7
  <2> HIDE DEF D, g
  <2> QED BY <2>1, <2>2 DEF WithCuts
<1> HIDE DEF P, S, D
<1>9. /\ u \in Seq(Int) /\ Len(u) = k + 1 /\ u[k + 1] = c
      /\ \A i \in 1 .. k : u[i] = t[i]
  <2> DEFINE s == SubSeq(t, 1, k)
  <2>1. k \in 0 .. Len(t)
    BY <1>2
  <2>2. s \in Seq(Int) /\ Len(s) = k /\ \A i \in 1 .. k : s[i] = t[i]
    BY <1>2, <2>1
  <2>3. c \in Int
    BY <1>7
  <2> HIDE DEF s
  <2> QED BY <2>2, <2>3 DEF u, s
<1> HIDE DEF u
<1>10. Behind(u, new, S, l)
  <2>1. \A i \in 1 .. k + 1 : i \in 1 .. Len(t) /\ new[i] = id[i]
    BY <1>2
  <2>2. /\ \A i \in 1 .. Len(t) : id[i] \in Int /\ id[i] <= l /\ <<id[i], t[i]>> \in S
        /\ \A i, j \in 1 .. Len(t) : id[i] = id[j] => i = j
    BY <1>3, <1>5 DEF Behind
  <2>3. \A i \in 1 .. k + 1 : i # k + 1 => i \in 1 .. k
    OBVIOUS
  <2>4. \A i \in 1 .. k + 1 : <<new[i], u[i]>> \in S
    <3> TAKE i \in 1 .. k + 1
    <3>1. CASE i = k + 1
      BY <1>8, <1>9, <2>1, <3>1
    <3>2. CASE i # k + 1
      BY <1>9, <2>1, <2>2, <2>3, <3>2
    <3> QED BY <3>1, <3>2
  <2>5. new \in [1 .. k + 1 -> Int]
    BY <2>1, <2>2
  <2> HIDE DEF new
  <2> QED BY <1>9, <2>1, <2>2, <2>4, <2>5 DEF Behind
<1>11. InOrder(u)
  <2> SUFFICES ASSUME NEW i \in 1 .. k PROVE u[i] >= u[i + 1]
    BY <1>9 DEF InOrder
  <2>1. i \in 1 .. Len(t) - 1 /\ i + 1 \in 1 .. Len(t) /\ i \in 1 .. Len(t)
    BY <1>2
  <2>2. t[i] >= t[i + 1] /\ t[i] \in Int /\ t[i + 1] \in Int /\ u[i] = t[i]
    <3>1. t[i] >= t[i + 1]
      BY <1>2, <2>1 DEF InOrder
    <3>2. t[i] \in Int /\ t[i + 1] \in Int
      BY <1>2, <2>1
    <3> QED BY <1>9, <3>1, <3>2
  <2>3. CASE i = k
    BY <1>6, <1>7, <1>9, <2>2, <2>3
  <2>4. CASE i # k
    <3>1. i + 1 \in 1 .. k
      BY <2>4
    <3> QED BY <1>9, <2>2, <3>1
  <2> QED BY <2>3, <2>4
<1>12. Table(u, S, l)
  <2>1. Len(u) <= MAX_LEADERBOARD
    BY <1>2, <1>9
  <2> QED BY <1>9, <1>10, <1>11, <2>1 DEF Table, Genuine
<1> QED BY <1>4, <1>12 DEF Entered, S, u

(* Finishing a save: the whole table is in the file, or a part of it.      *)
LEMMA FinishSaveRight ==
  ASSUME TypeOK, TableState, FinishSave
  PROVE  TableState' /\ TableTypes'
<1> DEFINE l == LastGame
<1>1. /\ running /\ saving /\ ~saving' /\ results' = results /\ leaderboard' = leaderboard
      /\ running' = running /\ LastGame' = l /\ l \in Int
  BY DEF FinishSave, LastGame, TypeOK
<1>2. /\ Entered(leaderboard, results, faults, l) /\ Entered(file, results, faults, l)
      /\ faults = 0 => Full(leaderboard, results, l)
      /\ IsFiniteSet(results)
  BY <1>1 DEF TableState
<1>3. saving' = FALSE /\ faults \in Nat /\ results \subseteq Int \X Nat
  BY DEF FinishSave, TypeOK
<1> HIDE DEF l
<1>4. CASE file' = leaderboard /\ faults' = faults
  <2>1. /\ Entered(leaderboard', results', faults', LastGame')
        /\ Entered(file', results', faults', LastGame')
        /\ faults' = 0 => Full(leaderboard', results', LastGame') /\ Full(file', results', LastGame')
    BY <1>1, <1>2, <1>4
  <2>2. TableState'
    BY <1>1, <1>2, <1>4, <2>1 DEF TableState
  <2>3. leaderboard' \in Seq(Int) /\ file' \in Seq(Int)
    BY <2>1, EnteredTable
  <2>4. TableTypes'
    BY <1>1, <1>3, <1>4, <2>3 DEF TableTypes
  <2> QED BY <2>2, <2>4
<1>5. CASE faults' = faults + 1 /\ file' \in PartsOf(leaderboard)
  <2>1. PICK n \in 0 .. Len(leaderboard) - 1 :
          \/ file' = SubSeq(leaderboard, 1, n)
          \/ \E c \in Leading[leaderboard[n + 1]] : file' = Append(SubSeq(leaderboard, 1, n), c)
    BY <1>5, Zenon DEF PartsOf
  <2>2. n \in Nat /\ n < Len(leaderboard)
    <3>1. leaderboard \in Seq(Int) /\ Len(leaderboard) \in Nat
      BY <1>2, EnteredTable
    <3> QED BY <3>1
  <2>3. Entered(file', results, faults + 1, l)
    BY <1>1, <1>2, <1>3, <2>1, <2>2, PrefixTable, CutTable
  <2>4. Entered(leaderboard, results, faults + 1, l)
    <3>1. /\ faults \in Int /\ faults + 1 \in Int /\ faults <= faults + 1
          /\ l <= l /\ results \subseteq results
      BY <1>1, <1>3
    <3> QED BY <1>1, <1>2, <3>1, EnteredLater
  <2>5. /\ Entered(leaderboard', results', faults', LastGame')
        /\ Entered(file', results', faults', LastGame')
    BY <1>1, <1>5, <2>3, <2>4
  <2>6. faults' # 0 /\ faults' \in Nat
    BY <1>3, <1>5
  <2>7. TableState'
    BY <1>1, <1>2, <2>5, <2>6 DEF TableState
  <2>8. leaderboard' \in Seq(Int) /\ file' \in Seq(Int)
    BY <2>5, EnteredTable
  <2>9. TableTypes'
    BY <1>1, <1>3, <2>6, <2>8 DEF TableTypes
  <2> QED BY <2>7, <2>9
<1> QED BY <1>4, <1>5 DEF FinishSave

(* What the first start finds: the file of earlier sessions.               *)
LEMMA InitTable ==
  ASSUME Init
  PROVE  TableState /\ TableTypes
<1>1. /\ file \in OldFiles /\ leaderboard = <<>> /\ results = {<<-k, file[k]>> : k \in DOMAIN file}
      /\ ~running /\ ~saving /\ faults = 0 /\ LastGame = 0 /\ saving = FALSE
  BY DEF Init, LastGame
<1>2. file \in Seq(Nat) /\ Len(file) <= MAX_LEADERBOARD /\ InOrder(file)
  BY <1>1, OldFilesAssumption
<1>3. /\ file \in Seq(Int) /\ Len(file) \in Nat /\ DOMAIN file = 1 .. Len(file)
      /\ \A k \in 1 .. Len(file) : file[k] \in Nat
  BY <1>2
<1> DEFINE id == [k \in 1 .. Len(file) |-> -k]
<1>4. \A k \in 1 .. Len(file) : <<-k, file[k]>> \in results
  BY <1>1, <1>3
<1>5. Behind(file, id, results, 0)
  BY <1>3, <1>4 DEF Behind
<1>6. Complete(file, id, results)
  <2> SUFFICES ASSUME NEW r \in results
               PROVE  \E i \in 1 .. Len(file) : r = <<id[i], file[i]>>
    BY DEF Complete
  <2>1. PICK k \in 1 .. Len(file) : r = <<-k, file[k]>>
    BY <1>1, <1>3
  <2> QED BY <2>1
<1>7. Full(file, results, 0) /\ Genuine(file, results, 0)
  BY <1>5, <1>6 DEF Full, Genuine
<1>8. Entered(file, results, 0, 0)
  <2> DEFINE S == WithCuts(results, {})
  <2>1. results \subseteq S
    BY MoreCuts
  <2>2. 0 \in Int /\ 0 <= 0 /\ 0 \in Nat
    OBVIOUS
  <2> HIDE DEF S
  <2>3. Genuine(file, S, 0)
    BY <1>7, <2>1, <2>2, GenuineLater
  <2>4. Table(file, S, 0)
    BY <1>2, <1>3, <2>3 DEF Table
  <2> QED BY <2>2, <2>4, NoCuts DEF Entered, S
<1>9. Entered(leaderboard, results, 0, 0)
  BY <1>1, EmptyTable
<1>10. IsFiniteSet(results)
  <2>1. IsFiniteSet(1 .. Len(file))
    BY <1>3, FS_Interval
  <2> DEFINE f == [k \in 1 .. Len(file) |-> <<-k, file[k]>>]
  <2>2. f \in [1 .. Len(file) -> results] /\ \A r \in results : \E k \in 1 .. Len(file) : f[k] = r
    BY <1>1, <1>3, <1>4
  <2>3. f \in Surjection(1 .. Len(file), results)
    BY <2>2 DEF Surjection
  <2> QED BY <2>1, <2>3, FS_Surjection
<1>11. results \subseteq Int \X Nat
  <2> SUFFICES ASSUME NEW r \in results PROVE r \in Int \X Nat
    OBVIOUS
  <2>1. PICK k \in 1 .. Len(file) : r = <<-k, file[k]>>
    BY <1>1, <1>3
  <2>2. -k \in Int /\ file[k] \in Nat
    BY <1>3
  <2> QED BY <2>1, <2>2
<1>12. TableState
  BY <1>1, <1>7, <1>8, <1>9, <1>10 DEF TableState
<1>13. leaderboard \in Seq(Int)
  BY <1>9, EnteredTable
<1>14. TableTypes
  BY <1>1, <1>3, <1>11, <1>13 DEF TableTypes
<1> QED BY <1>12, <1>14

(* The inductive invariant.                                                *)
IInv == TypeOK /\ ScoreExplained /\ WhilePlayed /\ TableState

BoardTypes == /\ board \in Boards /\ score \in Nat /\ fours \in Nat
              /\ gameOver \in BOOLEAN /\ win \in BOOLEAN
LoopTypes == /\ phase \in {"menu", "controls", "leaderboard", "play"}
             /\ selectedMenuItem \in 0 .. 3 /\ running \in BOOLEAN
             /\ starts \in Nat /\ games \in Nat

(* The types of the board, of the loop and of the table.                   *)
LEMMA TypesTogether == TypeOK <=> BoardTypes /\ LoopTypes /\ TableTypes
BY DEF TypeOK, BoardTypes, LoopTypes, TableTypes

(* The same after a step.                                                  *)
LEMMA TypesTogetherNext ==
  ASSUME BoardTypes', LoopTypes', TableTypes'
  PROVE  TypeOK'
BY DEF TypeOK, BoardTypes, LoopTypes, TableTypes

(* What leaves the board alone leaves right what is said of it, unless the *)
(* phase becomes that of a game that was not checked.                      *)
LEMMA BoardKept ==
  ASSUME IInv, UNCHANGED state, running' = running, phase' = "play" => phase = "play"
  PROVE  BoardTypes' /\ ScoreExplained' /\ WhilePlayed'
<1>1. /\ board' = board /\ score' = score /\ gameOver' = gameOver /\ win' = win /\ fours' = fours
  BY DEF state
<1>2. BoardTypes /\ ScoreExplained /\ WhilePlayed
  BY TypesTogether DEF IInv, WhilePlayed
<1>3. BoardTypes'
  BY <1>1, <1>2 DEF BoardTypes
<1>4. ScoreExplained'
  BY <1>1, <1>2 DEF ScoreExplained
<1>5. WhilePlayed'
  <2>1. Played(gameOver', board') <=> Played(gameOver, board)
    BY <1>1
  <2> QED BY <1>1, <1>2, <2>1 DEF WhilePlayed
<1> QED BY <1>3, <1>4, <1>5

(* What leaves the table alone leaves its types right.                     *)
LEMMA TableTypesKept ==
  ASSUME IInv, UNCHANGED table
  PROVE  TableTypes'
BY TypesTogether DEF IInv, table, TableTypes

(* What the invariant says of the loop and of the last game.               *)
LEMMA LoopIs ==
  ASSUME IInv
  PROVE  LoopTypes /\ TypeOK /\ TableState /\ TableTypes /\ LastGame \in Int /\ LastGame <= games
         /\ games \in Nat /\ (phase # "play" => LastGame = games)
<1>1. TypeOK /\ LoopTypes /\ TableTypes /\ TableState
  BY TypesTogether DEF IInv
<1> QED BY <1>1 DEF LoopTypes, LastGame

(* The invariant holds before the first start.                             *)
LEMMA InitIInv ==
  ASSUME Init
  PROVE  IInv
<1>1. NoTiles \in Boards /\ BoardWorth(NoTiles) = 0
  BY NoTilesBoard
<1>2. BoardTypes
  BY <1>1 DEF Init, BoardTypes
<1>3. LoopTypes
  <2>1. 0 \in 0 .. 3 /\ 0 \in Nat
    OBVIOUS
  <2> QED BY <2>1 DEF Init, LoopTypes
<1>4. ScoreExplained
  <2>1. score = 0 /\ fours = 0 /\ board = NoTiles
    BY DEF Init
  <2> QED BY <1>1, <2>1 DEF ScoreExplained
<1>5. WhilePlayed
  BY DEF Init, WhilePlayed
<1> QED BY <1>2, <1>3, <1>4, <1>5, InitTable, TypesTogether DEF IInv

(* The steps that change neither the board nor the table.                  *)
Wandering == \/ MenuUpDown \/ ShowControls \/ Back
             \/ UNCHANGED vars

(* Moving through the menus.                                               *)
LEMMA WanderingRight ==
  ASSUME IInv, Wandering
  PROVE  IInv'
<1>1. UNCHANGED state /\ UNCHANGED table /\ games' = games /\ running' = running
  BY DEF Wandering, MenuUpDown, ShowControls, Back, vars
<1>2. LoopTypes
  BY LoopIs
<1>3. LoopTypes' /\ (phase' = "play" => phase = "play") /\ (phase' # phase => LastGame = games /\ LastGame' = games)
  <2>1. CASE MenuUpDown
    <3>1. PICK step \in {-1, 1} : selectedMenuItem' = (selectedMenuItem + step + 4) % 4
      BY <2>1 DEF MenuUpDown
    <3>2. selectedMenuItem' \in 0 .. 3
      BY <1>2, <3>1 DEF LoopTypes
    <3> QED BY <1>2, <2>1, <3>2 DEF MenuUpDown, LoopTypes
  <2>2. CASE ShowControls
    BY <1>2, <2>2 DEF ShowControls, LoopTypes, LastGame
  <2>3. CASE Back
    BY <1>2, <2>3 DEF Back, LoopTypes, LastGame
  <2>4. CASE UNCHANGED vars
    BY <1>2, <2>4 DEF vars, LoopTypes
  <2> QED BY <2>1, <2>2, <2>3, <2>4 DEF Wandering
<1>4. LastGame \in Int /\ LastGame' \in Int /\ LastGame <= LastGame'
  <2>1. games \in Int
    BY <1>2 DEF LoopTypes
  <2> QED BY <1>1, <1>3, <2>1 DEF LastGame
<1>5. TypeOK /\ TableState
  BY DEF IInv
<1>6. TableState'
  BY <1>1, <1>4, <1>5, TableKept DEF table
<1>7. TypeOK'
  BY <1>1, <1>3, BoardKept, TableTypesKept, TypesTogetherNext
<1> QED BY <1>1, <1>3, <1>6, <1>7, BoardKept DEF IInv

(* A new game, from the menu or over the one that is played.               *)
LEMMA NewBoardRight ==
  ASSUME gameInit
  PROVE  BoardTypes' /\ ScoreExplained' /\ WhilePlayed'
<1>1. /\ board' \in Boards /\ score' = 0 /\ fours' \in Nat
      /\ gameOver' = FALSE /\ win' = FALSE
      /\ score' + 4 * fours' = BoardWorth(board')
      /\ Played(gameOver', board')
  BY NewBoard
<1>2. BoardTypes'
  BY <1>1 DEF BoardTypes
<1> QED BY <1>1, <1>2 DEF ScoreExplained, WhilePlayed

(* The game before the new one may be in the table, the new one not yet.   *)
LEMMA NewGameRight ==
  ASSUME IInv, NewGame \/ Restart
  PROVE  IInv'
<1>1. /\ gameInit /\ UNCHANGED table /\ running' = running /\ games' = games + 1
      /\ phase' = "play" /\ selectedMenuItem' = selectedMenuItem /\ starts' = starts
  BY DEF NewGame, Restart
<1>2. LoopTypes /\ TypeOK /\ TableState /\ games \in Nat /\ LastGame \in Int /\ LastGame <= games
  BY LoopIs
<1>3. LoopTypes'
  BY <1>1, <1>2 DEF LoopTypes
<1>4. LastGame' = games /\ games \in Int
  BY <1>1, <1>2 DEF LastGame
<1>5. TableState'
  <2>1. LastGame' \in Int /\ LastGame <= LastGame'
    BY <1>2, <1>4
  <2> QED BY <1>1, <1>2, <2>1, TableKept DEF table
<1>6. TypeOK'
  BY <1>1, <1>3, NewBoardRight, TableTypesKept, TypesTogetherNext
<1> QED BY <1>1, <1>5, <1>6, NewBoardRight DEF IInv

(* Loading the table, at a start or to look at it.                         *)
LEMMA LoadRight ==
  ASSUME IInv, ~saving, running', leaderboard' = loadLeaderboard, LastGame' = games,
         UNCHANGED <<file, saving, faults, results>>
  PROVE  TableState' /\ TableTypes'
<1>1. /\ TableState /\ TableTypes /\ LastGame \in Int /\ LastGame <= games /\ games \in Int
  BY LoopIs
<1>2. Entered(file, results, faults, LastGame)
  BY <1>1 DEF TableState
<1>3. leaderboard' = file
  BY <1>2, EnteredTable, LoadReads
<1> DEFINE l == LastGame
<1>4. IsFiniteSet(results) /\ (faults = 0 => Full(file, results, l))
  BY <1>1 DEF TableState
<1>5. /\ l \in Int /\ games \in Int /\ l <= games
      /\ faults \in Int /\ faults <= faults /\ results \subseteq results
  BY <1>1 DEF TableTypes
<1> HIDE DEF l
<1>6. Entered(file, results, faults, games)
  BY <1>2, <1>5, EnteredLater DEF l
<1>7. faults = 0 => Full(file, results, games)
  BY <1>4, <1>5, FullLater
<1>8. /\ Entered(leaderboard', results', faults', LastGame')
      /\ Entered(file', results', faults', LastGame')
      /\ faults' = 0 => Full(leaderboard', results', LastGame') /\ Full(file', results', LastGame')
  BY <1>3, <1>6, <1>7
<1>9. TableState'
  BY <1>3, <1>4, <1>8 DEF TableState
<1>10. TableTypes'
  BY <1>1, <1>3 DEF TableTypes
<1> QED BY <1>9, <1>10

(* A start reads the file, which is whole or had an accident.              *)
LEMMA StartRight ==
  ASSUME IInv, Start
  PROVE  IInv'
<1>1. /\ ~running /\ gameInit /\ leaderboard' = loadLeaderboard
      /\ phase' = "menu" /\ selectedMenuItem' = 0 /\ running' = TRUE
      /\ starts' = starts + 1 /\ games' = games
      /\ UNCHANGED <<file, saving, faults, results>>
  BY DEF Start
<1>2. LoopTypes /\ TableState
  BY LoopIs
<1>3. ~saving
  BY <1>1, <1>2 DEF TableState
<1>4. LoopTypes'
  <2>1. 0 \in 0 .. 3
    OBVIOUS
  <2> QED BY <1>1, <1>2, <2>1 DEF LoopTypes
<1>5. LastGame' = games
  BY <1>1 DEF LastGame
<1>6. TableState' /\ TableTypes'
  BY <1>1, <1>3, <1>5, LoadRight
<1>7. TypeOK'
  BY <1>1, <1>4, <1>6, NewBoardRight, TypesTogetherNext
<1> QED BY <1>1, <1>6, <1>7, NewBoardRight DEF IInv

(* Looking at the table reads the file again.                              *)
LEMMA ShowLeaderboardRight ==
  ASSUME IInv, ShowLeaderboard
  PROVE  IInv'
<1>1. /\ running /\ ~saving /\ leaderboard' = loadLeaderboard /\ phase' = "leaderboard"
      /\ UNCHANGED state /\ running' = running /\ starts' = starts /\ games' = games
      /\ selectedMenuItem' = selectedMenuItem
      /\ UNCHANGED <<file, saving, faults, results>>
  BY DEF ShowLeaderboard, Event
<1>2. LoopTypes'
  BY <1>1, LoopIs DEF LoopTypes
<1>3. LastGame' = games
  BY <1>1 DEF LastGame
<1>4. TableState' /\ TableTypes'
  BY <1>1, <1>3, LoadRight
<1>5. BoardTypes' /\ ScoreExplained' /\ WhilePlayed'
  BY <1>1, BoardKept
<1> QED BY <1>2, <1>4, <1>5, TypesTogetherNext DEF IInv

(* Writing the file.                                                       *)
LEMMA SaveRight ==
  ASSUME IInv, FinishSave
  PROVE  IInv'
<1>1. /\ UNCHANGED state
      /\ UNCHANGED <<phase, selectedMenuItem, running, starts, games>>
  BY DEF FinishSave
<1>2. TypeOK /\ TableState /\ LoopTypes
  BY LoopIs
<1>3. TableState' /\ TableTypes'
  BY <1>2, FinishSaveRight
<1>4. LoopTypes'
  BY <1>1, <1>2 DEF LoopTypes
<1>5. BoardTypes' /\ ScoreExplained' /\ WhilePlayed'
  BY <1>1, BoardKept
<1> QED BY <1>3, <1>4, <1>5, TypesTogetherNext DEF IInv

(* The keys of a game.                                                     *)
LEMMA IdleRight ==
  ASSUME IInv, IdleKey \/ Escape
  PROVE  IInv'
<1>1. /\ running /\ ~saving /\ phase = "play" /\ UNCHANGED <<board, score, gameOver, win, fours>>
      /\ UNCHANGED <<selectedMenuItem, running, starts, games>>
      /\ AfterKey("play") \/ AfterKey("menu")
  BY DEF IdleKey, Escape, Event
<1>2. TypeOK /\ TableState /\ LoopTypes /\ BoardTypes
  BY LoopIs, TypesTogether
<1>3. score' \in Nat
  BY <1>1, <1>2 DEF BoardTypes
<1>4. PICK here \in {"play", "menu"} : AfterKey(here)
  BY <1>1
<1>5. phase' \in {here, "leaderboard"} /\ TableState' /\ TableTypes'
  BY <1>1, <1>2, <1>3, <1>4, AfterKeyRight
<1>6. LoopTypes'
  BY <1>1, <1>2, <1>5 DEF LoopTypes
<1>7. BoardTypes' /\ ScoreExplained' /\ WhilePlayed'
  BY <1>1, BoardKept DEF state
<1> QED BY <1>5, <1>6, <1>7, TypesTogetherNext DEF IInv

(* A key that moves the tiles.                                             *)
LEMMA MoveKeyRight ==
  ASSUME IInv, NEW dir \in Directions, Move(dir)
  PROVE  IInv'
<1>1. /\ running /\ ~saving /\ phase = "play" /\ AfterKey("play")
      /\ UNCHANGED <<selectedMenuItem, running, starts, games>>
  BY DEF Move, Event
<1>2. TypeOK /\ TableState /\ LoopTypes /\ ScoreExplained
  BY LoopIs DEF IInv
<1>3. /\ board' \in Boards /\ score' \in Nat /\ fours' \in Nat
      /\ gameOver' \in BOOLEAN /\ win' \in BOOLEAN
      /\ score' + 4 * fours' = BoardWorth(board')
      /\ Played(gameOver', board')
  BY <1>2, MoveBoard
<1>4. /\ phase' \in {"play", "leaderboard"} /\ TableState' /\ TableTypes'
      /\ (phase' = "play" => win' \/ ~gameOver')
  BY <1>1, <1>2, <1>3, AfterKeyRight
<1>5. LoopTypes'
  BY <1>1, <1>2, <1>4 DEF LoopTypes
<1>6. BoardTypes' /\ ScoreExplained' /\ WhilePlayed'
  BY <1>3, <1>4 DEF BoardTypes, ScoreExplained, WhilePlayed
<1> QED BY <1>4, <1>5, <1>6, TypesTogetherNext DEF IInv

(* The end of the program.                                                 *)
LEMMA StopRight ==
  ASSUME IInv, Quit \/ Killed
  PROVE  IInv'
<1>1. /\ Stop /\ UNCHANGED <<file, results, starts, games>> /\ saving' = FALSE
      /\ \/ ~saving /\ faults' = faults
         \/ faults' = faults + 1
  <2>1. saving \in BOOLEAN
    BY LoopIs DEF TypeOK
  <2> QED BY <2>1 DEF Quit, Killed, Event
<1>2. /\ board' = NoTiles /\ score' = 0 /\ gameOver' = FALSE /\ win' = FALSE /\ fours' = 0
      /\ running' = FALSE /\ leaderboard' = <<>> /\ phase' = "menu" /\ selectedMenuItem' = 0
  BY <1>1 DEF Stop
<1>3. LoopTypes /\ TableTypes /\ TableState /\ LastGame \in Int /\ LastGame <= games /\ games \in Int
  BY LoopIs
<1>4. LastGame' = games
  BY <1>1, <1>2 DEF LastGame
<1>5. BoardTypes' /\ ScoreExplained' /\ WhilePlayed'
  <2>1. NoTiles \in Boards /\ BoardWorth(NoTiles) = 0
    BY NoTilesBoard
  <2>2. score' + 4 * fours' = 0 /\ score' \in Nat /\ fours' \in Nat
    BY <1>2
  <2> QED BY <1>2, <2>1, <2>2 DEF BoardTypes, ScoreExplained, WhilePlayed
<1>6. LoopTypes'
  <2>1. 0 \in 0 .. 3
    OBVIOUS
  <2> QED BY <1>1, <1>2, <1>3, <2>1 DEF LoopTypes
<1> DEFINE l == LastGame
<1>7. /\ Entered(file, results, faults, l) /\ IsFiniteSet(results)
      /\ faults = 0 /\ ~saving => Full(file, results, l)
      /\ faults \in Nat
  BY <1>3 DEF TableState, TableTypes
<1>8. l \in Int /\ games \in Int /\ l <= games
  BY <1>3
<1> HIDE DEF l
<1>9. faults' \in Nat /\ faults' \in Int /\ faults \in Int /\ faults <= faults'
  BY <1>1, <1>7
<1>10. /\ Entered(leaderboard', results', faults', LastGame')
       /\ Entered(file', results', faults', LastGame')
  <2> DEFINE n == faults'
  <2>1. results \subseteq results /\ n \in Int /\ n \in Nat /\ faults <= n
    BY <1>9
  <2> HIDE DEF n
  <2>2. Entered(file, results, n, games)
    BY <1>7, <1>8, <1>9, <2>1, EnteredLater
  <2>3. Entered(<<>>, results, n, games)
    BY <2>1, EmptyTable
  <2> QED BY <1>1, <1>2, <1>4, <2>2, <2>3 DEF n
<1>11. faults' = 0 => Full(file', results', LastGame')
  <2>1. faults' = 0 => faults = 0 /\ ~saving
    BY <1>1, <1>7
  <2>2. Full(file, results, l) => Full(file, results, games)
    BY <1>8, FullLater
  <2> QED BY <1>1, <1>4, <1>7, <2>1, <2>2
<1>12. TableState'
  BY <1>1, <1>2, <1>7, <1>10, <1>11 DEF TableState
<1>13. TableTypes'
  <2>1. results' \subseteq Int \X Nat
    BY <1>1, <1>3 DEF TableTypes
  <2>2. leaderboard' \in Seq(Int) /\ file' \in Seq(Int)
    BY <1>10, EnteredTable
  <2> QED BY <1>1, <1>9, <2>1, <2>2 DEF TableTypes
<1> QED BY <1>5, <1>6, <1>12, <1>13, TypesTogetherNext DEF IInv

-----------------------------------------------------------------------------
(* The games of a table: every entry is the result of one or what is left  *)
(* of it.                                                                  *)
Of(k, r, t, id, C) == r[1] = id[k] /\ (t[k] = r[2] \/ (id[k] \in C /\ t[k] \in Leading[r[2]]))

HasGames(t, R, n) ==
  \E g \in [DOMAIN t -> R] :
    /\ \A k \in DOMAIN t : t[k] \in {g[k][2]} \union Leading[g[k][2]]
    /\ \A j, k \in DOMAIN t : g[j][1] = g[k][1] => j = k
    /\ Cardinality({k \in DOMAIN t : t[k] # g[k][2]}) <= n

LEMMA EnteredGames ==
  ASSUME NEW t, NEW R, R \subseteq Int \X Nat, NEW n \in Nat, NEW l, Entered(t, R, n, l)
  PROVE  HasGames(t, R, n)
<1>1. PICK C : AtMost(C, n) /\ Table(t, WithCuts(R, C), l)
  BY DEF Entered
<1>2. t \in Seq(Int) /\ Len(t) \in Nat /\ DOMAIN t = 1 .. Len(t)
  BY <1>1 DEF Table
<1>3. PICK id : Behind(t, id, WithCuts(R, C), l)
  BY <1>1 DEF Table, Genuine
<1>4. ASSUME NEW k \in DOMAIN t PROVE \E r \in R : Of(k, r, t, id, C)
  <2>1. <<id[k], t[k]>> \in WithCuts(R, C)
    BY <1>2, <1>3 DEF Behind
  <2> DEFINE e == <<id[k], t[k]>>
  <2>2. e[1] = id[k] /\ e[2] = t[k]
    OBVIOUS
  <2> HIDE DEF e
  <2>3. e \in R \/ (e[1] \in C /\ \E r \in R : r[1] = e[1] /\ e[2] \in Leading[r[2]])
    BY <2>1 DEF WithCuts, e
  <2> QED BY <2>2, <2>3 DEF Of
<1> DEFINE g == [k \in DOMAIN t |-> CHOOSE r \in R : Of(k, r, t, id, C)]
           K == {k \in DOMAIN t : t[k] # g[k][2]}
           h == [k \in K |-> id[k]]
<1>5. \A k \in DOMAIN t : g[k] \in R /\ Of(k, g[k], t, id, C)
  BY <1>4
<1>6. g \in [DOMAIN t -> R]
  <2>1. g = [k \in DOMAIN t |-> g[k]]
    OBVIOUS
  <2> HIDE DEF g
  <2> QED BY <1>5, <2>1
<1> HIDE DEF g
<1>7. \A k \in DOMAIN t : /\ g[k][1] = id[k] /\ t[k] \in {g[k][2]} \union Leading[g[k][2]]
                          /\ (t[k] # g[k][2] => id[k] \in C)
  BY <1>5 DEF Of
<1>8. \A j, k \in DOMAIN t : id[j] = id[k] => j = k
  BY <1>2, <1>3 DEF Behind
<1>9. h \in Injection(K, C)
  <2>1. \A k \in K : k \in DOMAIN t /\ id[k] \in C
    BY <1>7
  <2>2. \A j, k \in K : h[j] = h[k] => j = k
    BY <1>8, <2>1
  <2>3. h \in [K -> C]
    BY <2>1
  <2> HIDE DEF h, K
  <2> QED BY <2>2, <2>3 DEF Injection, IsInjective
<1>10. Cardinality(K) <= n
  <2>1. IsFiniteSet(C) /\ Cardinality(C) <= n
    BY <1>1 DEF AtMost
  <2> HIDE DEF h, K
  <2>2. IsFiniteSet(K) /\ Cardinality(K) <= Cardinality(C)
    BY <1>9, <2>1, FS_Injection
  <2>3. Cardinality(K) \in Nat /\ Cardinality(C) \in Nat
    BY <2>1, <2>2, FS_CardinalityType
  <2> QED BY <2>1, <2>2, <2>3
<1> HIDE DEF h
<1> QED BY <1>6, <1>7, <1>8, <1>10 DEF HasGames

(* A full table in order holds the best results.                           *)
LEMMA FullIsBest ==
  ASSUME NEW t, NEW l, IsFiniteSet(results), results \subseteq Int \X Int,
         t \in Seq(Int), Len(t) <= MAX_LEADERBOARD, InOrder(t), Full(t, results, l)
  PROVE  Best(t)
<1> DEFINE R == results
           M == MAX_LEADERBOARD
<1>1. /\ t \in Seq(Int) /\ InOrder(t) /\ Len(t) \in Nat /\ Len(t) <= M /\ M \in Nat
      /\ DOMAIN t = 1 .. Len(t) /\ \A k \in 1 .. Len(t) : t[k] \in Int
  BY GameAssumption
<1>2. PICK id : Behind(t, id, R, l) /\ Complete(t, id, R)
  BY DEF Full
<1> DEFINE h == [i \in 1 .. Len(t) |-> <<id[i], t[i]>>]
<1>3. Cardinality(R) \in Nat
  BY FS_CardinalityType
<1>4. h \in Injection(1 .. Len(t), R)
  <2>1. h \in [1 .. Len(t) -> R]
    BY <1>2 DEF Behind
  <2>2. \A i, j \in 1 .. Len(t) : h[i] = h[j] => i = j
    BY <1>2 DEF Behind
  <2> HIDE DEF h
  <2> QED BY <2>1, <2>2 DEF Injection, IsInjective
<1>5. Len(t) = Min({M, Cardinality(R)})
  <2>1. /\ Cardinality(1 .. Len(t)) <= Cardinality(R)
        /\ Cardinality(1 .. Len(t)) = Cardinality(R) <=> h \in Surjection(1 .. Len(t), R)
    <3> HIDE DEF h
    <3> QED BY <1>4, FS_Injection
  <2>2. Cardinality(1 .. Len(t)) = Len(t)
    BY <1>1, CountUpto
  <2>3. Len(t) < M => Len(t) = Cardinality(R)
    <3> HAVE Len(t) < M
    <3>1. \A r \in R : \E i \in 1 .. Len(t) : h[i] = r
      <4> TAKE r \in R
      <4>1. PICK i \in 1 .. Len(t) : r = <<id[i], t[i]>>
        <5>1. (\E i \in 1 .. Len(t) : r = <<id[i], t[i]>>) \/ Len(t) = M
          BY <1>2 DEF Complete
        <5>2. Len(t) # M
          <6>1. Len(t) \in Int /\ M \in Int
            BY <1>1
          <6> HIDE DEF M
          <6> QED BY <6>1
        <5> QED BY <5>1, <5>2
      <4> QED BY <4>1
    <3>2. h \in [1 .. Len(t) -> R]
      BY <1>4 DEF Injection
    <3> HIDE DEF h
    <3>3. h \in Surjection(1 .. Len(t), R)
      BY <3>1, <3>2 DEF Surjection
    <3> QED BY <2>1, <2>2, <3>3
  <2>4. M \in Int /\ Cardinality(R) \in Int
    BY <1>1, <1>3
  <2>5. Min({M, Cardinality(R)}) = IF M <= Cardinality(R) THEN M ELSE Cardinality(R)
    BY <2>4, MinOfTwo
  <2> QED BY <1>1, <1>3, <2>1, <2>2, <2>3, <2>5
<1>6. ASSUME NEW k \in 1 .. Len(t)
      PROVE  Cardinality({r \in R : r[2] >= t[k]}) >= k
  <2> DEFINE Q == {r \in R : r[2] >= t[k]}
             f == [i \in 1 .. k |-> <<id[i], t[i]>>]
  <2>1. IsFiniteSet(Q)
    BY FS_Subset
  <2>2. 1 .. k \subseteq 1 .. Len(t)
    BY <1>1
  <2>3. ASSUME NEW i \in 1 .. k PROVE <<id[i], t[i]>> \in Q
    <3>1. i \in 1 .. Len(t) /\ i <= k
      BY <1>1
    <3>2. t[i] >= t[k]
      BY <1>1, <3>1, InOrderAll
    <3> QED BY <1>2, <3>1, <3>2 DEF Behind
  <2>4. f \in Injection(1 .. k, Q)
    <3>1. \A i, j \in 1 .. k : f[i] = f[j] => i = j
      BY <1>2, <2>2 DEF Behind
    <3>2. f \in [1 .. k -> Q]
      BY <2>3
    <3> HIDE DEF f, Q
    <3> QED BY <3>1, <3>2 DEF Injection, IsInjective
  <2>5. Cardinality(1 .. k) = k
    BY <1>1, CountUpto
  <2> HIDE DEF Q, f
  <2>6. Cardinality(1 .. k) <= Cardinality(Q) /\ Cardinality(Q) \in Nat
    BY <2>1, <2>4, FS_Injection, FS_CardinalityType
  <2>7. Cardinality(Q) >= k
    BY <1>1, <2>5, <2>6
  <2> QED BY <2>7 DEF Q
<1>7. ASSUME NEW k \in 1 .. Len(t)
      PROVE  Cardinality({r \in R : r[2] > t[k]}) < k
  <2> DEFINE Q == {r \in R : r[2] > t[k]}
             U == {<<id[i], t[i]>> : i \in 1 .. k - 1}
             f == [i \in 1 .. k - 1 |-> <<id[i], t[i]>>]
  <2>1. f \in Surjection(1 .. k - 1, U)
    BY DEF Surjection
  <2>2. IsFiniteSet(1 .. k - 1) /\ Cardinality(1 .. k - 1) = k - 1
    <3>1. k - 1 \in Nat
      BY <1>1
    <3> QED BY <3>1, CountUpto
  <2>3. ASSUME NEW r \in Q PROVE r \in U
    <3>1. r \in R /\ r[2] > t[k] /\ r[2] \in Int /\ t[k] \in Int /\ k \in Int
      BY <1>1
    <3>2. CASE \E i \in 1 .. Len(t) : r = <<id[i], t[i]>>
      <4>1. PICK i \in 1 .. Len(t) : r = <<id[i], t[i]>>
        BY <3>2
      <4>2. t[i] > t[k] /\ t[i] \in Int
        BY <1>1, <3>1, <4>1
      <4>3. k <= i => t[k] >= t[i]
        BY <1>1, InOrderAll
      <4>4. i \in 1 .. k - 1
        BY <3>1, <4>2, <4>3
      <4> QED BY <4>1, <4>4
    <3>3. CASE Len(t) = M /\ t[M] >= r[2]
      <4>1. M \in 1 .. Len(t) /\ k <= M
        BY <1>1, <3>3
      <4>2. t[k] >= t[M] /\ t[M] \in Int
        BY <1>1, <4>1, InOrderAll
      <4> QED BY <3>1, <3>3, <4>2
    <3> QED BY <1>2, <3>1, <3>2, <3>3 DEF Complete
  <2> HIDE DEF Q, U, f
  <2>4. IsFiniteSet(U) /\ Cardinality(U) <= k - 1
    BY <2>1, <2>2, FS_Surjection
  <2>5. IsFiniteSet(Q) /\ Cardinality(Q) <= Cardinality(U)
    <3>1. Q \in SUBSET U
      BY <2>3
    <3> QED BY <2>4, <3>1, FS_Subset
  <2>6. Cardinality(Q) \in Nat /\ Cardinality(U) \in Nat
    BY <2>4, <2>5, FS_CardinalityType
  <2>7. Cardinality(Q) < k
    BY <2>4, <2>5, <2>6
  <2> QED BY <2>7 DEF Q
<1> QED BY <1>1, <1>5, <1>6, <1>7 DEF Best, KthBest

-----------------------------------------------------------------------------
(* A board with a tile is stuck exactly when gameCanMove says so.          *)
LEMMA StuckIs ==
  ASSUME NEW over, NEW b \in Boards, Played(over, b)
  PROVE  over <=> Immovable(b)
<1>1. (over <=> ~gameCanMove(b)) /\ \E c \in Cells : Tile(b, c) # 0
  BY DEF Played, HasTile
<1>2. ~gameCanMove(b) <=> \A dir \in Directions : Moved(dir, b).board = b
  BY <1>1, CanMoveIsRight
<1> QED BY <1>1, <1>2 DEF Immovable

(* The invariant is inductive: one step per action.                        *)
LEMMA StepKeeps ==
  ASSUME IInv, [Next]_vars
  PROVE  IInv'
<1>1. CASE Start
  BY <1>1, StartRight
<1>2. CASE FinishSave
  BY <1>2, SaveRight
<1>3. CASE MenuUpDown \/ ShowControls \/ Back \/ UNCHANGED vars
  BY <1>3, WanderingRight DEF Wandering
<1>4. CASE NewGame \/ Restart
  BY <1>4, NewGameRight
<1>5. CASE ShowLeaderboard
  BY <1>5, ShowLeaderboardRight
<1>6. ASSUME NEW dir \in Directions, Move(dir) PROVE IInv'
  BY <1>6, MoveKeyRight
<1>7. CASE IdleKey \/ Escape
  BY <1>7, IdleRight
<1>8. CASE Quit \/ Killed
  BY <1>8, StopRight
<1> QED BY <1>1, <1>2, <1>3, <1>4, <1>5, <1>6, <1>7, <1>8 DEF Next

(* The invariant holds in every reachable state.                           *)
LEMMA Invariant == Spec => []IInv
<1>1. Init => IInv
  BY InitIInv
<1>2. IInv /\ [Next]_vars => IInv'
  BY StepKeeps
<1> QED BY <1>1, <1>2, PTL DEF Spec

(* Every variable keeps its type: the board stays SIZE by SIZE, the score  *)
(* does not go below zero, entries of the table are numbers.               *)
THEOREM TypesHold == Spec => []TypeOK
<1>1. IInv => TypeOK
  BY DEF IInv
<1> QED BY <1>1, Invariant, PTL

(* Every row of four slides as the reference says (game.c:55-87): what     *)
(* RowSlides shows of a row of any length.                                 *)
THEOREM RowsSlideHolds == Spec => []RowsSlide
<1>1. RowsSlide
  <2> SUFFICES ASSUME NEW row \in [1 .. 4 -> {0, 2, 4, 8}]
               PROVE  LET slid == moveRowLeft(row)
                      IN  slid.row = SlideRef(row) /\ RowWorth(slid.row) = RowWorth(row) + slid.gained
    BY DEF RowsSlide
  <2>1. row \in Seq(Values)
    <3>1. 0 \in Values /\ 2 \in Values /\ 4 \in Values /\ 8 \in Values
      BY DEF Values
    <3>2. \A k \in 1 .. 4 : row[k] \in Values
      <4> TAKE k \in 1 .. 4
      <4>1. row[k] \in {0, 2, 4, 8}
        OBVIOUS
      <4> QED BY <3>1, <4>1
    <3>3. row \in [1 .. 4 -> Values]
      BY <3>2
    <3> DEFINE n == 4
    <3>4. n \in Nat /\ row \in [1 .. n -> Values]
      BY <3>3
    <3> HIDE DEF n
    <3> QED BY <3>4
  <2> QED BY <2>1, RowSlides
<1> QED BY <1>1, PTL

(* For a board of any size, in every reachable state the score is what the *)
(* tiles on the board have earned, less 4 for every four that was given    *)
(* (game.c:66-78, 89-153).                                                 *)
THEOREM ScoreExplainedHolds == Spec => []ScoreExplained
<1>1. IInv => ScoreExplained
  BY DEF IInv
<1> QED BY <1>1, Invariant, PTL

(* For a board of any size, a game is flagged as over exactly when no      *)
(* direction would change the board (game.c:155-187), goes to the table    *)
(* only when it is won or stuck, and is not played on when it is stuck and *)
(* was not won (2048.c:145-158).                                           *)
THEOREM OverIsStuckHolds == Spec => OverIsStuck
<1> DEFINE Flagged == running => (gameOver <=> Immovable(board))
           GoesOn == running /\ phase = "play" => win \/ ~Immovable(board)
           Leaves == phase = "play" /\ phase' = "leaderboard" => win' \/ Immovable(board')
<1>1. IInv => Flagged /\ GoesOn
  <2> SUFFICES ASSUME IInv, running
               PROVE  /\ gameOver <=> Immovable(board)
                      /\ phase = "play" => win \/ ~Immovable(board)
    OBVIOUS
  <2>1. board \in Boards /\ Played(gameOver, board) /\ (phase = "play" => win \/ ~gameOver)
    BY DEF IInv, TypeOK, WhilePlayed
  <2>2. gameOver <=> Immovable(board)
    BY <2>1, StuckIs
  <2> QED BY <2>1, <2>2
<1>2. IInv /\ IInv' /\ [Next]_vars => [Leaves]_vars
  <2> SUFFICES ASSUME IInv', Next, phase = "play", phase' = "leaderboard"
               PROVE  win' \/ Immovable(board')
    OBVIOUS
  <2>1. running' /\ \E here \in {"play", "menu"} : AfterKey(here)
    <3>1. ASSUME NEW dir \in Directions, Move(dir)
          PROVE  running' /\ \E here \in {"play", "menu"} : AfterKey(here)
      BY <3>1 DEF Move, Event
    <3>2. CASE IdleKey
      BY <3>2 DEF IdleKey, Event
    <3>3. CASE Escape
      BY <3>3 DEF Escape, Event
    <3>4. ~(\/ Start \/ FinishSave \/ MenuUpDown \/ NewGame \/ ShowControls \/ ShowLeaderboard
            \/ Back \/ Restart \/ Quit \/ Killed)
      BY DEF Start, FinishSave, MenuUpDown, NewGame, ShowControls, ShowLeaderboard, Back, Restart,
             Quit, Killed, Stop
    <3> QED BY <3>1, <3>2, <3>3, <3>4 DEF Next
  <2>2. win' \/ gameOver'
    BY <2>1 DEF AfterKey
  <2>3. board' \in Boards /\ Played(gameOver', board')
    BY <2>1 DEF IInv, TypeOK, WhilePlayed
  <2> QED BY <2>2, <2>3, StuckIs
<1> QED BY <1>1, <1>2, Invariant, PTL DEF Spec, OverIsStuck

(* For a table of any length, any number of games and of starts: while     *)
(* nothing goes wrong in saving, the table and its file hold the best      *)
(* results of all games (leaderboard.c:80-103).                            *)
THEOREM TableIsBestHolds == Spec => []TableIsBest
<1>1. IInv => TableIsBest
  <2> SUFFICES ASSUME IInv, faults = 0
               PROVE  (~saving => Best(file)) /\ (running => Best(leaderboard))
    BY DEF TableIsBest
  <2>1. TableState /\ results \subseteq Int \X Int
    BY DEF IInv, TypeOK
  <2>2. /\ IsFiniteSet(results)
        /\ leaderboard \in Seq(Int) /\ Len(leaderboard) <= MAX_LEADERBOARD /\ InOrder(leaderboard)
        /\ file \in Seq(Int) /\ Len(file) <= MAX_LEADERBOARD /\ InOrder(file)
        /\ (~saving => Full(file, results, LastGame))
        /\ (running => Full(leaderboard, results, LastGame))
    BY <2>1, EnteredTable DEF TableState
  <2> QED BY <2>1, <2>2, FullIsBest
<1> QED BY <1>1, Invariant, PTL

(* For a table of any length, whatever goes wrong in saving: the table and *)
(* the file are in order, every entry is the result of a game of its own,  *)
(* but for one entry for each time saving went wrong, of which the digits  *)
(* it starts with are left (2048.c:145-158, leaderboard.c:67-103).         *)
THEOREM NothingInventedHolds == Spec => []NothingInvented
<1>1. IInv => NothingInvented
  <2> SUFFICES ASSUME IInv, NEW t \in {file, leaderboard}
               PROVE  InOrder(t) /\ HasGames(t, results, faults)
    BY DEF NothingInvented, HasGames
  <2>1. results \subseteq Int \X Nat /\ faults \in Nat /\ Entered(t, results, faults, LastGame)
    BY DEF IInv, TypeOK, TableState
  <2> QED BY <2>1, EnteredTable, EnteredGames
<1> QED BY <1>1, Invariant, PTL
=============================================================================
