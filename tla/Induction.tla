------------------------------ MODULE Induction ------------------------------
(***************************************************************************)
(* Induction over the natural numbers and definition by recursion, stated  *)
(* with sets and functions only, so that every prover can instantiate it:  *)
(* a predicate is the set of the numbers that satisfy it, the step of a    *)
(* recursion is a function.                                                *)
(***************************************************************************)
EXTENDS Integers, WellFoundedInduction, TLAPS

(* Every non-empty set of natural numbers has a least element.             *)
LEMMA LeastNat ==
  ASSUME NEW T, T \subseteq Nat, T # {}
  PROVE  \E x \in T : \A y \in T : x <= y
<1>1. OpToRel(<, Nat) = {p \in Nat \X Nat : p[1] < p[2]}
  BY Zenon DEF OpToRel
<1>2. IsWellFoundedOn({p \in Nat \X Nat : p[1] < p[2]}, Nat)
  BY <1>1, NatLessThanWellFounded, Zenon
<1>3. PICK x \in T : \A y \in T : <<y, x>> \notin {p \in Nat \X Nat : p[1] < p[2]}
  BY <1>2, WFMin
<1>4. ASSUME NEW y \in T PROVE x <= y
  <2>1. x \in Nat /\ y \in Nat
    BY <1>3
  <2>2. ~(y < x)
    BY <1>3, <2>1
  <2> QED BY <2>1, <2>2
<1> QED BY <1>3, <1>4

(* Induction: the least number that is not in T would be 0 or a successor. *)
LEMMA NatInductionSet ==
  ASSUME NEW T, 0 \in T, \A n \in Nat : n \in T => n + 1 \in T
  PROVE  \A n \in Nat : n \in T
<1> SUFFICES ASSUME \E n \in Nat : n \notin T PROVE FALSE
  OBVIOUS
<1> DEFINE Out == {n \in Nat : n \notin T}
<1>1. PICK m \in Out : \A k \in Out : m <= k
  <2>1. Out \subseteq Nat /\ Out # {}
    OBVIOUS
  <2> HIDE DEF Out
  <2> QED BY <2>1, LeastNat
<1>2. m \in Nat /\ m # 0
  BY <1>1
<1>3. m - 1 \in Nat /\ m - 1 \notin Out
  BY <1>1, <1>2
<1> QED BY <1>1, <1>2, <1>3

(* Recursion: for a first value and a step there is a function that starts *)
(* with the one and goes on with the other, as far as one likes.           *)
Steps(n, V) == [(1 .. n) \X V -> V]
Recursion(g, n, V, b, h) ==
  g \in [0 .. n -> V] /\ g[0] = b /\ \A i \in 1 .. n : g[i] = h[<<i, g[i - 1]>>]

LEMMA RecursionExists ==
  ASSUME NEW n \in Nat, NEW V, NEW b \in V, NEW h \in Steps(n, V)
  PROVE  \E g : Recursion(g, n, V, b, h)
<1>h. h \in [(1 .. n) \X V -> V]
  BY DEF Steps
<1> DEFINE Upto(m) == \E g \in [0 .. m -> V] :
                        g[0] = b /\ \A i \in 1 .. m : g[i] = h[<<i, g[i - 1]>>]
           T == {m \in Nat : m <= n => Upto(m)}
<1>1. Upto(0)
  <2> DEFINE g == [i \in 0 .. 0 |-> b]
  <2>1. g \in [0 .. 0 -> V] /\ g[0] = b
    OBVIOUS
  <2>2. 1 .. 0 = {}
    OBVIOUS
  <2> QED BY <2>1, <2>2
<1>2. ASSUME NEW m \in Nat, m < n, Upto(m) PROVE Upto(m + 1)
  <2>1. PICK g \in [0 .. m -> V] : g[0] = b /\ \A i \in 1 .. m : g[i] = h[<<i, g[i - 1]>>]
    BY <1>2
  <2>2. m + 1 \in 1 .. n /\ g[m] \in V
    BY <1>2, <2>1
  <2>3. h[<<m + 1, g[m]>>] \in V
    BY <2>2, <1>h
  <2> DEFINE f == [i \in 0 .. (m + 1) |-> IF i = m + 1 THEN h[<<m + 1, g[m]>>] ELSE g[i]]
  <2>4. f \in [0 .. (m + 1) -> V] /\ f[0] = b
    BY <2>1, <2>3
  <2>5. ASSUME NEW i \in 1 .. (m + 1) PROVE f[i] = h[<<i, f[i - 1]>>]
    <3>1. CASE i = m + 1
      <4>1. f[i] = h[<<m + 1, g[m]>>] /\ f[i - 1] = g[m] /\ i = m + 1
        BY <3>1
      <4> QED BY <4>1
    <3>2. CASE i # m + 1
      <4>1. i \in 1 .. m
        BY <3>2
      <4>2. f[i] = g[i] /\ f[i - 1] = g[i - 1]
        BY <4>1
      <4> QED BY <2>1, <4>1, <4>2
    <3> QED BY <3>1, <3>2
  <2> HIDE DEF f
  <2> QED BY <2>4, <2>5
<1>3. 0 \in T
  BY <1>1
<1>4. ASSUME NEW m \in Nat, m \in T PROVE m + 1 \in T
  BY <1>2, <1>4
<1> HIDE DEF T
<1>5. n \in T
  BY <1>3, <1>4, NatInductionSet
<1> QED BY <1>5 DEF T, Recursion

(* Recursion by descent: what a function is at v follows from what it is   *)
(* at the smaller number d[v], down to the numbers that are at most b.     *)
Descent(f, n, V, b, z, d, h) ==
  /\ f \in [0 .. n -> V]
  /\ \A v \in 0 .. n : f[v] = IF v <= b THEN z ELSE h[<<v, f[d[v]]>>]
Descends(d, b) == d \in [Nat -> Nat] /\ \A v \in Nat : v > b => d[v] \in 0 .. v - 1
Downward(V) == [Nat \X V -> V]

(* There is such a function as far as any number.                          *)
LEMMA DescentUpto ==
  ASSUME NEW V, NEW b \in Nat, NEW z \in V, NEW d, Descends(d, b), NEW h \in Downward(V)
  PROVE  \A n \in Nat : \E f : Descent(f, n, V, b, z, d, h)
<1>h. \A p \in Nat \X V : h[p] \in V
  BY DEF Downward
<1> DEFINE T == {n \in Nat : \E f : Descent(f, n, V, b, z, d, h)}
<1>1. 0 \in T
  <2> DEFINE g == [v \in 0 .. 0 |-> z]
  <2>1. Descent(g, 0, V, b, z, d, h)
    BY DEF Descent
  <2> QED BY <2>1
<1>2. ASSUME NEW n \in Nat, n \in T PROVE n + 1 \in T
  <2>1. PICK f : Descent(f, n, V, b, z, d, h)
    BY <1>2
  <2>2. /\ \A v \in 0 .. n : f[v] \in V
        /\ \A v \in 0 .. n : f[v] = IF v <= b THEN z ELSE h[<<v, f[d[v]]>>]
    BY <2>1 DEF Descent
  <2>3. \A v \in 0 .. n + 1 : v > b => d[v] \in 0 .. n
    BY DEF Descends
  <2> DEFINE x == IF n + 1 <= b THEN z ELSE h[<<n + 1, f[d[n + 1]]>>]
             g == [v \in 0 .. n + 1 |-> IF v = n + 1 THEN x ELSE f[v]]
  <2>4. x \in V
    <3>1. CASE n + 1 <= b
      BY <3>1
    <3>2. CASE n + 1 > b
      <4>1. d[n + 1] \in 0 .. n
        BY <2>3, <3>2
      <4>2. <<n + 1, f[d[n + 1]]>> \in Nat \X V
        BY <2>2, <4>1
      <4> QED BY <1>h, <3>2, <4>2
    <3> QED BY <3>1, <3>2
  <2>5. \A v \in 0 .. n : v \in 0 .. n + 1 /\ v # n + 1 /\ g[v] = f[v]
    OBVIOUS
  <2>6. g[n + 1] = x /\ \A v \in 0 .. n + 1 : v # n + 1 => v \in 0 .. n
    OBVIOUS
  <2>7. g \in [0 .. n + 1 -> V]
    <3>1. \A v \in 0 .. n + 1 : g[v] \in V
      BY <2>2, <2>4, <2>5, <2>6
    <3> QED BY <3>1
  <2> HIDE DEF g
  <2>8. ASSUME NEW v \in 0 .. n + 1
        PROVE  g[v] = IF v <= b THEN z ELSE h[<<v, g[d[v]]>>]
    <3>1. v > b => g[d[v]] = f[d[v]]
      BY <2>3, <2>5
    <3>2. CASE v = n + 1
      BY <2>6, <3>1, <3>2
    <3>3. CASE v # n + 1
      <4>1. v \in 0 .. n
        BY <2>6, <3>3
      <4>2. g[v] = f[v]
        BY <2>5, <4>1
      <4>3. f[v] = IF v <= b THEN z ELSE h[<<v, f[d[v]]>>]
        BY <2>2, <4>1
      <4> QED BY <3>1, <4>2, <4>3
    <3> QED BY <3>2, <3>3
  <2>9. Descent(g, n + 1, V, b, z, d, h)
    BY <2>7, <2>8 DEF Descent
  <2> QED BY <2>9
<1> HIDE DEF T
<1>3. \A n \in Nat : n \in T
  BY <1>1, <1>2, NatInductionSet
<1> QED BY <1>3 DEF T

(* Two such functions agree as far as both go: they would differ at a least*)
(* number first, and there both follow from what is before.                *)
LEMMA DescentAgree ==
  ASSUME NEW V, NEW b \in Nat, NEW z, NEW d, Descends(d, b), NEW h,
         NEW m \in Nat, NEW n \in Nat, NEW f, NEW g,
         Descent(f, m, V, b, z, d, h), Descent(g, n, V, b, z, d, h),
         NEW k \in Nat, k <= m, k <= n
  PROVE  f[k] = g[k]
<1> DEFINE D == {v \in Nat : v <= m /\ v <= n /\ f[v] # g[v]}
<1> SUFFICES ASSUME k \in D PROVE FALSE
  OBVIOUS
<1>1. PICK v \in D : \A w \in D : v <= w
  <2>1. D \subseteq Nat /\ D # {}
    OBVIOUS
  <2> HIDE DEF D
  <2> QED BY <2>1, LeastNat
<1>2. v \in 0 .. m /\ v \in 0 .. n /\ v \in Nat /\ f[v] # g[v]
  BY <1>1
<1>3. /\ f[v] = IF v <= b THEN z ELSE h[<<v, f[d[v]]>>]
      /\ g[v] = IF v <= b THEN z ELSE h[<<v, g[d[v]]>>]
  BY <1>2 DEF Descent
<1>4. v > b
  BY <1>2, <1>3
<1>5. d[v] \in 0 .. v - 1
  BY <1>2, <1>4 DEF Descends
<1>6. d[v] \notin D
  BY <1>1, <1>2, <1>5
<1>7. f[d[v]] = g[d[v]]
  BY <1>2, <1>5, <1>6
<1> QED BY <1>2, <1>3, <1>4, <1>7

(* So there is one for all numbers.                                        *)
LEMMA DescentExists ==
  ASSUME NEW V, NEW b \in Nat, NEW z \in V, NEW d, Descends(d, b), NEW h \in Downward(V)
  PROVE  \E f \in [Nat -> V] :
           \A v \in Nat : f[v] = IF v <= b THEN z ELSE h[<<v, f[d[v]]>>]
<1> DEFINE F(n) == CHOOSE f : Descent(f, n, V, b, z, d, h)
           W == [v \in Nat |-> F(v)[v]]
<1>1. \A n \in Nat : Descent(F(n), n, V, b, z, d, h)
  BY DescentUpto
<1> HIDE DEF F
<1>2. \A v \in Nat : /\ F(v)[v] \in V
                     /\ F(v)[v] = IF v <= b THEN z ELSE h[<<v, F(v)[d[v]]>>]
  <2> TAKE v \in Nat
  <2>1. v \in 0 .. v /\ Descent(F(v), v, V, b, z, d, h)
    BY <1>1
  <2> QED BY <2>1 DEF Descent
<1>3. W \in [Nat -> V]
  BY <1>2
<1>4. ASSUME NEW v \in Nat PROVE W[v] = IF v <= b THEN z ELSE h[<<v, W[d[v]]>>]
  <2>1. CASE v <= b
    BY <1>2, <2>1
  <2>2. CASE v > b
    <3> DEFINE k == d[v]
    <3>1. k \in 0 .. v - 1
      BY <2>2 DEF Descends
    <3> HIDE DEF k
    <3>2. k \in Nat /\ k <= v /\ k <= k
      BY <3>1
    <3>3. F(v)[k] = F(k)[k]
      BY <1>1, <3>2, DescentAgree
    <3>4. W[k] = F(k)[k] /\ W[v] = F(v)[v]
      BY <3>2
    <3>5. F(v)[v] = h[<<v, F(v)[k]>>]
      BY <1>2, <2>2 DEF k
    <3> QED BY <2>2, <3>3, <3>4, <3>5 DEF k
  <2> QED BY <2>1, <2>2
<1> HIDE DEF W
<1> QED BY <1>3, <1>4
=============================================================================
