---------------------------- MODULE LogAudit_proofs ----------------------------
(***************************************************************************)
(* Proofs about Merkle and LogAudit, for trees of every size.  The code's  *)
(* recursions are reasoned about by strong induction on the size of the    *)
(* tree.                                                                   *)
(***************************************************************************)
EXTENDS LogAudit, WellFoundedInduction, TLAPS

\* A non-empty set of naturals has a least element.
LEMMA LeastNat ==
  ASSUME NEW T, T \subseteq Nat, T # {}
  PROVE  \E n \in T : \A m \in T : n <= m
<1>1. PICK n \in T : \A m \in T : ~(<<m, n>> \in OpToRel(<, Nat))
  BY Zenon, NatLessThanWellFounded, WFMin
<1>2. ASSUME NEW m \in T
      PROVE  n <= m
  <2>1. m \in Nat /\ n \in Nat
    BY Zenon
  <2>2. ~(m < n)
    BY Zenon, <1>1, <2>1 DEF OpToRel
  <2> QED
    BY <2>1, <2>2
<1> QED
  BY Zenon, <1>2

\* Strong induction: a set that holds each natural whose predecessors it holds holds
\* every natural.
LEMMA StrongInduction ==
  ASSUME NEW S,
         \A n \in Nat : (\A m \in 0..(n - 1) : m \in S) => n \in S
  PROVE  Nat \subseteq S
<1> DEFINE T == Nat \ S
<1>1. SUFFICES ASSUME T # {}
               PROVE  FALSE
  BY Zenon
<1>2. PICK n \in T : \A m \in T : n <= m
  <2>1. T \subseteq Nat
    BY Zenon
  <2> QED
    BY Zenon, <1>1, <2>1, LeastNat
<1>3. \A m \in 0..(n - 1) : m \in S
  BY <1>2
<1> QED
  BY Zenon, <1>2, <1>3

------------------------------------------------------------------------------
\* The doubling loop of largest_power_of_two_less, as a list of what k is after each turn.

\* The next value of k in the loop, which doubles it while the double is less than n.
Doubled(k, n) == IF k * 2 < n THEN k * 2 ELSE k

\* c lists the values of k, after each of the first m turns of the loop.
IsLoop(c, n, m) ==
  /\ c \in [0..m -> Nat]
  /\ c[0] = 1
  /\ \A i \in 1..m : c[i] = Doubled(c[i - 1], n)

\* The loop can be run for any number of turns.
LEMMA LoopExists ==
  ASSUME NEW n \in Nat
  PROVE  \A m \in Nat : \E c : IsLoop(c, n, m)
<1> DEFINE S == {m \in Nat : \E c : IsLoop(c, n, m)}
<1>1. ASSUME NEW m \in Nat, \A j \in 0..(m - 1) : j \in S
      PROVE  m \in S
  <2>1. CASE m = 0
    <3> DEFINE c == [i \in 0..0 |-> 1]
    <3>1. IsLoop(c, n, 0)
      BY DEF IsLoop
    <3> HIDE DEF c
    <3> QED
      BY Zenon, <2>1, <3>1
  <2>2. CASE m # 0
    <3>1. m - 1 \in 0..(m - 1)
      BY <2>2
    <3>2. m - 1 \in S
      BY Zenon, <1>1, <3>1
    <3>3. PICK c : IsLoop(c, n, m - 1)
      BY Zenon, <3>2
    <3> DEFINE d == [i \in 0..m |-> IF i = m THEN Doubled(c[m - 1], n) ELSE c[i]]
    <3>4. \A k \in Nat : Doubled(k, n) \in Nat
      BY DEF Doubled
    <3>5. d \in [0..m -> Nat]
      <4>1. Doubled(c[m - 1], n) \in Nat
        BY Zenon, <3>1, <3>3, <3>4 DEF IsLoop
      <4>2. \A i \in 0..m : i # m => c[i] \in Nat
        BY <3>3 DEF IsLoop
      <4> QED
        BY Zenon, <4>1, <4>2
    <3>6. d[0] = 1
      BY <2>2, <3>3 DEF IsLoop
    <3>7. ASSUME NEW i \in 1..m
          PROVE  d[i] = Doubled(d[i - 1], n)
      <4>1. i - 1 \in 0..(m - 1) /\ i \in 0..m /\ i - 1 # m
        OBVIOUS
      <4>2. d[i - 1] = c[i - 1]
        BY <4>1
      <4>3. CASE i = m
        BY Zenon, <4>1, <4>2, <4>3
      <4>4. CASE i # m
        <5>1. i \in 1..(m - 1)
          BY <4>4
        <5> QED
          BY Zenon, <3>3, <4>1, <4>2, <4>4, <5>1 DEF IsLoop
      <4> QED
        BY Zenon, <4>3, <4>4
    <3> HIDE DEF d
    <3>8. IsLoop(d, n, m)
      BY Zenon, <3>5, <3>6, <3>7 DEF IsLoop
    <3> QED
      BY Zenon, <3>8
  <2> QED
    BY Zenon, <2>1, <2>2
<1> HIDE DEF S
<1>2. Nat \subseteq S
  BY Zenon, <1>1, StrongInduction
<1> QED
  BY Zenon, <1>2 DEF S

\* largest_power_of_two_less(n) is what n turns of the loop leave.
LEMMA LoopResult ==
  ASSUME NEW n \in Nat
  PROVE  \E c : IsLoop(c, n, n) /\ largest_power_of_two_less(n) = c[n]
<1> DEFINE Body(x) == [i \in 0..n |-> IF i = 0 THEN 1
                                      ELSE IF x[i - 1] * 2 < n THEN x[i - 1] * 2
                                      ELSE x[i - 1]]
           c == CHOOSE x : x = Body(x)
<1>1. largest_power_of_two_less(n) = c[n]
  BY Zenon DEF largest_power_of_two_less
<1>2. PICK d : IsLoop(d, n, n)
  BY Zenon, LoopExists
<1>3. d = Body(d)
  <2>1. ASSUME NEW i \in 0..n
        PROVE  d[i] = Body(d)[i]
    <3>1. CASE i = 0
      BY Zenon, <1>2, <3>1 DEF IsLoop
    <3>2. CASE i # 0
      <4>1. i \in 1..n
        BY <3>2
      <4> QED
        BY Zenon, <1>2, <3>2, <4>1 DEF IsLoop, Doubled
    <3> QED
      BY Zenon, <3>1, <3>2
  <2> QED
    BY Zenon, <1>2, <2>1 DEF IsLoop
<1>4. c = Body(c)
  BY Zenon, <1>3
<1> HIDE DEF c
<1>5. \A i \in 0..n : c[i] = IF i = 0 THEN 1
                             ELSE IF c[i - 1] * 2 < n THEN c[i - 1] * 2
                             ELSE c[i - 1]
  BY Zenon, <1>4
<1>6. c[0] = 1 /\ \A i \in 1..n : c[i] = Doubled(c[i - 1], n)
  BY <1>5 DEF Doubled
<1>7. \A i \in Nat : i <= n => c[i] \in Nat
  <2> DEFINE S == {i \in Nat : i <= n => c[i] \in Nat}
  <2>1. ASSUME NEW i \in Nat, \A j \in 0..(i - 1) : j \in S
        PROVE  i \in S
    <3>1. CASE i = 0
      BY <1>6, <3>1
    <3>2. CASE i # 0
      <4>1. i - 1 \in S
        BY <2>1, <3>2
      <4>2. SUFFICES ASSUME i <= n PROVE c[i] \in Nat
        BY Zenon
      <4>3. c[i - 1] \in Nat /\ i \in 1..n
        BY <3>2, <4>1, <4>2
      <4> QED
        BY <1>6, <4>3 DEF Doubled
    <3> QED
      BY Zenon, <3>1, <3>2
  <2> HIDE DEF S
  <2>2. Nat \subseteq S
    BY Zenon, <2>1, StrongInduction
  <2> QED
    BY Zenon, <2>2 DEF S
<1>8. c \in [0..n -> Nat]
  <2>1. \E e : c = [i \in 0..n |-> e[i]]
    <3>1. c = [i \in 0..n |-> Body(c)[i]]
      BY Zenon, <1>4
    <3> QED
      BY Zenon, <3>1
  <2>2. \A i \in 0..n : c[i] \in Nat
    BY <1>7
  <2> QED
    BY Zenon, <2>1, <2>2
<1> QED
  BY Zenon, <1>1, <1>6, <1>8 DEF IsLoop

\* k starts at 1 and stays below n; while the loop runs, it grows with each turn.
LEMMA LoopBounds ==
  ASSUME NEW n \in Nat, n > 1, NEW c, NEW m \in Nat, IsLoop(c, n, m)
  PROVE  \A i \in 0..m : /\ c[i] \in 1..(n - 1)
                         /\ c[i] * 2 >= n \/ c[i] >= i + 1
<1> DEFINE S == {i \in Nat : i <= m => /\ c[i] \in 1..(n - 1)
                                       /\ c[i] * 2 >= n \/ c[i] >= i + 1}
<1>1. ASSUME NEW i \in Nat, \A j \in 0..(i - 1) : j \in S
      PROVE  i \in S
  <2>1. CASE i = 0
    BY <2>1 DEF IsLoop
  <2>2. CASE i # 0
    <3>1. i - 1 \in S
      BY <1>1, <2>2
    <3>2. SUFFICES ASSUME i <= m
                   PROVE  /\ c[i] \in 1..(n - 1)
                          /\ c[i] * 2 >= n \/ c[i] >= i + 1
      BY Zenon
    <3>3. /\ c[i - 1] \in 1..(n - 1)
          /\ c[i - 1] * 2 >= n \/ c[i - 1] >= i
      BY <2>2, <3>1, <3>2
    <3>4. c[i] = Doubled(c[i - 1], n)
      BY <2>2, <3>2 DEF IsLoop
    <3>5. PICK b \in 1..(n - 1) : b = c[i - 1]
      BY Zenon, <3>3
    <3>6. c[i] = IF b * 2 < n THEN b * 2 ELSE b
      BY Zenon, <3>4, <3>5 DEF Doubled
    <3> QED
      BY <2>2, <3>3, <3>5, <3>6
  <2> QED
    BY Zenon, <2>1, <2>2
<1> HIDE DEF S
<1>2. Nat \subseteq S
  BY Zenon, <1>1, StrongInduction
<1> QED
  BY <1>2 DEF S

\* largest_power_of_two_less(n) splits n > 1 leaves in two parts, neither of them empty
\* and the right one not the larger.
LEMMA SplitBounds ==
  ASSUME NEW n \in Nat, n > 1
  PROVE  /\ largest_power_of_two_less(n) \in 1..(n - 1)
         /\ largest_power_of_two_less(n) * 2 >= n
<1>1. PICK c : IsLoop(c, n, n) /\ largest_power_of_two_less(n) = c[n]
  BY Zenon, LoopResult
<1>2. c[n] \in 1..(n - 1) /\ (c[n] * 2 >= n \/ c[n] >= n + 1)
  BY <1>1, LoopBounds
<1> QED
  BY <1>1, <1>2

\* The loop never takes k back.
LEMMA LoopGrows ==
  ASSUME NEW n \in Nat, NEW c, NEW m \in Nat, IsLoop(c, n, m), NEW i \in 0..m
  PROVE  \A j \in i..m : c[i] <= c[j]
<1> DEFINE S == {j \in Nat : j \in i..m => c[i] <= c[j]}
<1>0. \A j \in 0..m : c[j] \in Nat
  BY Zenon DEF IsLoop
<1>1. ASSUME NEW j \in Nat, \A l \in 0..(j - 1) : l \in S
      PROVE  j \in S
  <2>1. SUFFICES ASSUME j \in i..m
                 PROVE  c[i] <= c[j]
    BY Zenon
  <2>2. CASE j = i
    BY <1>0, <2>2
  <2>3. CASE j # i
    <3>1. j - 1 \in i..m /\ j - 1 \in 0..(j - 1) /\ j \in 1..m
      BY <2>1, <2>3
    <3>2. c[i] <= c[j - 1]
      BY Zenon, <1>1, <3>1
    <3>3. c[j] = Doubled(c[j - 1], n)
      BY Zenon, <3>1 DEF IsLoop
    <3>4. c[j - 1] \in Nat /\ c[i] \in Nat
      BY <1>0, <3>1
    <3>5. c[j - 1] <= c[j]
      BY <3>3, <3>4 DEF Doubled
    <3> QED
      BY <1>0, <2>1, <3>1, <3>2, <3>4, <3>5
  <2> QED
    BY Zenon, <2>2, <2>3
<1> HIDE DEF S
<1>2. Nat \subseteq S
  BY Zenon, <1>1, StrongInduction
<1> QED
  BY <1>2 DEF S

\* A tree that is cut back, but not to its left part, is still split at the same place.
LEMMA SameSplit ==
  ASSUME NEW n \in Nat, NEW m \in Nat, n > 1,
         largest_power_of_two_less(n) < m, m <= n
  PROVE  largest_power_of_two_less(m) = largest_power_of_two_less(n)
<1>1. PICK c : IsLoop(c, n, n) /\ largest_power_of_two_less(n) = c[n]
  BY Zenon, LoopResult
<1>2. PICK d : IsLoop(d, m, m) /\ largest_power_of_two_less(m) = d[m]
  BY Zenon, LoopResult
<1>3. /\ \A i \in 0..n : c[i] \in Nat
      /\ \A i \in 0..m : d[i] \in Nat
  BY Zenon, <1>1, <1>2 DEF IsLoop
<1>4. c[n] < m /\ c[n] \in Nat
  BY <1>1, <1>3
<1>5. \A i \in 0..n : c[i] <= c[n]
  <2>1. ASSUME NEW i \in 0..n
        PROVE  c[i] <= c[n]
    <3>1. n \in i..n
      OBVIOUS
    <3> QED
      BY Zenon, <1>1, <3>1, LoopGrows
  <2> QED
    BY Zenon, <2>1
<1>6. ASSUME NEW i \in 1..n
      PROVE  c[i] = Doubled(c[i - 1], m)
  <2>1. c[i] = Doubled(c[i - 1], n) /\ c[i - 1] \in Nat /\ c[i] <= c[n]
    BY SMTT(30), <1>1, <1>3, <1>5 DEF IsLoop
  <2>2. PICK a \in Nat : a = c[i - 1]
    BY Zenon, <2>1
  <2>3. c[i] = IF a * 2 < n THEN a * 2 ELSE a
    BY Zenon, <2>1, <2>2 DEF Doubled
  <2>4. c[i] = IF a * 2 < m THEN a * 2 ELSE a
    BY <1>4, <2>1, <2>2, <2>3
  <2> QED
    BY Zenon, <2>2, <2>4 DEF Doubled
<1>7. IsLoop(c, m, n)
  BY Zenon, <1>1, <1>6 DEF IsLoop
<1>8. \A i \in Nat : i <= m => d[i] = c[i]
  <2> DEFINE S == {i \in Nat : i <= m => d[i] = c[i]}
  <2>1. ASSUME NEW i \in Nat, \A j \in 0..(i - 1) : j \in S
        PROVE  i \in S
    <3>1. CASE i = 0
      BY Zenon, <1>2, <1>7, <3>1 DEF IsLoop
    <3>2. CASE i # 0
      <4>1. i - 1 \in S
        BY <2>1, <3>2
      <4>2. SUFFICES ASSUME i <= m PROVE d[i] = c[i]
        BY Zenon
      <4>3. d[i - 1] = c[i - 1] /\ i \in 1..m /\ i \in 1..n
        BY <3>2, <4>1, <4>2
      <4> QED
        BY Zenon, <1>2, <1>7, <4>3 DEF IsLoop
    <3> QED
      BY Zenon, <3>1, <3>2
  <2> HIDE DEF S
  <2>2. Nat \subseteq S
    BY Zenon, <2>1, StrongInduction
  <2> QED
    BY Zenon, <2>2 DEF S
<1>9. m > 1
  <2>1. c[n] \in 1..(n - 1)
    BY <1>1, LoopBounds
  <2> QED
    BY <1>4, <2>1
<1>10. d[m] * 2 >= m
  BY Zenon, <1>2, <1>9, SplitBounds
<1>11. c[m] * 2 >= m /\ c[m] \in Nat /\ c[m] <= c[n]
  BY <1>3, <1>5, <1>8, <1>10
<1>12. \A i \in Nat : i \in m..n => c[i] = c[m]
  <2> DEFINE S == {i \in Nat : i \in m..n => c[i] = c[m]}
  <2>1. ASSUME NEW i \in Nat, \A j \in 0..(i - 1) : j \in S
        PROVE  i \in S
    <3>1. SUFFICES ASSUME i \in m..n, i # m PROVE c[i] = c[m]
      BY Zenon
    <3>2. i - 1 \in m..n /\ i - 1 \in 0..(i - 1) /\ i \in 1..n
      BY <3>1
    <3>3. c[i - 1] = c[m]
      BY Zenon, <2>1, <3>2
    <3>4. c[i] = Doubled(c[m], m)
      BY Zenon, <1>6, <3>2, <3>3
    <3> QED
      BY <1>11, <3>4 DEF Doubled
  <2> HIDE DEF S
  <2>2. Nat \subseteq S
    BY Zenon, <2>1, StrongInduction
  <2> QED
    BY Zenon, <2>2 DEF S
<1> QED
  BY <1>1, <1>2, <1>8, <1>12

------------------------------------------------------------------------------
\* The recursive functions are well defined: each has a solution, since it only looks
\* at smaller slices, and so computes what its body says.

\* The recursion of mth: the hashes of the slices of length n.
HashRow(f, leaves, n) ==
  [lo \in 0..(Len(leaves) - n) |-> mth_body(f, leaves, n, lo)]

\* A row is computed from the rows of smaller slices.
LEMMA HashesLocal ==
  ASSUME NEW f, NEW g, NEW leaves, NEW n \in Nat,
         \A j \in 0..(n - 1) : f[j] = g[j]
  PROVE  HashRow(f, leaves, n) = HashRow(g, leaves, n)
<1>1. CASE n > 1
  <2>1. PICK k \in 1..(n - 1) : k = largest_power_of_two_less(n)
    BY Zenon, <1>1, SplitBounds
  <2>2. f[k] = g[k] /\ f[n - k] = g[n - k]
    OBVIOUS
  <2> QED
    BY <1>1, <2>1, <2>2 DEF HashRow, mth_body
<1>2. CASE ~(n > 1)
  BY <1>2 DEF HashRow, mth_body
<1> QED
  BY Zenon, <1>1, <1>2

\* f has the hashes of all slices of up to m leaves.
IsHashes(f, leaves, m) == f = [n \in 0..m |-> HashRow(f, leaves, n)]

\* So the recursion has a solution, for any number of rows.
LEMMA HashesExists ==
  ASSUME NEW leaves
  PROVE  \A m \in Nat : \E f : IsHashes(f, leaves, m)
<1> DEFINE S == {m \in Nat : \E f : IsHashes(f, leaves, m)}
<1>1. ASSUME NEW m \in Nat, \A j \in 0..(m - 1) : j \in S
      PROVE  m \in S
  <2>1. PICK g : \A n \in 0..(m - 1) : g[n] = HashRow(g, leaves, n)
    <3>1. CASE m = 0
      BY <3>1
    <3>2. CASE m # 0
      <4>1. m - 1 \in S
        BY <1>1, <3>2
      <4>2. PICK g : IsHashes(g, leaves, m - 1)
        BY Zenon, <4>1
      <4>3. \A n \in 0..(m - 1) : g[n] = HashRow(g, leaves, n)
        BY Zenon, <4>2 DEF IsHashes
      <4> QED
        BY Zenon, <4>3
    <3> QED
      BY Zenon, <3>1, <3>2
  <2> DEFINE f == [n \in 0..m |-> IF n = m THEN HashRow(g, leaves, m) ELSE g[n]]
  <2>2. \A n \in 0..(m - 1) : f[n] = g[n]
    OBVIOUS
  <2>3. f[m] = HashRow(g, leaves, m)
    OBVIOUS
  <2>4. \E e : f = [n \in 0..m |-> e[n]]
    BY Zenon
  <2> HIDE DEF f
  <2>5. ASSUME NEW n \in 0..m
        PROVE  f[n] = HashRow(f, leaves, n)
    <3>1. n \in Nat /\ \A j \in 0..(n - 1) : f[j] = g[j]
      BY <2>2
    <3>2. HashRow(f, leaves, n) = HashRow(g, leaves, n)
      BY <3>1, HashesLocal
    <3>3. CASE n = m
      BY Zenon, <2>3, <3>2, <3>3
    <3>4. CASE n # m
      BY <2>1, <2>2, <3>2, <3>4
    <3> QED
      BY Zenon, <3>3, <3>4
  <2>6. IsHashes(f, leaves, m)
    BY Zenon, <2>4, <2>5 DEF IsHashes
  <2> QED
    BY Zenon, <2>6
<1> HIDE DEF S
<1>2. Nat \subseteq S
  BY Zenon, <1>1, StrongInduction
<1> QED
  BY Zenon, <1>2 DEF S

\* slice_hashes computes what the body of mth says.
LEMMA HashesUnfold ==
  ASSUME NEW D, NEW leaves \in Seq(D), NEW f, f = slice_hashes(leaves)
  PROVE  \A n \in 0..Len(leaves) : \A lo \in 0..(Len(leaves) - n) :
           f[n][lo] = mth_body(f, leaves, n, lo)
<1> DEFINE Body(x) == [n \in 0..Len(leaves) |-> HashRow(x, leaves, n)]
<1>1. Len(leaves) \in Nat
  OBVIOUS
<1>2. slice_hashes(leaves) = CHOOSE x : x = Body(x)
  BY Zenon DEF slice_hashes, HashRow
<1>3. \E x : x = Body(x)
  <2>1. PICK x : IsHashes(x, leaves, Len(leaves))
    BY Zenon, <1>1, HashesExists
  <2> QED
    BY Zenon, <2>1 DEF IsHashes
<1>4. f = Body(f)
  BY Zenon, <1>2, <1>3
<1>5. \A n \in 0..Len(leaves) : f[n] = HashRow(f, leaves, n)
  BY Zenon, <1>4
<1> HIDE DEF Body
<1>6. ASSUME NEW n \in 0..Len(leaves), NEW lo \in 0..(Len(leaves) - n)
      PROVE  f[n][lo] = mth_body(f, leaves, n, lo)
  <2>1. f[n] = HashRow(f, leaves, n)
    BY Zenon, <1>5
  <2>2. HashRow(f, leaves, n)[lo] = mth_body(f, leaves, n, lo)
    BY Zenon DEF HashRow
  <2> QED
    BY Zenon, <2>1, <2>2
<1> QED
  BY Zenon, <1>6

\* The recursion of path: the paths in the slices of length n.
PathRow(f, h, len, n) ==
  [lo \in 0..(len - n) |-> [index \in 0..(n - 1) |-> path_body(f, h, n, lo, index)]]

\* A row is computed from the rows of smaller slices.
LEMMA PathsLocal ==
  ASSUME NEW f, NEW g, NEW h, NEW len, NEW n \in Nat,
         \A j \in 0..(n - 1) : f[j] = g[j]
  PROVE  PathRow(f, h, len, n) = PathRow(g, h, len, n)
<1>1. CASE n > 1
  <2>1. PICK k \in 1..(n - 1) : k = largest_power_of_two_less(n)
    BY Zenon, <1>1, SplitBounds
  <2>2. f[k] = g[k] /\ f[n - k] = g[n - k]
    OBVIOUS
  <2> QED
    BY Zenon, <1>1, <2>1, <2>2 DEF PathRow, path_body
<1>2. CASE ~(n > 1)
  BY <1>2 DEF PathRow, path_body
<1> QED
  BY Zenon, <1>1, <1>2

\* f has the paths of all slices of up to m leaves.
IsPaths(f, h, len, m) == f = [n \in 0..m |-> PathRow(f, h, len, n)]

\* So the recursion has a solution, for any number of rows.
LEMMA PathsExists ==
  ASSUME NEW h, NEW len
  PROVE  \A m \in Nat : \E f : IsPaths(f, h, len, m)
<1> DEFINE S == {m \in Nat : \E f : IsPaths(f, h, len, m)}
<1>1. ASSUME NEW m \in Nat, \A j \in 0..(m - 1) : j \in S
      PROVE  m \in S
  <2>1. PICK g : \A n \in 0..(m - 1) : g[n] = PathRow(g, h, len, n)
    <3>1. CASE m = 0
      BY <3>1
    <3>2. CASE m # 0
      <4>1. m - 1 \in S
        BY <1>1, <3>2
      <4>2. PICK g : IsPaths(g, h, len, m - 1)
        BY Zenon, <4>1
      <4>3. \A n \in 0..(m - 1) : g[n] = PathRow(g, h, len, n)
        BY Zenon, <4>2 DEF IsPaths
      <4> QED
        BY Zenon, <4>3
    <3> QED
      BY Zenon, <3>1, <3>2
  <2> DEFINE f == [n \in 0..m |-> IF n = m THEN PathRow(g, h, len, m) ELSE g[n]]
  <2>2. \A n \in 0..(m - 1) : f[n] = g[n]
    OBVIOUS
  <2>3. f[m] = PathRow(g, h, len, m)
    OBVIOUS
  <2>4. \E e : f = [n \in 0..m |-> e[n]]
    BY Zenon
  <2> HIDE DEF f
  <2>5. ASSUME NEW n \in 0..m
        PROVE  f[n] = PathRow(f, h, len, n)
    <3>1. n \in Nat /\ \A j \in 0..(n - 1) : f[j] = g[j]
      BY <2>2
    <3>2. PathRow(f, h, len, n) = PathRow(g, h, len, n)
      BY <3>1, PathsLocal
    <3>3. CASE n = m
      BY Zenon, <2>3, <3>2, <3>3
    <3>4. CASE n # m
      BY <2>1, <2>2, <3>2, <3>4
    <3> QED
      BY Zenon, <3>3, <3>4
  <2>6. IsPaths(f, h, len, m)
    BY Zenon, <2>4, <2>5 DEF IsPaths
  <2> QED
    BY Zenon, <2>6
<1> HIDE DEF S
<1>2. Nat \subseteq S
  BY Zenon, <1>1, StrongInduction
<1> QED
  BY Zenon, <1>2 DEF S

\* slice_paths computes what the body of path says.
LEMMA PathsUnfold ==
  ASSUME NEW D, NEW leaves \in Seq(D), NEW h, h = slice_hashes(leaves),
         NEW len \in Nat, len = Len(leaves), NEW f, f = slice_paths(leaves)
  PROVE  \A n \in 0..len : \A lo \in 0..(len - n) : \A index \in 0..(n - 1) :
           f[n][lo][index] = path_body(f, h, n, lo, index)
<1> DEFINE Body(x) == [n \in 0..len |-> PathRow(x, h, len, n)]
<1>1. len \in Nat
  BY Zenon
<1>2. slice_paths(leaves) = CHOOSE x : x = Body(x)
  BY DEF slice_paths, PathRow
<1>3. \E x : x = Body(x)
  <2>1. PICK x : IsPaths(x, h, len, len)
    BY Zenon, <1>1, PathsExists
  <2> QED
    BY Zenon, <2>1 DEF IsPaths
<1>4. f = Body(f)
  BY Zenon, <1>2, <1>3
<1>5. \A n \in 0..len : f[n] = PathRow(f, h, len, n)
  BY Zenon, <1>4
<1> HIDE DEF Body
<1>6. ASSUME NEW n \in 0..len, NEW lo \in 0..(len - n), NEW index \in 0..(n - 1)
      PROVE  f[n][lo][index] = path_body(f, h, n, lo, index)
  <2>1. f[n] = PathRow(f, h, len, n)
    BY Zenon, <1>5
  <2>2. PathRow(f, h, len, n)[lo][index] = path_body(f, h, n, lo, index)
    BY Zenon DEF PathRow
  <2> QED
    BY Zenon, <2>1, <2>2
<1> QED
  BY Zenon, <1>6

\* The recursion of compute_root: the roots of trees of n leaves.
RootRow(f, leaf, proof, n) ==
  [index \in 0..(n - 1) |-> compute_root_body(f, leaf, proof, n, index)]

\* A row is computed from the rows of smaller slices.
LEMMA RootsLocal ==
  ASSUME NEW f, NEW g, NEW leaf, NEW proof, NEW n \in Nat,
         \A j \in 0..(n - 1) : f[j] = g[j]
  PROVE  RootRow(f, leaf, proof, n) = RootRow(g, leaf, proof, n)
<1>1. CASE n > 1
  <2>1. PICK k \in 1..(n - 1) : k = largest_power_of_two_less(n)
    BY Zenon, <1>1, SplitBounds
  <2>2. f[k] = g[k] /\ f[n - k] = g[n - k]
    OBVIOUS
  <2> QED
    BY SMTT(30), <1>1, <2>1, <2>2 DEF RootRow, compute_root_body
<1>2. CASE ~(n > 1)
  BY SMTT(30), <1>2 DEF RootRow, compute_root_body
<1> QED
  BY Zenon, <1>1, <1>2

\* f has what compute_root returns for trees of up to m leaves.
IsRoots(f, leaf, proof, m) == f = [n \in 0..m |-> RootRow(f, leaf, proof, n)]

\* So the recursion has a solution, for any number of rows.
LEMMA RootsExists ==
  ASSUME NEW leaf, NEW proof
  PROVE  \A m \in Nat : \E f : IsRoots(f, leaf, proof, m)
<1> DEFINE S == {m \in Nat : \E f : IsRoots(f, leaf, proof, m)}
<1>1. ASSUME NEW m \in Nat, \A j \in 0..(m - 1) : j \in S
      PROVE  m \in S
  <2>1. PICK g : \A n \in 0..(m - 1) : g[n] = RootRow(g, leaf, proof, n)
    <3>1. CASE m = 0
      BY <3>1
    <3>2. CASE m # 0
      <4>1. m - 1 \in S
        BY <1>1, <3>2
      <4>2. PICK g : IsRoots(g, leaf, proof, m - 1)
        BY Zenon, <4>1
      <4>3. \A n \in 0..(m - 1) : g[n] = RootRow(g, leaf, proof, n)
        BY Zenon, <4>2 DEF IsRoots
      <4> QED
        BY Zenon, <4>3
    <3> QED
      BY Zenon, <3>1, <3>2
  <2> DEFINE f == [n \in 0..m |-> IF n = m THEN RootRow(g, leaf, proof, m) ELSE g[n]]
  <2>2. \A n \in 0..(m - 1) : f[n] = g[n]
    OBVIOUS
  <2>3. f[m] = RootRow(g, leaf, proof, m)
    OBVIOUS
  <2>4. \E e : f = [n \in 0..m |-> e[n]]
    BY Zenon
  <2> HIDE DEF f
  <2>5. ASSUME NEW n \in 0..m
        PROVE  f[n] = RootRow(f, leaf, proof, n)
    <3>1. n \in Nat /\ \A j \in 0..(n - 1) : f[j] = g[j]
      BY <2>2
    <3>2. RootRow(f, leaf, proof, n) = RootRow(g, leaf, proof, n)
      BY <3>1, RootsLocal
    <3>3. CASE n = m
      BY Zenon, <2>3, <3>2, <3>3
    <3>4. CASE n # m
      BY <2>1, <2>2, <3>2, <3>4
    <3> QED
      BY Zenon, <3>3, <3>4
  <2>6. IsRoots(f, leaf, proof, m)
    BY Zenon, <2>4, <2>5 DEF IsRoots
  <2> QED
    BY Zenon, <2>6
<1> HIDE DEF S
<1>2. Nat \subseteq S
  BY Zenon, <1>1, StrongInduction
<1> QED
  BY Zenon, <1>2 DEF S

\* computed_roots computes what the body of compute_root says.
LEMMA RootsUnfold ==
  ASSUME NEW leaf, NEW tree_size \in Nat, NEW proof, NEW f, f = computed_roots(leaf, tree_size, proof)
  PROVE  \A n \in 0..tree_size : \A index \in 0..(n - 1) :
           f[n][index] = compute_root_body(f, leaf, proof, n, index)
<1> DEFINE Body(x) == [n \in 0..tree_size |-> RootRow(x, leaf, proof, n)]
<1>1. tree_size \in Nat
  BY Zenon
<1>2. computed_roots(leaf, tree_size, proof) = CHOOSE x : x = Body(x)
  BY Zenon DEF computed_roots, RootRow
<1>3. \E x : x = Body(x)
  <2>1. PICK x : IsRoots(x, leaf, proof, tree_size)
    BY Zenon, <1>1, RootsExists
  <2> QED
    BY Zenon, <2>1 DEF IsRoots
<1>4. f = Body(f)
  BY Zenon, <1>2, <1>3
<1>5. \A n \in 0..tree_size : f[n] = RootRow(f, leaf, proof, n)
  BY Zenon, <1>4
<1> HIDE DEF Body
<1>6. ASSUME NEW n \in 0..tree_size, NEW index \in 0..(n - 1)
      PROVE  f[n][index] = compute_root_body(f, leaf, proof, n, index)
  <2>1. f[n] = RootRow(f, leaf, proof, n)
    BY Zenon, <1>5
  <2>2. RootRow(f, leaf, proof, n)[index] = compute_root_body(f, leaf, proof, n, index)
    BY Zenon DEF RootRow
  <2> QED
    BY Zenon, <2>1, <2>2
<1> QED
  BY Zenon, <1>6

\* The recursion of subproof: the proofs in the slices of length n.
SubproofRow(f, h, len, n) ==
  [lo \in 0..(len - n) |->
    [m \in 1..n |-> [old_known \in BOOLEAN |-> subproof_body(f, h, n, lo, m, old_known)]]]

\* A row is computed from the rows of smaller slices.
LEMMA SubproofsLocal ==
  ASSUME NEW f, NEW g, NEW h, NEW len, NEW n \in Nat,
         \A j \in 0..(n - 1) : f[j] = g[j]
  PROVE  SubproofRow(f, h, len, n) = SubproofRow(g, h, len, n)
<1>1. CASE n > 1
  <2>1. PICK k \in 1..(n - 1) : k = largest_power_of_two_less(n)
    BY Zenon, <1>1, SplitBounds
  <2>2. f[k] = g[k] /\ f[n - k] = g[n - k]
    OBVIOUS
  <2> QED
    BY <1>1, <2>1, <2>2 DEF SubproofRow, subproof_body
<1>2. CASE ~(n > 1)
  <2>1. ASSUME NEW m \in 1..n
        PROVE  m = n
    BY <1>2
  <2>2. \A m \in 1..n : \A old_known \in BOOLEAN : \A lo \in 0..(len - n) :
          subproof_body(f, h, n, lo, m, old_known) = subproof_body(g, h, n, lo, m, old_known)
    <3>1. ASSUME NEW m \in 1..n, NEW old_known \in BOOLEAN, NEW lo \in 0..(len - n)
          PROVE  subproof_body(f, h, n, lo, m, old_known) = subproof_body(g, h, n, lo, m, old_known)
      <4>1. m = n
        BY Zenon, <2>1
      <4> QED
        BY Zenon, <4>1 DEF subproof_body
    <3> QED
      BY Zenon, <3>1
  <2> QED
    BY <2>2 DEF SubproofRow
<1> QED
  BY Zenon, <1>1, <1>2

\* f has the subproofs of all slices of up to m leaves.
IsSubproofs(f, h, len, m) == f = [n \in 0..m |-> SubproofRow(f, h, len, n)]

\* So the recursion has a solution, for any number of rows.
LEMMA SubproofsExists ==
  ASSUME NEW h, NEW len
  PROVE  \A m \in Nat : \E f : IsSubproofs(f, h, len, m)
<1> DEFINE S == {m \in Nat : \E f : IsSubproofs(f, h, len, m)}
<1>1. ASSUME NEW m \in Nat, \A j \in 0..(m - 1) : j \in S
      PROVE  m \in S
  <2>1. PICK g : \A n \in 0..(m - 1) : g[n] = SubproofRow(g, h, len, n)
    <3>1. CASE m = 0
      BY <3>1
    <3>2. CASE m # 0
      <4>1. m - 1 \in S
        BY <1>1, <3>2
      <4>2. PICK g : IsSubproofs(g, h, len, m - 1)
        BY Zenon, <4>1
      <4>3. \A n \in 0..(m - 1) : g[n] = SubproofRow(g, h, len, n)
        BY Zenon, <4>2 DEF IsSubproofs
      <4> QED
        BY Zenon, <4>3
    <3> QED
      BY Zenon, <3>1, <3>2
  <2> DEFINE f == [n \in 0..m |-> IF n = m THEN SubproofRow(g, h, len, m) ELSE g[n]]
  <2>2. \A n \in 0..(m - 1) : f[n] = g[n]
    OBVIOUS
  <2>3. f[m] = SubproofRow(g, h, len, m)
    OBVIOUS
  <2>4. \E e : f = [n \in 0..m |-> e[n]]
    BY Zenon
  <2> HIDE DEF f
  <2>5. ASSUME NEW n \in 0..m
        PROVE  f[n] = SubproofRow(f, h, len, n)
    <3>1. n \in Nat /\ \A j \in 0..(n - 1) : f[j] = g[j]
      BY <2>2
    <3>2. SubproofRow(f, h, len, n) = SubproofRow(g, h, len, n)
      BY <3>1, SubproofsLocal
    <3>3. CASE n = m
      BY Zenon, <2>3, <3>2, <3>3
    <3>4. CASE n # m
      BY <2>1, <2>2, <3>2, <3>4
    <3> QED
      BY Zenon, <3>3, <3>4
  <2>6. IsSubproofs(f, h, len, m)
    BY Zenon, <2>4, <2>5 DEF IsSubproofs
  <2> QED
    BY Zenon, <2>6
<1> HIDE DEF S
<1>2. Nat \subseteq S
  BY Zenon, <1>1, StrongInduction
<1> QED
  BY Zenon, <1>2 DEF S

\* Every element of f is what the body of subproof computes from f.
IsUnfolded(f, h, len) ==
  \A n \in 0..len : \A lo \in 0..(len - n) : \A m \in 1..n : \A old_known \in BOOLEAN :
    f[n][lo][m][old_known] = subproof_body(f, h, n, lo, m, old_known)

\* slice_subproofs computes what the body of subproof says.
LEMMA SubproofsUnfold ==
  ASSUME NEW D, NEW leaves \in Seq(D), NEW h, h = slice_hashes(leaves),
         NEW len \in Nat, len = Len(leaves), NEW f, f = slice_subproofs(leaves)
  PROVE  IsUnfolded(f, h, len)
<1> DEFINE Body(x) == [n \in 0..len |-> SubproofRow(x, h, len, n)]
<1>1. len \in Nat
  BY Zenon
<1>2. slice_subproofs(leaves) = CHOOSE x : x = Body(x)
  BY DEF slice_subproofs, SubproofRow
<1>3. \E x : x = Body(x)
  <2>1. PICK x : IsSubproofs(x, h, len, len)
    BY Zenon, <1>1, SubproofsExists
  <2> QED
    BY Zenon, <2>1 DEF IsSubproofs
<1>4. f = Body(f)
  BY Zenon, <1>2, <1>3
<1>5. \A n \in 0..len : f[n] = SubproofRow(f, h, len, n)
  BY Zenon, <1>4
<1> HIDE DEF Body
<1>6. ASSUME NEW n \in 0..len, NEW lo \in 0..(len - n), NEW m \in 1..n, NEW old_known \in BOOLEAN
      PROVE  f[n][lo][m][old_known] = subproof_body(f, h, n, lo, m, old_known)
  <2>1. f[n] = SubproofRow(f, h, len, n)
    BY Zenon, <1>5
  <2>2. SubproofRow(f, h, len, n)[lo][m][old_known] = subproof_body(f, h, n, lo, m, old_known)
    BY Zenon DEF SubproofRow
  <2> QED
    BY Zenon, <2>1, <2>2
<1> QED
  BY Zenon, <1>6 DEF IsUnfolded

\* The recursion of verify_subproof: the roots of trees of n leaves.
CheckRow(f, old_root, proof, n) ==
  [m \in 1..n |->
    [old_known \in BOOLEAN |-> verify_subproof_body(f, old_root, proof, n, m, old_known)]]

\* A row is computed from the rows of smaller slices.
LEMMA ChecksLocal ==
  ASSUME NEW f, NEW g, NEW old_root, NEW proof, NEW n \in Nat,
         \A j \in 0..(n - 1) : f[j] = g[j]
  PROVE  CheckRow(f, old_root, proof, n) = CheckRow(g, old_root, proof, n)
<1>1. CASE n > 1
  <2>1. PICK k \in 1..(n - 1) : k = largest_power_of_two_less(n)
    BY Zenon, <1>1, SplitBounds
  <2>2. f[k] = g[k] /\ f[n - k] = g[n - k]
    OBVIOUS
  <2> QED
    BY <1>1, <2>1, <2>2 DEF CheckRow, verify_subproof_body
<1>2. CASE ~(n > 1)
  <2>1. ASSUME NEW m \in 1..n
        PROVE  m = n
    BY <1>2
  <2>2. \A m \in 1..n : \A old_known \in BOOLEAN :
          verify_subproof_body(f, old_root, proof, n, m, old_known) = verify_subproof_body(g, old_root, proof, n, m, old_known)
    <3>1. ASSUME NEW m \in 1..n, NEW old_known \in BOOLEAN
          PROVE  verify_subproof_body(f, old_root, proof, n, m, old_known) = verify_subproof_body(g, old_root, proof, n, m, old_known)
      <4>1. m = n
        BY Zenon, <2>1
      <4> QED
        BY Zenon, <4>1 DEF verify_subproof_body
    <3> QED
      BY Zenon, <3>1
  <2> QED
    BY Zenon, <2>2 DEF CheckRow
<1> QED
  BY Zenon, <1>1, <1>2

\* f has what verify_subproof returns for trees of up to m leaves.
IsChecks(f, old_root, proof, m) == f = [n \in 0..m |-> CheckRow(f, old_root, proof, n)]

\* So the recursion has a solution, for any number of rows.
LEMMA ChecksExists ==
  ASSUME NEW old_root, NEW proof
  PROVE  \A m \in Nat : \E f : IsChecks(f, old_root, proof, m)
<1> DEFINE S == {m \in Nat : \E f : IsChecks(f, old_root, proof, m)}
<1>1. ASSUME NEW m \in Nat, \A j \in 0..(m - 1) : j \in S
      PROVE  m \in S
  <2>1. PICK g : \A n \in 0..(m - 1) : g[n] = CheckRow(g, old_root, proof, n)
    <3>1. CASE m = 0
      BY <3>1
    <3>2. CASE m # 0
      <4>1. m - 1 \in S
        BY <1>1, <3>2
      <4>2. PICK g : IsChecks(g, old_root, proof, m - 1)
        BY Zenon, <4>1
      <4>3. \A n \in 0..(m - 1) : g[n] = CheckRow(g, old_root, proof, n)
        BY Zenon, <4>2 DEF IsChecks
      <4> QED
        BY Zenon, <4>3
    <3> QED
      BY Zenon, <3>1, <3>2
  <2> DEFINE f == [n \in 0..m |-> IF n = m THEN CheckRow(g, old_root, proof, m) ELSE g[n]]
  <2>2. \A n \in 0..(m - 1) : f[n] = g[n]
    OBVIOUS
  <2>3. f[m] = CheckRow(g, old_root, proof, m)
    OBVIOUS
  <2>4. \E e : f = [n \in 0..m |-> e[n]]
    BY Zenon
  <2> HIDE DEF f
  <2>5. ASSUME NEW n \in 0..m
        PROVE  f[n] = CheckRow(f, old_root, proof, n)
    <3>1. n \in Nat /\ \A j \in 0..(n - 1) : f[j] = g[j]
      BY <2>2
    <3>2. CheckRow(f, old_root, proof, n) = CheckRow(g, old_root, proof, n)
      BY <3>1, ChecksLocal
    <3>3. CASE n = m
      BY Zenon, <2>3, <3>2, <3>3
    <3>4. CASE n # m
      BY <2>1, <2>2, <3>2, <3>4
    <3> QED
      BY Zenon, <3>3, <3>4
  <2>6. IsChecks(f, old_root, proof, m)
    BY Zenon, <2>4, <2>5 DEF IsChecks
  <2> QED
    BY Zenon, <2>6
<1> HIDE DEF S
<1>2. Nat \subseteq S
  BY Zenon, <1>1, StrongInduction
<1> QED
  BY Zenon, <1>2 DEF S

\* verified_subproofs computes what the body of verify_subproof says.
LEMMA ChecksUnfold ==
  ASSUME NEW old_root, NEW tree_size \in Nat, NEW proof, NEW f, f = verified_subproofs(old_root, tree_size, proof)
  PROVE  \A n \in 0..tree_size : \A m \in 1..n : \A old_known \in BOOLEAN :
           f[n][m][old_known] = verify_subproof_body(f, old_root, proof, n, m, old_known)
<1> DEFINE Body(x) == [n \in 0..tree_size |-> CheckRow(x, old_root, proof, n)]
<1>1. tree_size \in Nat
  BY Zenon
<1>2. verified_subproofs(old_root, tree_size, proof) = CHOOSE x : x = Body(x)
  BY Zenon DEF verified_subproofs, CheckRow
<1>3. \E x : x = Body(x)
  <2>1. PICK x : IsChecks(x, old_root, proof, tree_size)
    BY Zenon, <1>1, ChecksExists
  <2> QED
    BY Zenon, <2>1 DEF IsChecks
<1>4. f = Body(f)
  BY Zenon, <1>2, <1>3
<1>5. \A n \in 0..tree_size : f[n] = CheckRow(f, old_root, proof, n)
  BY Zenon, <1>4
<1> HIDE DEF Body
<1>6. ASSUME NEW n \in 0..tree_size, NEW m \in 1..n, NEW old_known \in BOOLEAN
      PROVE  f[n][m][old_known] = verify_subproof_body(f, old_root, proof, n, m, old_known)
  <2>1. f[n] = CheckRow(f, old_root, proof, n)
    BY Zenon, <1>5
  <2>2. CheckRow(f, old_root, proof, n)[m][old_known] = verify_subproof_body(f, old_root, proof, n, m, old_known)
    BY Zenon DEF CheckRow
  <2> QED
    BY Zenon, <2>1, <2>2
<1> QED
  BY Zenon, <1>6

------------------------------------------------------------------------------
\* Hashes of different things differ.

\* Domain separation: the hash of a leaf, of a node and of the empty tree differ, and
\* a hash is of one leaf, or of one pair of hashes.
LEMMA HashTerms ==
  /\ \A a, b : leaf_hash(a) = leaf_hash(b) => a = b
  /\ \A a, b, c, d : node_hash(a, b) = node_hash(c, d) => a = c /\ b = d
  /\ \A a, b, c : leaf_hash(a) # node_hash(b, c)
  /\ \A a : leaf_hash(a) # EmptyHash
  /\ \A a, b : node_hash(a, b) # EmptyHash
  /\ \A a : leaf_hash(a) # None
BY Zenon DEF leaf_hash, node_hash, EmptyHash, None

\* A node hash determines its two children.
LEMMA NodeParts ==
  ASSUME NEW a, NEW b, NEW c, NEW d, node_hash(a, b) = node_hash(c, d)
  PROVE  a = c /\ b = d
BY Zenon DEF node_hash

\* The leaf hashes of a log: one for each entry, in order.
LEMMA LeavesType ==
  ASSUME NEW D, NEW A \in Seq(D)
  PROVE  /\ Leaves(A) \in Seq({leaf_hash(x) : x \in D})
         /\ Len(Leaves(A)) = Len(A)
         /\ \A i \in 1..Len(A) : Leaves(A)[i] = leaf_hash(A[i])
BY DEF Leaves

\* What mth returns for the n entries of A from lo on.
IsSliceHash(A, h, n, lo) ==
  /\ n = 0 => h[n][lo] = EmptyHash
  /\ n = 1 => h[n][lo] = leaf_hash(A[lo + 1])
  /\ n > 1 => \E k \in 1..(n - 1) :
                /\ k = largest_power_of_two_less(n)
                /\ h[n][lo] = node_hash(h[k][lo], h[n - k][lo + k])

\* The hash of a slice of a log, by the number of its entries.
LEMMA SliceHash ==
  ASSUME NEW D, NEW A \in Seq(D), NEW h, h = slice_hashes(Leaves(A)),
         NEW n \in Nat, NEW lo \in Nat, lo + n <= Len(A)
  PROVE  IsSliceHash(A, h, n, lo)
<1> DEFINE L == Leaves(A)
<1>1. /\ L \in Seq({leaf_hash(x) : x \in D})
      /\ Len(L) = Len(A)
      /\ \A i \in 1..Len(A) : L[i] = leaf_hash(A[i])
  BY Zenon, LeavesType
<1>2. h = slice_hashes(L)
  BY Zenon
<1> HIDE DEF L
<1>3. n \in 0..Len(L) /\ lo \in 0..(Len(L) - n)
  BY <1>1
<1>4. h[n][lo] = mth_body(h, L, n, lo)
  BY Zenon, <1>1, <1>2, <1>3, HashesUnfold
<1>5. CASE n = 0
  BY <1>4, <1>5 DEF mth_body, IsSliceHash
<1>6. CASE n = 1
  <2>1. h[n][lo] = L[lo + 1]
    BY <1>4, <1>6 DEF mth_body
  <2> QED
    BY <1>1, <1>3, <1>6, <2>1 DEF IsSliceHash
<1>7. CASE n > 1
  <2>1. PICK k \in 1..(n - 1) : k = largest_power_of_two_less(n)
    BY Zenon, <1>7, SplitBounds
  <2>2. h[n][lo] = node_hash(h[k][lo], h[n - k][lo + k])
    BY <1>4, <1>7, <2>1 DEF mth_body
  <2> QED
    BY <1>7, <2>1, <2>2 DEF IsSliceHash
<1> QED
  BY <1>5, <1>6, <1>7

\* The n entries of A after a and those of B after b are the same.
SameSlice(A, a, B, b, n) == \A i \in 1..n : A[a + i] = B[b + i]

\* A slice of n entries has the hash of no other slice.
HashCommits(A, hA, B, hB, n) ==
  \A m, a, b \in Nat :
    a + n <= Len(A) /\ b + m <= Len(B) /\ hA[n][a] = hB[m][b]
      => m = n /\ SameSlice(A, a, B, b, n)

\* Two slices with one hash are of one length and have the same entries.
LEMMA SliceHashCommits ==
  ASSUME NEW D, NEW A \in Seq(D), NEW hA, hA = slice_hashes(Leaves(A)),
                NEW B \in Seq(D), NEW hB, hB = slice_hashes(Leaves(B))
  PROVE  \A n \in Nat : HashCommits(A, hA, B, hB, n)
<1> DEFINE S == {n \in Nat : HashCommits(A, hA, B, hB, n)}
<1>0. Len(A) \in Nat /\ Len(B) \in Nat
  OBVIOUS
<1>1. ASSUME NEW n \in Nat, \A j \in 0..(n - 1) : j \in S
      PROVE  n \in S
  <2>1. SUFFICES ASSUME NEW m \in Nat, NEW a \in Nat, NEW b \in Nat,
                        a + n <= Len(A), b + m <= Len(B), hA[n][a] = hB[m][b]
                 PROVE  m = n /\ SameSlice(A, a, B, b, n)
    BY Zenon DEF HashCommits
  <2>2. IsSliceHash(A, hA, n, a)
    BY Zenon, <2>1, SliceHash
  <2>3. IsSliceHash(B, hB, m, b)
    BY Zenon, <2>1, SliceHash
  <2>4. CASE n = 0
    <3>1. m = 0
      BY <2>1, <2>2, <2>3, <2>4, HashTerms DEF IsSliceHash
    <3> QED
      BY <2>4, <3>1 DEF SameSlice
  <2>5. CASE n = 1
    <3>1. m = 1
      BY <2>1, <2>2, <2>3, <2>5, HashTerms DEF IsSliceHash
    <3>2. A[a + 1] = B[b + 1]
      BY <2>1, <2>2, <2>3, <2>5, <3>1, HashTerms DEF IsSliceHash
    <3> QED
      BY <2>5, <3>1, <3>2 DEF SameSlice
  <2>6. CASE n > 1
    <3>1. m > 1
      BY SMTT(30), <2>1, <2>2, <2>3, <2>6, HashTerms DEF IsSliceHash
    <3>2. PICK k \in 1..(n - 1) : hA[n][a] = node_hash(hA[k][a], hA[n - k][a + k])
      BY Zenon, <2>2, <2>6 DEF IsSliceHash
    <3>3. PICK l \in 1..(m - 1) : hB[m][b] = node_hash(hB[l][b], hB[m - l][b + l])
      BY Zenon, <2>3, <3>1 DEF IsSliceHash
    <3>4. hA[k][a] = hB[l][b] /\ hA[n - k][a + k] = hB[m - l][b + l]
      <4>1. node_hash(hA[k][a], hA[n - k][a + k]) = node_hash(hB[l][b], hB[m - l][b + l])
        BY Zenon, <2>1, <3>2, <3>3
      <4> QED
        BY Zenon, <4>1 DEF node_hash
    <3>5. k \in S /\ n - k \in S
      BY <1>1
    <3>6. l = k /\ SameSlice(A, a, B, b, k)
      <4>1. l \in Nat /\ a + k <= Len(A) /\ b + l <= Len(B)
        BY SMTT(30), <1>0, <2>1
      <4> QED
        BY Zenon, <3>4, <3>5, <4>1 DEF HashCommits
    <3>7. m - l = n - k /\ SameSlice(A, a + k, B, b + l, n - k)
      <4>1. /\ m - l \in Nat /\ n - k \in Nat /\ a + k \in Nat /\ b + l \in Nat
            /\ (a + k) + (n - k) <= Len(A) /\ (b + l) + (m - l) <= Len(B)
        BY <1>0, <2>1
      <4> QED
        BY Zenon, <3>4, <3>5, <4>1 DEF HashCommits
    <3>8. ASSUME NEW i \in 1..n
          PROVE  A[a + i] = B[b + i]
      <4>1. CASE i \in 1..k
        BY Zenon, <3>6, <4>1 DEF SameSlice
      <4>2. CASE i \notin 1..k
        <5>1. i - k \in 1..(n - k)
          BY <4>2
        <5>2. A[(a + k) + (i - k)] = B[(b + l) + (i - k)]
          BY Zenon, <3>7, <5>1 DEF SameSlice
        <5>3. (a + k) + (i - k) = a + i /\ (b + l) + (i - k) = b + i
          BY <3>6
        <5> QED
          BY Zenon, <5>2, <5>3
      <4> QED
        BY Zenon, <4>1, <4>2
    <3> QED
      BY <3>6, <3>7, <3>8 DEF SameSlice
  <2> QED
    BY <2>4, <2>5, <2>6
<1> HIDE DEF S
<1>2. Nat \subseteq S
  BY Zenon, <1>1, StrongInduction
<1> QED
  BY Zenon, <1>2 DEF S

\* The root commits to the log, for logs of any length: two logs with one tree hash
\* are the same log.
THEOREM RootCommits ==
  ASSUME NEW D, NEW A \in Seq(D), NEW B \in Seq(D), mth_data(A) = mth_data(B)
  PROVE  A = B
<1> DEFINE hA == slice_hashes(Leaves(A))
           hB == slice_hashes(Leaves(B))
<1>1. hA[Len(A)][0] = hB[Len(B)][0]
  BY Zenon, LeavesType DEF mth_data, mth
<1>2. HashCommits(A, hA, B, hB, Len(A))
  BY SliceHashCommits
<1> HIDE DEF hA, hB
<1>3. Len(B) = Len(A) /\ SameSlice(A, 0, B, 0, Len(A))
  BY <1>1, <1>2 DEF HashCommits
<1>4. \A i \in 1..Len(A) : A[i] = B[i]
  BY <1>3 DEF SameSlice
<1> QED
  BY <1>3, <1>4

------------------------------------------------------------------------------
\* Inclusion proofs.

\* A sequence with one more element of its set is a sequence over the set.
LEMMA AppendType ==
  ASSUME NEW D, NEW q \in Seq(D), NEW x \in D
  PROVE  Append(q, x) \in Seq(D)
OBVIOUS

\* What starts with q and x starts with q, and x is the next element.
LEMMA PrefixAppend ==
  ASSUME NEW D, NEW q \in Seq(D), NEW x \in D, NEW E, NEW proof \in Seq(E),
         IsPrefix(Append(q, x), proof)
  PROVE  /\ IsPrefix(q, proof)
         /\ Len(q) < Len(proof)
         /\ proof[Len(q) + 1] = x
         /\ Len(Append(q, x)) = Len(q) + 1
<1>1. /\ Len(Append(q, x)) = Len(q) + 1 /\ Len(q) \in Nat
      /\ \A i \in 1..Len(q) : Append(q, x)[i] = q[i]
      /\ Append(q, x)[Len(q) + 1] = x
  OBVIOUS
<1>2. PICK a : a = Append(q, x)
  BY Zenon
<1> QED
  BY SMTT(30), <1>1, <1>2 DEF IsPrefix

\* The hashes of the slices of a log.
SliceHashes(h, len) == {h[n][lo] : n \in 0..len, lo \in 0..len}

\* The hash of any of those slices is one of them.
LEMMA SliceHashIn ==
  ASSUME NEW h, NEW len, NEW n \in 0..len, NEW lo \in 0..len
  PROVE  h[n][lo] \in SliceHashes(h, len)
BY SMTT(30) DEF SliceHashes

\* What path returns for the entry at index of the n entries from lo on.
IsPath(p, h, n, lo, index) ==
  /\ n = 1 => p[n][lo][index] = <<>>
  /\ n > 1 => \E k \in 1..(n - 1) :
                /\ k = largest_power_of_two_less(n)
                /\ index < k =>
                     p[n][lo][index] = Append(p[k][lo][index], h[n - k][lo + k])
                /\ index >= k =>
                     p[n][lo][index] = Append(p[n - k][lo + k][index - k], h[k][lo])

\* What path returns for a slice of a log.
LEMMA SlicePath ==
  ASSUME NEW D, NEW A \in Seq(D), NEW h, h = slice_hashes(Leaves(A)),
         NEW p, p = slice_paths(Leaves(A)),
         NEW n \in Nat, NEW lo \in Nat, lo + n <= Len(A), NEW index \in 0..(n - 1)
  PROVE  IsPath(p, h, n, lo, index)
<1> DEFINE L == Leaves(A)
           E == {leaf_hash(x) : x \in D}
<1>1. L \in Seq(E) /\ Len(L) = Len(A)
  BY Zenon, LeavesType
<1>2. h = slice_hashes(L) /\ p = slice_paths(L)
  BY Zenon
<1> HIDE DEF L, E
<1>3. PICK len \in Nat : len = Len(L)
  BY <1>1
<1>4. n \in 0..len /\ lo \in 0..(len - n)
  BY <1>1, <1>3
<1>5. p[n][lo][index] = path_body(p, h, n, lo, index)
  <2>1. \A i \in 0..len : \A l \in 0..(len - i) : \A j \in 0..(i - 1) :
          p[i][l][j] = path_body(p, h, i, l, j)
    BY SMTT(30), <1>1, <1>2, <1>3, PathsUnfold
  <2> QED
    BY Zenon, <1>4, <2>1
<1>6. CASE n = 1
  BY <1>5, <1>6 DEF path_body, IsPath
<1>7. CASE n > 1
  <2>1. PICK k \in 1..(n - 1) : k = largest_power_of_two_less(n)
    BY Zenon, <1>7, SplitBounds
  <2>2. /\ index < k => p[n][lo][index] = Append(p[k][lo][index], h[n - k][lo + k])
        /\ index >= k => p[n][lo][index] = Append(p[n - k][lo + k][index - k], h[k][lo])
    <3>1. ~(n <= 1) /\ (index >= k => ~(index < k))
      BY <1>7
    <3> QED
      BY <1>5, <2>1, <3>1, Zenon DEF path_body
  <2>3. n # 1
    BY <1>7
  <2> QED
    BY <2>1, <2>2, <2>3, Zenon DEF IsPath
<1> QED
  BY <1>6, <1>7

\* A sub-slice of a slice of a log.
LEMMA SubSlice ==
  ASSUME NEW len \in Nat, NEW n \in Nat, NEW lo \in Nat, lo + n <= len,
         NEW k \in 1..(n - 1)
  PROVE  /\ k \in Nat /\ n - k \in Nat /\ n - k \in 1..(n - 1) /\ lo + k \in Nat
         /\ k \in 0..(n - 1) /\ n - k \in 0..(n - 1)
         /\ lo + k <= len /\ (lo + k) + (n - k) <= len
         /\ k \in 0..len /\ n - k \in 0..len /\ lo \in 0..len /\ lo + k \in 0..len
OBVIOUS

\* The paths in slices of n entries are sequences of hashes.
PathsTyped(A, h, p, n) ==
  \A lo \in Nat : \A index \in 0..(n - 1) :
    lo + n <= Len(A) => p[n][lo][index] \in Seq(SliceHashes(h, Len(A)))

\* A path is a sequence of hashes of slices.
LEMMA PathType ==
  ASSUME NEW D, NEW A \in Seq(D), NEW h, h = slice_hashes(Leaves(A)),
         NEW p, p = slice_paths(Leaves(A))
  PROVE  \A n \in Nat : PathsTyped(A, h, p, n)
<1> DEFINE S == {n \in Nat : PathsTyped(A, h, p, n)}
<1>0. Len(A) \in Nat
  OBVIOUS
<1>1. ASSUME NEW n \in Nat, \A j \in 0..(n - 1) : j \in S
      PROVE  n \in S
  <2> DEFINE H == SliceHashes(h, Len(A))
  <2>1. SUFFICES ASSUME NEW lo \in Nat, NEW index \in 0..(n - 1), lo + n <= Len(A)
                 PROVE  p[n][lo][index] \in Seq(H)
    BY Zenon DEF PathsTyped
  <2>2. IsPath(p, h, n, lo, index)
    BY Zenon, <2>1, SlicePath
  <2>3. CASE n = 1
    <3>1. p[n][lo][index] = <<>>
      BY <2>2, <2>3, Zenon DEF IsPath
    <3>2. <<>> \in Seq(H)
      OBVIOUS
    <3> QED
      BY <3>1, <3>2, Zenon
  <2>4. CASE n > 1
    <3>1. PICK k \in 1..(n - 1) :
                /\ index < k =>
                     p[n][lo][index] = Append(p[k][lo][index], h[n - k][lo + k])
                /\ index >= k =>
                     p[n][lo][index] = Append(p[n - k][lo + k][index - k], h[k][lo])
      BY Zenon, <2>2, <2>4 DEF IsPath
    <3>2. /\ k \in Nat /\ n - k \in Nat /\ lo + k \in Nat
          /\ k \in 0..(n - 1) /\ n - k \in 0..(n - 1)
          /\ lo + k <= Len(A) /\ (lo + k) + (n - k) <= Len(A)
          /\ k \in 0..Len(A) /\ n - k \in 0..Len(A) /\ lo \in 0..Len(A) /\ lo + k \in 0..Len(A)
      BY Zenon, <1>0, <2>1, SubSlice
    <3>3. h[n - k][lo + k] \in H /\ h[k][lo] \in H
      BY Zenon, <3>2, SliceHashIn
    <3>4. PathsTyped(A, h, p, k) /\ PathsTyped(A, h, p, n - k)
      BY Zenon, <1>1, <3>2
    <3> HIDE DEF H
    <3>5. CASE index < k
      <4>1. p[k][lo][index] \in Seq(H)
        BY <3>2, <3>4, <3>5 DEF PathsTyped, H
      <4> QED
        BY <3>1, <3>3, <3>5, <4>1, AppendType, Zenon
    <3>6. CASE index >= k
      <4>1. index - k \in 0..((n - k) - 1)
        BY <3>6
      <4>2. p[n - k][lo + k][index - k] \in Seq(H)
        BY Zenon, <3>2, <3>4, <4>1 DEF PathsTyped, H
      <4> QED
        BY <3>1, <3>3, <3>6, <4>2, AppendType, Zenon
    <3> QED
      BY <3>5, <3>6
  <2> QED
    BY <2>3, <2>4
<1> HIDE DEF S
<1>2. Nat \subseteq S
  BY Zenon, <1>1, StrongInduction
<1> QED
  BY Zenon, <1>2 DEF S

\* compute_root joins what it computed for one part with the next hash of the proof.
JoinedLeft(r, sub, proof) ==
  /\ sub = None \/ sub[2] >= Len(proof) => r = None
  /\ ~(sub = None \/ sub[2] >= Len(proof)) =>
       r = <<node_hash(sub[1], proof[sub[2] + 1]), sub[2] + 1>>

\* compute_root in the right subtree: the next hash of the proof is the left child.
JoinedRight(r, sub, proof) ==
  /\ sub = None \/ sub[2] >= Len(proof) => r = None
  /\ ~(sub = None \/ sub[2] >= Len(proof)) =>
       r = <<node_hash(proof[sub[2] + 1], sub[1]), sub[2] + 1>>

\* What compute_root returns for a tree of n leaves.
IsRoot(c, leaf, proof, n, index) ==
  /\ n = 1 => c[n][index] = <<leaf, 0>>
  /\ n > 1 => \E k \in 1..(n - 1) :
                /\ k = largest_power_of_two_less(n)
                /\ index < k => JoinedLeft(c[n][index], c[k][index], proof)
                /\ index >= k => JoinedRight(c[n][index], c[n - k][index - k], proof)

\* What compute_root returns for a tree of n leaves.
LEMMA ComputedRoot ==
  ASSUME NEW leaf, NEW N \in Nat, NEW proof, NEW c, c = computed_roots(leaf, N, proof),
         NEW n \in 0..N, NEW index \in 0..(n - 1)
  PROVE  IsRoot(c, leaf, proof, n, index)
<1>1. c[n][index] = compute_root_body(c, leaf, proof, n, index)
  BY RootsUnfold
<1>2. CASE n = 1
  <2>1. ~(n > 1)
    BY <1>2
  <2> QED
    BY <1>1, <1>2, <2>1, Zenon DEF compute_root_body, IsRoot
<1>3. CASE n > 1
  <2>1. PICK k \in 1..(n - 1) : k = largest_power_of_two_less(n)
    BY <1>3, SplitBounds
  <2>2. n # 1
    BY <1>3
  <2>3. ASSUME index < k
        PROVE  JoinedLeft(c[n][index], c[k][index], proof)
    BY <1>1, <2>1, <2>2, <2>3, Zenon DEF compute_root_body, JoinedLeft
  <2>4. ASSUME index >= k
        PROVE  JoinedRight(c[n][index], c[n - k][index - k], proof)
    <3>1. ~(index < k)
      BY <2>4
    <3> QED
      BY <1>1, <2>1, <2>2, <3>1, Zenon DEF compute_root_body, JoinedRight
  <2> QED
    BY <2>1, <2>2, <2>3, <2>4, Zenon DEF IsRoot
<1> QED
  BY <1>2, <1>3

\* compute_root goes up from a left child.
LEMMA PairJoinLeft ==
  ASSUME NEW r, NEW a, NEW i \in Nat, NEW proof, Len(proof) \in Nat, i < Len(proof),
         JoinedLeft(r, <<a, i>>, proof)
  PROVE  r = <<node_hash(a, proof[i + 1]), i + 1>>
BY DEF JoinedLeft, None

\* compute_root goes up from a right child.
LEMMA PairJoinRight ==
  ASSUME NEW r, NEW a, NEW i \in Nat, NEW proof, Len(proof) \in Nat, i < Len(proof),
         JoinedRight(r, <<a, i>>, proof)
  PROVE  r = <<node_hash(proof[i + 1], a), i + 1>>
BY DEF JoinedRight, None

\* In slices of n entries compute_root computes the hash of the slice, and consumes as
\* many hashes as the path has.
PathsVerify(A, h, p, c, leaf, proof, n) ==
  \A lo \in Nat : \A index \in 0..(n - 1) :
    /\ lo + n <= Len(A)
    /\ leaf = leaf_hash(A[lo + index + 1])
    /\ IsPrefix(p[n][lo][index], proof)
    => c[n][index] = <<h[n][lo], Len(p[n][lo][index])>>

\* From a proof that starts with the leaf's path in a slice, compute_root computes the
\* hash of the slice.
LEMMA PathVerifies ==
  ASSUME NEW D, NEW A \in Seq(D), NEW h, h = slice_hashes(Leaves(A)),
         NEW p, p = slice_paths(Leaves(A)), NEW leaf, NEW E, NEW proof \in Seq(E),
         NEW c, c = computed_roots(leaf, Len(A), proof)
  PROVE  \A n \in Nat : PathsVerify(A, h, p, c, leaf, proof, n)
<1> DEFINE S == {n \in Nat : PathsVerify(A, h, p, c, leaf, proof, n)}
           H == SliceHashes(h, Len(A))
<1>0. Len(A) \in Nat /\ Len(proof) \in Nat
  OBVIOUS
<1>1. ASSUME NEW n \in Nat, \A j \in 0..(n - 1) : j \in S
      PROVE  n \in S
  <2>1. SUFFICES ASSUME NEW lo \in Nat, NEW index \in 0..(n - 1), lo + n <= Len(A),
                        leaf = leaf_hash(A[lo + index + 1]),
                        IsPrefix(p[n][lo][index], proof)
                 PROVE  c[n][index] = <<h[n][lo], Len(p[n][lo][index])>>
    BY Zenon DEF PathsVerify
  <2>2. IsPath(p, h, n, lo, index)
    BY Zenon, <2>1, SlicePath
  <2>3. IsSliceHash(A, h, n, lo)
    BY Zenon, <2>1, SliceHash
  <2>4. IsRoot(c, leaf, proof, n, index)
    <3>1. n \in 0..Len(A)
      BY <1>0, <2>1
    <3> QED
      BY Zenon, <1>0, <3>1, ComputedRoot
  <2>5. CASE n = 1
    <3>1. p[n][lo][index] = <<>>
      BY <2>2, <2>5, Zenon DEF IsPath
    <3>2. Len(<<>>) = 0
      BY Zenon
    <3>3. h[n][lo] = leaf_hash(A[lo + 1])
      BY <2>3, <2>5, Zenon DEF IsSliceHash
    <3>4. lo + index + 1 = lo + 1
      BY <2>5
    <3>5. c[n][index] = <<leaf, 0>>
      BY <2>4, <2>5, Zenon DEF IsRoot
    <3> QED
      BY <2>1, <3>1, <3>2, <3>3, <3>4, <3>5, Zenon
  <2>6. CASE n > 1
    <3>1. PICK k \in 1..(n - 1) :
            /\ k = largest_power_of_two_less(n)
            /\ index < k =>
                 p[n][lo][index] = Append(p[k][lo][index], h[n - k][lo + k])
            /\ index >= k =>
                 p[n][lo][index] = Append(p[n - k][lo + k][index - k], h[k][lo])
      BY <2>2, <2>6, Zenon DEF IsPath
    <3>2. h[n][lo] = node_hash(h[k][lo], h[n - k][lo + k])
      BY <2>3, <2>6, <3>1, Zenon DEF IsSliceHash
    <3>3. /\ index < k => JoinedLeft(c[n][index], c[k][index], proof)
          /\ index >= k => JoinedRight(c[n][index], c[n - k][index - k], proof)
      BY <2>4, <2>6, <3>1, Zenon DEF IsRoot
    <3>4. /\ k \in Nat /\ n - k \in Nat /\ lo + k \in Nat
          /\ k \in 0..(n - 1) /\ n - k \in 0..(n - 1)
          /\ lo + k <= Len(A) /\ (lo + k) + (n - k) <= Len(A)
          /\ k \in 0..Len(A) /\ n - k \in 0..Len(A) /\ lo \in 0..Len(A) /\ lo + k \in 0..Len(A)
      BY Zenon, <1>0, <2>1, SubSlice
    <3>5. h[n - k][lo + k] \in H /\ h[k][lo] \in H
      BY Zenon, <3>4, SliceHashIn
    <3>6. /\ PathsVerify(A, h, p, c, leaf, proof, k)
          /\ PathsVerify(A, h, p, c, leaf, proof, n - k)
      BY Zenon, <1>1, <3>4
    <3>7. PathsTyped(A, h, p, k) /\ PathsTyped(A, h, p, n - k)
      BY Zenon, <3>4, PathType
    <3> HIDE DEF H
    <3>8. CASE index < k
      <4>1. PICK q \in Seq(H) : q = p[k][lo][index]
        BY <3>4, <3>7, <3>8 DEF PathsTyped, H
      <4>2. PICK x \in H : x = h[n - k][lo + k]
        BY Zenon, <3>5
      <4>3. p[n][lo][index] = Append(q, x)
        BY <3>1, <3>8, <4>1, <4>2, Zenon
      <4>4. IsPrefix(Append(q, x), proof)
        BY <2>1, <4>3, Zenon
      <4>5. /\ IsPrefix(q, proof) /\ Len(q) < Len(proof) /\ proof[Len(q) + 1] = x
            /\ Len(Append(q, x)) = Len(q) + 1
        BY Zenon, <4>4, PrefixAppend
      <4>6. index \in 0..(k - 1)
        BY <3>8
      <4>7. c[k][index] = <<h[k][lo], Len(q)>>
        BY <2>1, <3>4, <3>6, <4>1, <4>5, <4>6, Zenon DEF PathsVerify
      <4>8. JoinedLeft(c[n][index], <<h[k][lo], Len(q)>>, proof)
        BY <3>3, <3>8, <4>7, Zenon
      <4>9. c[n][index] = <<node_hash(h[k][lo], x), Len(q) + 1>>
        <5>1. PICK i \in Nat : i = Len(q)
          OBVIOUS
        <5>2. JoinedLeft(c[n][index], <<h[k][lo], i>>, proof) /\ i < Len(proof)
          BY <4>5, <4>8, <5>1, Zenon
        <5>3. c[n][index] = <<node_hash(h[k][lo], proof[i + 1]), i + 1>>
          <6>1. PICK a, r : a = h[k][lo] /\ r = c[n][index]
            BY Zenon
          <6>2. JoinedLeft(r, <<a, i>>, proof) /\ i < Len(proof)
            BY <5>2, <6>1, Zenon
          <6>3. r = <<node_hash(a, proof[i + 1]), i + 1>>
            BY Zenon, <1>0, <6>2, PairJoinLeft
          <6> QED
            BY <6>1, <6>3, Zenon
        <5> QED
          BY <4>5, <5>1, <5>3, Zenon
      <4> QED
        BY <3>2, <4>2, <4>3, <4>5, <4>9, Zenon
    <3>9. CASE index >= k
      <4>0. index - k \in 0..((n - k) - 1) /\ (lo + k) + (index - k) + 1 = lo + index + 1
        BY <3>9
      <4>1. PICK q \in Seq(H) : q = p[n - k][lo + k][index - k]
        BY Zenon, <3>4, <3>7, <4>0 DEF PathsTyped, H
      <4>2. PICK x \in H : x = h[k][lo]
        BY Zenon, <3>5
      <4>3. p[n][lo][index] = Append(q, x)
        BY <3>1, <3>9, <4>1, <4>2, Zenon
      <4>4. IsPrefix(Append(q, x), proof)
        BY <2>1, <4>3, Zenon
      <4>5. /\ IsPrefix(q, proof) /\ Len(q) < Len(proof) /\ proof[Len(q) + 1] = x
            /\ Len(Append(q, x)) = Len(q) + 1
        BY Zenon, <4>4, PrefixAppend
      <4>7. c[n - k][index - k] = <<h[n - k][lo + k], Len(q)>>
        BY <2>1, <3>4, <3>6, <4>0, <4>1, <4>5, Zenon DEF PathsVerify
      <4>8. JoinedRight(c[n][index], <<h[n - k][lo + k], Len(q)>>, proof)
        BY <3>3, <3>9, <4>7, Zenon
      <4>9. c[n][index] = <<node_hash(x, h[n - k][lo + k]), Len(q) + 1>>
        <5>1. PICK i \in Nat : i = Len(q)
          OBVIOUS
        <5>2. JoinedRight(c[n][index], <<h[n - k][lo + k], i>>, proof) /\ i < Len(proof)
          BY <4>5, <4>8, <5>1, Zenon
        <5>3. c[n][index] = <<node_hash(proof[i + 1], h[n - k][lo + k]), i + 1>>
          BY <1>0, <5>2, PairJoinRight, ZenonT(40)
        <5> QED
          BY <4>5, <5>1, <5>3, Zenon
      <4> QED
        BY <3>2, <4>2, <4>3, <4>5, <4>9, Zenon
    <3> QED
      BY <3>8, <3>9
  <2> QED
    BY SMTT(30), <2>5, <2>6
<1> HIDE DEF S
<1>2. Nat \subseteq S
  BY Zenon, <1>1, StrongInduction
<1> QED
  BY Zenon, <1>2 DEF S

\* Where compute_root returned a hash, it had one for the subtree and joined that.
LEMMA JoinBack ==
  ASSUME NEW r, NEW sub, NEW proof, r # None
  PROVE  /\ JoinedLeft(r, sub, proof) => sub # None /\ \E x : r[1] = node_hash(sub[1], x)
         /\ JoinedRight(r, sub, proof) => sub # None /\ \E x : r[1] = node_hash(x, sub[1])
<1>1. ASSUME NEW a, NEW b, r = <<a, b>>
      PROVE  r[1] = a
  BY Zenon, <1>1
<1>2. ASSUME JoinedLeft(r, sub, proof)
      PROVE  sub # None /\ \E x : r[1] = node_hash(sub[1], x)
  <2>1. sub # None /\ r = <<node_hash(sub[1], proof[sub[2] + 1]), sub[2] + 1>>
    BY <1>2, Zenon DEF JoinedLeft
  <2>2. r[1] = node_hash(sub[1], proof[sub[2] + 1])
    BY <1>1, <2>1, Zenon
  <2> QED
    BY <2>1, <2>2, Zenon
<1>3. ASSUME JoinedRight(r, sub, proof)
      PROVE  sub # None /\ \E x : r[1] = node_hash(x, sub[1])
  <2>1. sub # None /\ r = <<node_hash(proof[sub[2] + 1], sub[1]), sub[2] + 1>>
    BY <1>3, Zenon DEF JoinedRight
  <2>2. r[1] = node_hash(proof[sub[2] + 1], sub[1])
    BY <1>1, <2>1, Zenon
  <2> QED
    BY <2>1, <2>2, Zenon
<1> QED
  BY Zenon, <1>2, <1>3

\* In slices of n entries compute_root computes the hash of the slice only from the
\* hash of the entry at that index.
RootsSound(A, h, c, leaf, n) ==
  \A lo \in Nat : \A index \in 0..(n - 1) :
    lo + n <= Len(A) /\ c[n][index] # None /\ c[n][index][1] = h[n][lo]
      => leaf = leaf_hash(A[lo + index + 1])

\* Whatever the proof, compute_root computes the hash of a slice only from the leaf at
\* that index of the slice.
LEMMA RootSound ==
  ASSUME NEW D, NEW A \in Seq(D), NEW h, h = slice_hashes(Leaves(A)),
         NEW leaf, NEW proof, NEW c, c = computed_roots(leaf, Len(A), proof)
  PROVE  \A n \in Nat : RootsSound(A, h, c, leaf, n)
<1> DEFINE S == {n \in Nat : RootsSound(A, h, c, leaf, n)}
<1>0. Len(A) \in Nat
  OBVIOUS
<1>1. ASSUME NEW n \in Nat, \A j \in 0..(n - 1) : j \in S
      PROVE  n \in S
  <2>1. SUFFICES ASSUME NEW lo \in Nat, NEW index \in 0..(n - 1), lo + n <= Len(A),
                        c[n][index] # None, c[n][index][1] = h[n][lo]
                 PROVE  leaf = leaf_hash(A[lo + index + 1])
    BY Zenon DEF RootsSound
  <2>3. IsSliceHash(A, h, n, lo)
    BY Zenon, <2>1, SliceHash
  <2>4. IsRoot(c, leaf, proof, n, index)
    <3>1. n \in 0..Len(A)
      BY <1>0, <2>1
    <3> QED
      BY Zenon, <1>0, <3>1, ComputedRoot
  <2>5. CASE n = 1
    <3>1. h[n][lo] = leaf_hash(A[lo + 1])
      BY <2>3, <2>5, Zenon DEF IsSliceHash
    <3>2. lo + index + 1 = lo + 1
      BY <2>5
    <3>3. c[n][index] = <<leaf, 0>>
      BY <2>4, <2>5, Zenon DEF IsRoot
    <3>4. <<leaf, 0>>[1] = leaf
      BY Zenon
    <3> QED
      BY <2>1, <3>1, <3>2, <3>3, <3>4, Zenon
  <2>6. CASE n > 1
    <3>1. PICK k \in 1..(n - 1) :
            /\ k = largest_power_of_two_less(n)
            /\ index < k => JoinedLeft(c[n][index], c[k][index], proof)
            /\ index >= k => JoinedRight(c[n][index], c[n - k][index - k], proof)
      BY <2>4, <2>6, Zenon DEF IsRoot
    <3>2. h[n][lo] = node_hash(h[k][lo], h[n - k][lo + k])
      BY <2>3, <2>6, <3>1, Zenon DEF IsSliceHash
    <3>4. /\ k \in Nat /\ n - k \in Nat /\ lo + k \in Nat
          /\ k \in 0..(n - 1) /\ n - k \in 0..(n - 1)
          /\ lo + k <= Len(A) /\ (lo + k) + (n - k) <= Len(A)
      BY Zenon, <1>0, <2>1, SubSlice
    <3>5. RootsSound(A, h, c, leaf, k) /\ RootsSound(A, h, c, leaf, n - k)
      BY Zenon, <1>1, <3>4
    <3>6. PICK r, u, v : r = c[n][index] /\ u = h[k][lo] /\ v = h[n - k][lo + k]
      BY Zenon
    <3>7. r # None /\ r[1] = node_hash(u, v)
      BY <2>1, <3>2, <3>6, Zenon
    <3>8. CASE index < k
      <4>1. PICK sub : sub = c[k][index]
        BY Zenon
      <4>2. JoinedLeft(r, sub, proof)
        BY <3>1, <3>6, <3>8, <4>1, Zenon
      <4>3. sub # None /\ \E x : r[1] = node_hash(sub[1], x)
        BY <3>7, <4>2, JoinBack, Zenon
      <4>4. sub[1] = u
        <5>1. PICK x : node_hash(sub[1], x) = node_hash(u, v)
          BY <3>7, <4>3, Zenon
        <5> QED
          BY Zenon, <5>1, NodeParts
      <4>5. index \in 0..(k - 1)
        BY <3>8
      <4> QED
        BY <3>4, <3>5, <3>6, <4>1, <4>3, <4>4, <4>5, Zenon DEF RootsSound
    <3>9. CASE index >= k
      <4>0. index - k \in 0..((n - k) - 1) /\ (lo + k) + (index - k) + 1 = lo + index + 1
        BY <3>9
      <4>1. PICK sub : sub = c[n - k][index - k]
        BY Zenon
      <4>2. JoinedRight(r, sub, proof)
        BY <3>1, <3>6, <3>9, <4>1, Zenon
      <4>3. sub # None /\ \E x : r[1] = node_hash(x, sub[1])
        BY <3>7, <4>2, JoinBack, Zenon
      <4>4. sub[1] = v
        <5>1. PICK x : node_hash(x, sub[1]) = node_hash(u, v)
          BY <3>7, <4>3, Zenon
        <5> QED
          BY <5>1, NodeParts
      <4> QED
        BY <3>4, <3>5, <3>6, <4>0, <4>1, <4>3, <4>4, Zenon DEF RootsSound
    <3> QED
      BY <3>8, <3>9
  <2> QED
    BY <2>5, <2>6
<1> HIDE DEF S
<1>2. Nat \subseteq S
  BY Zenon, <1>1, StrongInduction
<1> QED
  BY Zenon, <1>2 DEF S

\* inclusion_proof and verify_inclusion agree, for logs of any length: the proof for an
\* entry that is in the log verifies under the log's root.
THEOREM InclusionComplete ==
  ASSUME NEW D, NEW A \in Seq(D), NEW index \in 0..(Len(A) - 1)
  PROVE  verify_inclusion(leaf_hash(A[index + 1]), index, Len(A),
                          inclusion_proof(Leaves(A), index), mth_data(A))
<1> DEFINE h == slice_hashes(Leaves(A))
           p == slice_paths(Leaves(A))
           proof == inclusion_proof(Leaves(A), index)
           leaf == leaf_hash(A[index + 1])
           c == computed_roots(leaf, Len(A), proof)
           E == SliceHashes(h, Len(A))
<1>0. Len(Leaves(A)) = Len(A)
  BY Zenon, LeavesType
<1>1. Len(A) \in Nat /\ 0 \in Nat /\ 0 + Len(A) <= Len(A)
  OBVIOUS
<1>2. proof = p[Len(A)][0][index]
  BY Zenon, <1>0 DEF inclusion_proof
<1>3. mth_data(A) = h[Len(A)][0]
  BY Zenon, <1>0 DEF mth_data, mth
<1>4. PathsTyped(A, h, p, Len(A))
  BY Zenon, <1>1, PathType
<1> HIDE DEF h, p, proof, leaf
<1>5. proof \in Seq(E)
  BY Zenon, <1>1, <1>2, <1>4 DEF PathsTyped
<1> HIDE DEF E
<1>6. PathsVerify(A, h, p, c, leaf, proof, Len(A))
  BY Zenon, <1>1, <1>5, PathVerifies DEF h, p
<1>7. IsPrefix(proof, proof)
  BY <1>5 DEF IsPrefix
<1>8. 0 + index + 1 = index + 1
  OBVIOUS
<1>9. leaf = leaf_hash(A[0 + index + 1])
  BY <1>8, Zenon DEF leaf
<1> HIDE DEF c
<1>10. c[Len(A)][index] = <<h[Len(A)][0], Len(proof)>>
  BY <1>1, <1>2, <1>6, <1>7, <1>9, Zenon DEF PathsVerify
<1>11. PICK r, t, i : r = c[Len(A)][index] /\ t = h[Len(A)][0] /\ i = Len(proof)
  BY Zenon
<1>12. r = <<t, i>>
  BY <1>10, <1>11, Zenon
<1>13. r # None /\ r[2] = i /\ r[1] = t
  BY Zenon, <1>12 DEF None
<1>14. index < Len(A)
  BY <1>1
<1> QED
  BY <1>3, <1>11, <1>13, <1>14, Zenon DEF verify_inclusion, c, leaf, proof

\* Nothing else verifies: whatever the proof, verify_inclusion under a log's root and
\* size accepts an entry only at an index where the log has it.
THEOREM InclusionSound ==
  ASSUME NEW D, NEW A \in Seq(D), NEW x, NEW index \in Nat, NEW proof,
         verify_inclusion(leaf_hash(x), index, Len(A), proof, mth_data(A))
  PROVE  index \in 0..(Len(A) - 1) /\ A[index + 1] = x
<1> DEFINE h == slice_hashes(Leaves(A))
           leaf == leaf_hash(x)
           c == computed_roots(leaf, Len(A), proof)
<1>0. Len(Leaves(A)) = Len(A)
  BY Zenon, LeavesType
<1>1. Len(A) \in Nat /\ 0 \in Nat /\ 0 + Len(A) <= Len(A)
  OBVIOUS
<1>2. mth_data(A) = h[Len(A)][0]
  BY Zenon, <1>0 DEF mth_data, mth
<1>3. /\ index < Len(A) /\ c[Len(A)][index] # None
      /\ c[Len(A)][index][1] = mth_data(A)
  BY Zenon DEF verify_inclusion
<1>4. RootsSound(A, h, c, leaf, Len(A))
  BY Zenon, <1>1, RootSound
<1> HIDE DEF h, leaf, c
<1>5. index \in 0..(Len(A) - 1)
  BY <1>1, <1>3
<1>6. leaf = leaf_hash(A[0 + index + 1])
  BY <1>1, <1>2, <1>3, <1>4, <1>5, Zenon DEF RootsSound
<1>7. 0 + index + 1 = index + 1
  OBVIOUS
<1> QED
  BY <1>5, <1>6, <1>7, HashTerms, Zenon DEF leaf

------------------------------------------------------------------------------
\* Consistency proofs.

\* Slices with the same n entries have the same hash.
HashFollows(A, hA, B, hB, n) ==
  \A a, b \in Nat :
    a + n <= Len(A) /\ b + n <= Len(B) /\ SameSlice(A, a, B, b, n) => hA[n][a] = hB[n][b]

\* The hash of a slice depends on the entries of the slice alone.
LEMMA SliceHashFollows ==
  ASSUME NEW D, NEW A \in Seq(D), NEW hA, hA = slice_hashes(Leaves(A)),
                NEW B \in Seq(D), NEW hB, hB = slice_hashes(Leaves(B))
  PROVE  \A n \in Nat : HashFollows(A, hA, B, hB, n)
<1> DEFINE S == {n \in Nat : HashFollows(A, hA, B, hB, n)}
<1>0. Len(A) \in Nat /\ Len(B) \in Nat
  OBVIOUS
<1>1. ASSUME NEW n \in Nat, \A j \in 0..(n - 1) : j \in S
      PROVE  n \in S
  <2>1. SUFFICES ASSUME NEW a \in Nat, NEW b \in Nat, a + n <= Len(A), b + n <= Len(B),
                        SameSlice(A, a, B, b, n)
                 PROVE  hA[n][a] = hB[n][b]
    BY Zenon DEF HashFollows
  <2>2. IsSliceHash(A, hA, n, a)
    BY Zenon, <2>1, SliceHash
  <2>3. IsSliceHash(B, hB, n, b)
    BY Zenon, <2>1, SliceHash
  <2>4. CASE n = 0
    BY <2>2, <2>3, <2>4, Zenon DEF IsSliceHash
  <2>5. CASE n = 1
    <3>1. 1 \in 1..n
      BY <2>5
    <3>2. A[a + 1] = B[b + 1]
      BY <2>1, <3>1, Zenon DEF SameSlice
    <3> QED
      BY <2>2, <2>3, <2>5, <3>2, Zenon DEF IsSliceHash
  <2>6. CASE n > 1
    <3>1. PICK k \in 1..(n - 1) :
            /\ k = largest_power_of_two_less(n)
            /\ hA[n][a] = node_hash(hA[k][a], hA[n - k][a + k])
      BY <2>2, <2>6, Zenon DEF IsSliceHash
    <3>2. hB[n][b] = node_hash(hB[k][b], hB[n - k][b + k])
      BY <2>3, <2>6, <3>1, Zenon DEF IsSliceHash
    <3>3. /\ k \in Nat /\ n - k \in Nat /\ a + k \in Nat
          /\ k \in 0..(n - 1) /\ n - k \in 0..(n - 1)
          /\ a + k <= Len(A) /\ (a + k) + (n - k) <= Len(A)
      BY Zenon, <1>0, <2>1, SubSlice
    <3>4. b + k \in Nat /\ b + k <= Len(B) /\ (b + k) + (n - k) <= Len(B)
      BY Zenon, <1>0, <2>1, SubSlice
    <3>5. HashFollows(A, hA, B, hB, k) /\ HashFollows(A, hA, B, hB, n - k)
      BY Zenon, <1>1, <3>3
    <3>6. SameSlice(A, a, B, b, k)
      <4>1. \A i \in 1..k : i \in 1..n
        OBVIOUS
      <4> QED
        BY <2>1, <4>1, Zenon DEF SameSlice
    <3>7. SameSlice(A, a + k, B, b + k, n - k)
      <4>1. ASSUME NEW i \in 1..(n - k)
            PROVE  A[(a + k) + i] = B[(b + k) + i]
        <5>1. k + i \in 1..n /\ (a + k) + i = a + (k + i) /\ (b + k) + i = b + (k + i)
          OBVIOUS
        <5> QED
          BY Zenon, <2>1, <5>1 DEF SameSlice
      <4> QED
        BY <4>1, Zenon DEF SameSlice
    <3>8. hA[k][a] = hB[k][b]
      BY <2>1, <3>3, <3>4, <3>5, <3>6, Zenon DEF HashFollows
    <3>9. hA[n - k][a + k] = hB[n - k][b + k]
      BY <3>3, <3>4, <3>5, <3>7, Zenon DEF HashFollows
    <3> QED
      BY <3>1, <3>2, <3>8, <3>9, Zenon
  <2> QED
    BY <2>4, <2>5, <2>6
<1> HIDE DEF S
<1>2. Nat \subseteq S
  BY Zenon, <1>1, StrongInduction
<1> QED
  BY Zenon, <1>2 DEF S

\* What subproof returns for the n entries from lo on, of which the old tree had m.
IsSubproof(s, h, n, lo, m, old_known) ==
  /\ m = n /\ old_known => s[n][lo][m][old_known] = <<>>
  /\ m = n /\ ~old_known => s[n][lo][m][old_known] = <<h[n][lo]>>
  /\ m # n => \E k \in 1..(n - 1) :
                /\ k = largest_power_of_two_less(n)
                /\ m <= k => s[n][lo][m][old_known]
                               = Append(s[k][lo][m][old_known], h[n - k][lo + k])
                /\ ~(m <= k) => s[n][lo][m][old_known]
                                  = Append(s[n - k][lo + k][m - k][FALSE], h[k][lo])

\* What subproof returns for a slice of a log.
LEMMA SliceSubproof ==
  ASSUME NEW D, NEW A \in Seq(D), NEW h, h = slice_hashes(Leaves(A)),
         NEW s, s = slice_subproofs(Leaves(A)),
         NEW n \in Nat, NEW lo \in Nat, lo + n <= Len(A), NEW m \in 1..n,
         NEW old_known \in BOOLEAN
  PROVE  IsSubproof(s, h, n, lo, m, old_known)
<1> DEFINE L == Leaves(A)
           E == {leaf_hash(x) : x \in D}
<1>1. L \in Seq(E) /\ Len(L) = Len(A)
  BY Zenon, LeavesType
<1>2. h = slice_hashes(L) /\ s = slice_subproofs(L)
  BY Zenon
<1> HIDE DEF L, E
<1>3. PICK len \in Nat : len = Len(L)
  BY <1>1
<1>4. n \in 0..len /\ lo \in 0..(len - n)
  BY <1>1, <1>3
<1>5. s[n][lo][m][old_known] = subproof_body(s, h, n, lo, m, old_known)
  <2>1. IsUnfolded(s, h, len)
    BY Zenon, <1>1, <1>2, <1>3, SubproofsUnfold
  <2> QED
    BY Zenon, <1>4, <2>1 DEF IsUnfolded
<1>6. CASE m = n
  BY <1>5, <1>6, Zenon DEF subproof_body, IsSubproof
<1>7. CASE m # n
  <2>1. PICK k \in 1..(n - 1) : k = largest_power_of_two_less(n)
    <3>1. n > 1
      BY <1>7
    <3> QED
      BY Zenon, <3>1, SplitBounds
  <2> QED
    BY <1>5, <1>7, <2>1, Zenon DEF subproof_body, IsSubproof
<1> QED
  BY Zenon, <1>6, <1>7

\* The subproofs of slices of n entries are sequences of hashes.
SubproofsTyped(A, h, s, n) ==
  \A lo \in Nat : \A m \in 1..n : \A old_known \in BOOLEAN :
    lo + n <= Len(A) => s[n][lo][m][old_known] \in Seq(SliceHashes(h, Len(A)))

\* A subproof is a sequence of hashes of slices.
LEMMA SubproofType ==
  ASSUME NEW D, NEW A \in Seq(D), NEW h, h = slice_hashes(Leaves(A)),
         NEW s, s = slice_subproofs(Leaves(A))
  PROVE  \A n \in Nat : SubproofsTyped(A, h, s, n)
<1> DEFINE S == {n \in Nat : SubproofsTyped(A, h, s, n)}
<1>0. Len(A) \in Nat
  OBVIOUS
<1>1. ASSUME NEW n \in Nat, \A j \in 0..(n - 1) : j \in S
      PROVE  n \in S
  <2> DEFINE H == SliceHashes(h, Len(A))
  <2>1. SUFFICES ASSUME NEW lo \in Nat, NEW m \in 1..n, NEW old_known \in BOOLEAN,
                        lo + n <= Len(A)
                 PROVE  s[n][lo][m][old_known] \in Seq(H)
    BY Zenon DEF SubproofsTyped
  <2>2. IsSubproof(s, h, n, lo, m, old_known)
    BY Zenon, <2>1, SliceSubproof
  <2>3. CASE m = n
    <3>1. n \in 0..Len(A) /\ lo \in 0..Len(A)
      BY <1>0, <2>1
    <3>2. PICK x \in H : x = h[n][lo]
      BY Zenon, <3>1, SliceHashIn
    <3> HIDE DEF H
    <3>3. <<>> \in Seq(H) /\ <<x>> \in Seq(H)
      OBVIOUS
    <3>4. s[n][lo][m][old_known] = <<>> \/ s[n][lo][m][old_known] = <<x>>
      BY <2>2, <2>3, <3>2, Zenon DEF IsSubproof
    <3> QED
      BY <3>3, <3>4, Zenon
  <2>4. CASE m # n
    <3>1. PICK k \in 1..(n - 1) :
                /\ m <= k => s[n][lo][m][old_known]
                               = Append(s[k][lo][m][old_known], h[n - k][lo + k])
                /\ ~(m <= k) => s[n][lo][m][old_known]
                                  = Append(s[n - k][lo + k][m - k][FALSE], h[k][lo])
      BY <2>2, <2>4, Zenon DEF IsSubproof
    <3>2. /\ k \in Nat /\ n - k \in Nat /\ lo + k \in Nat
          /\ k \in 0..(n - 1) /\ n - k \in 0..(n - 1)
          /\ lo + k <= Len(A) /\ (lo + k) + (n - k) <= Len(A)
          /\ k \in 0..Len(A) /\ n - k \in 0..Len(A) /\ lo \in 0..Len(A) /\ lo + k \in 0..Len(A)
      BY Zenon, <1>0, <2>1, SubSlice
    <3>3. h[n - k][lo + k] \in H /\ h[k][lo] \in H
      BY Zenon, <3>2, SliceHashIn
    <3>4. SubproofsTyped(A, h, s, k) /\ SubproofsTyped(A, h, s, n - k)
      BY Zenon, <1>1, <3>2
    <3> HIDE DEF H
    <3>5. CASE m <= k
      <4>1. m \in 1..k
        BY <3>5
      <4>2. s[k][lo][m][old_known] \in Seq(H)
        BY Zenon, <3>2, <3>4, <4>1 DEF SubproofsTyped, H
      <4> QED
        BY <3>1, <3>3, <3>5, <4>2, AppendType, Zenon
    <3>6. CASE ~(m <= k)
      <4>1. m - k \in 1..(n - k)
        BY <3>6
      <4>2. s[n - k][lo + k][m - k][FALSE] \in Seq(H)
        BY Zenon, <3>2, <3>4, <4>1 DEF SubproofsTyped, H
      <4> QED
        BY <3>1, <3>3, <3>6, <4>2, AppendType, Zenon
    <3> QED
      BY Zenon, <3>5, <3>6
  <2> QED
    BY Zenon, <2>3, <2>4
<1> HIDE DEF S
<1>2. Nat \subseteq S
  BY Zenon, <1>1, StrongInduction
<1> QED
  BY Zenon, <1>2 DEF S

\* verify_subproof joins what it computed for one part with the next hash of the proof:
\* on the right of a new root, or on the left of both roots.
CheckedLeft(r, sub, proof) ==
  /\ sub = None \/ sub[3] >= Len(proof) => r = None
  /\ ~(sub = None \/ sub[3] >= Len(proof)) =>
       r = <<sub[1], node_hash(sub[2], proof[sub[3] + 1]), sub[3] + 1>>

\* verify_subproof in the right subtree: the next hash of the proof is the left child of
\* the old tree and of the new one.
CheckedRight(r, sub, proof) ==
  /\ sub = None \/ sub[3] >= Len(proof) => r = None
  /\ ~(sub = None \/ sub[3] >= Len(proof)) =>
       r = <<node_hash(proof[sub[3] + 1], sub[1]), node_hash(proof[sub[3] + 1], sub[2]),
             sub[3] + 1>>

\* What verify_subproof returns for a tree of n leaves, of which the old one had m.
IsCheck(v, old_root, proof, n, m, old_known) ==
  /\ m = n /\ old_known => v[n][m][old_known] = <<old_root, old_root, 0>>
  /\ m = n /\ ~old_known =>
       v[n][m][old_known] = IF Len(proof) = 0 THEN None ELSE <<proof[1], proof[1], 1>>
  /\ m # n => \E k \in 1..(n - 1) :
                /\ k = largest_power_of_two_less(n)
                /\ m <= k => CheckedLeft(v[n][m][old_known], v[k][m][old_known], proof)
                /\ ~(m <= k) => CheckedRight(v[n][m][old_known], v[n - k][m - k][FALSE], proof)

\* What verify_subproof returns for a tree of n leaves.
LEMMA SubproofCheck ==
  ASSUME NEW old_root, NEW N \in Nat, NEW proof,
         NEW v, v = verified_subproofs(old_root, N, proof),
         NEW n \in 0..N, NEW m \in 1..n, NEW old_known \in BOOLEAN
  PROVE  IsCheck(v, old_root, proof, n, m, old_known)
<1>1. v[n][m][old_known] = verify_subproof_body(v, old_root, proof, n, m, old_known)
  BY ChecksUnfold
<1>2. CASE m = n
  BY <1>1, <1>2, Zenon DEF verify_subproof_body, IsCheck
<1>3. CASE m # n
  <2>1. PICK k \in 1..(n - 1) : k = largest_power_of_two_less(n)
    <3>1. n \in Nat /\ n > 1
      BY <1>3
    <3> QED
      BY Zenon, <3>1, SplitBounds
  <2>2. ASSUME m <= k
        PROVE  CheckedLeft(v[n][m][old_known], v[k][m][old_known], proof)
    BY <1>1, <1>3, <2>1, <2>2, Zenon DEF verify_subproof_body, CheckedLeft
  <2>3. ASSUME ~(m <= k)
        PROVE  CheckedRight(v[n][m][old_known], v[n - k][m - k][FALSE], proof)
    BY <1>1, <1>3, <2>1, <2>3, Zenon DEF verify_subproof_body, CheckedRight
  <2> QED
    BY <1>3, <2>1, <2>2, <2>3, Zenon DEF IsCheck
<1> QED
  BY Zenon, <1>2, <1>3

\* In slices of n entries verify_subproof computes the hash of the first m entries and
\* of all n, and consumes as many hashes as the subproof has.
SubproofsVerify(A, h, s, v, old_root, proof, n) ==
  \A lo \in Nat : \A m \in 1..n : \A old_known \in BOOLEAN :
    /\ lo + n <= Len(A)
    /\ old_known => old_root = h[m][lo]
    /\ IsPrefix(s[n][lo][m][old_known], proof)
    => v[n][m][old_known] = <<h[m][lo], h[n][lo], Len(s[n][lo][m][old_known])>>

\* From a proof that starts with the subproof of a slice, verify_subproof computes the
\* hash of the slice and that of its first m leaves.
LEMMA SubproofVerifies ==
  ASSUME NEW D, NEW A \in Seq(D), NEW h, h = slice_hashes(Leaves(A)),
         NEW s, s = slice_subproofs(Leaves(A)), NEW old_root, NEW E, NEW proof \in Seq(E),
         NEW v, v = verified_subproofs(old_root, Len(A), proof)
  PROVE  \A n \in Nat : SubproofsVerify(A, h, s, v, old_root, proof, n)
<1> DEFINE S == {n \in Nat : SubproofsVerify(A, h, s, v, old_root, proof, n)}
           H == SliceHashes(h, Len(A))
<1>0. Len(A) \in Nat /\ Len(proof) \in Nat
  OBVIOUS
<1>1. ASSUME NEW n \in Nat, \A j \in 0..(n - 1) : j \in S
      PROVE  n \in S
  <2>1. SUFFICES ASSUME NEW lo \in Nat, NEW m \in 1..n, NEW old_known \in BOOLEAN,
                        lo + n <= Len(A), old_known => old_root = h[m][lo],
                        IsPrefix(s[n][lo][m][old_known], proof)
                 PROVE  v[n][m][old_known] = <<h[m][lo], h[n][lo], Len(s[n][lo][m][old_known])>>
    BY ZenonT(40) DEF SubproofsVerify
  <2>2. IsSubproof(s, h, n, lo, m, old_known)
    BY Zenon, <2>1, SliceSubproof
  <2>3. IsSliceHash(A, h, n, lo)
    BY Zenon, <2>1, SliceHash
  <2>4. IsCheck(v, old_root, proof, n, m, old_known)
    <3>1. n \in 0..Len(A)
      BY <1>0, <2>1
    <3> QED
      BY Zenon, <1>0, <3>1, SubproofCheck
  <2>5. CASE m = n /\ old_known
    <3>1. s[n][lo][m][old_known] = <<>>
      BY <2>2, <2>5, Zenon DEF IsSubproof
    <3>2. Len(<<>>) = 0
      BY Zenon
    <3>3. v[n][m][old_known] = <<old_root, old_root, 0>>
      BY <2>4, <2>5, Zenon DEF IsCheck
    <3> QED
      BY <2>1, <2>5, <3>1, <3>2, <3>3, Zenon
  <2>6. CASE m = n /\ ~old_known
    <3>1. PICK x : x = h[n][lo]
      BY Zenon
    <3>2. s[n][lo][m][old_known] = <<x>>
      BY <2>2, <2>6, <3>1, Zenon DEF IsSubproof
    <3>3. Len(<<x>>) = 1 /\ <<x>>[1] = x /\ 1 \in 1..1 /\ 1 <= 1
      OBVIOUS
    <3>4. IsPrefix(<<x>>, proof)
      BY <2>1, <3>2, Zenon
    <3>5. 1 <= Len(proof) /\ proof[1] = x
      BY <3>3, <3>4, Zenon DEF IsPrefix
    <3>6. Len(proof) # 0
      BY <1>0, <3>5
    <3>7. v[n][m][old_known] = <<proof[1], proof[1], 1>>
      BY <2>4, <2>6, <3>6, Zenon DEF IsCheck
    <3> QED
      BY <2>6, <3>1, <3>2, <3>3, <3>5, <3>7, Zenon
  <2>7. CASE m # n
    <3>1. PICK k \in 1..(n - 1) :
            /\ k = largest_power_of_two_less(n)
            /\ m <= k => s[n][lo][m][old_known]
                           = Append(s[k][lo][m][old_known], h[n - k][lo + k])
            /\ ~(m <= k) => s[n][lo][m][old_known]
                              = Append(s[n - k][lo + k][m - k][FALSE], h[k][lo])
      BY <2>2, <2>7, Zenon DEF IsSubproof
    <3>0. n > 1
      BY <2>7
    <3>2. h[n][lo] = node_hash(h[k][lo], h[n - k][lo + k])
      BY <2>3, <3>0, <3>1, Zenon DEF IsSliceHash
    <3>3. /\ m <= k => CheckedLeft(v[n][m][old_known], v[k][m][old_known], proof)
          /\ ~(m <= k) => CheckedRight(v[n][m][old_known], v[n - k][m - k][FALSE], proof)
      BY <2>4, <2>7, <3>1, Zenon DEF IsCheck
    <3>4. /\ k \in Nat /\ n - k \in Nat /\ lo + k \in Nat
          /\ k \in 0..(n - 1) /\ n - k \in 0..(n - 1)
          /\ lo + k <= Len(A) /\ (lo + k) + (n - k) <= Len(A)
          /\ k \in 0..Len(A) /\ n - k \in 0..Len(A) /\ lo \in 0..Len(A) /\ lo + k \in 0..Len(A)
      BY Zenon, <1>0, <2>1, SubSlice
    <3>5. h[n - k][lo + k] \in H /\ h[k][lo] \in H
      BY Zenon, <3>4, SliceHashIn
    <3>6. /\ SubproofsVerify(A, h, s, v, old_root, proof, k)
          /\ SubproofsVerify(A, h, s, v, old_root, proof, n - k)
      BY Zenon, <1>1, <3>4
    <3>7. SubproofsTyped(A, h, s, k) /\ SubproofsTyped(A, h, s, n - k)
      BY Zenon, <3>4, SubproofType
    <3> HIDE DEF H
    <3>8. CASE m <= k
      <4>0. m \in 1..k
        BY <3>8
      <4>1. PICK q \in Seq(H) : q = s[k][lo][m][old_known]
        BY Zenon, <3>4, <3>7, <4>0 DEF SubproofsTyped, H
      <4>2. PICK x \in H : x = h[n - k][lo + k]
        BY Zenon, <3>5
      <4>3. s[n][lo][m][old_known] = Append(q, x)
        BY <3>1, <3>8, <4>1, <4>2, Zenon
      <4>4. IsPrefix(Append(q, x), proof)
        BY <2>1, <4>3, Zenon
      <4>5. /\ IsPrefix(q, proof) /\ Len(q) < Len(proof) /\ proof[Len(q) + 1] = x
            /\ Len(Append(q, x)) = Len(q) + 1
        BY Zenon, <4>4, PrefixAppend
      <4>6. PICK i \in Nat : i = Len(q)
        OBVIOUS
      <4>7. v[k][m][old_known] = <<h[m][lo], h[k][lo], i>>
        BY <2>1, <3>4, <3>6, <4>0, <4>1, <4>5, <4>6, ZenonT(40) DEF SubproofsVerify
      <4>8. PICK r, a, b : r = v[n][m][old_known] /\ a = h[m][lo] /\ b = h[k][lo]
        BY Zenon
      <4>9. CheckedLeft(r, <<a, b, i>>, proof) /\ i < Len(proof)
        BY <3>3, <3>8, <4>5, <4>6, <4>7, <4>8, Zenon
      <4>10. r = <<a, node_hash(b, proof[i + 1]), i + 1>>
        BY <1>0, <4>9 DEF CheckedLeft, None
      <4> QED
        BY <3>2, <4>2, <4>3, <4>5, <4>6, <4>8, <4>10, Zenon
    <3>9. CASE ~(m <= k)
      <4>0. m - k \in 1..(n - k) /\ m \in Nat /\ m > 1 /\ k < m /\ m <= n /\ lo + m <= Len(A)
        BY <1>0, <2>1, <3>9
      <4>1. PICK q \in Seq(H) : q = s[n - k][lo + k][m - k][FALSE]
        BY Zenon, <3>4, <3>7, <4>0 DEF SubproofsTyped, H
      <4>2. PICK x \in H : x = h[k][lo]
        BY Zenon, <3>5
      <4>3. s[n][lo][m][old_known] = Append(q, x)
        BY <3>1, <3>9, <4>1, <4>2, Zenon
      <4>4. IsPrefix(Append(q, x), proof)
        BY <2>1, <4>3, Zenon
      <4>5. /\ IsPrefix(q, proof) /\ Len(q) < Len(proof) /\ proof[Len(q) + 1] = x
            /\ Len(Append(q, x)) = Len(q) + 1
        BY Zenon, <4>4, PrefixAppend
      <4>6. PICK i \in Nat : i = Len(q)
        OBVIOUS
      <4>7. v[n - k][m - k][FALSE] = <<h[m - k][lo + k], h[n - k][lo + k], i>>
        BY <3>4, <3>6, <4>0, <4>1, <4>5, <4>6, ZenonT(40) DEF SubproofsVerify
      <4>8. PICK r, a, b : r = v[n][m][old_known] /\ a = h[m - k][lo + k] /\ b = h[n - k][lo + k]
        BY Zenon
      <4>9. CheckedRight(r, <<a, b, i>>, proof) /\ i < Len(proof)
        BY <3>3, <3>9, <4>5, <4>6, <4>7, <4>8, Zenon
      <4>10. r = <<node_hash(proof[i + 1], a), node_hash(proof[i + 1], b), i + 1>>
        BY <1>0, <4>9 DEF CheckedRight, None
      <4>11. k = largest_power_of_two_less(m)
        BY Zenon, <3>0, <3>1, <4>0, SameSplit
      <4>12. IsSliceHash(A, h, m, lo)
        BY Zenon, <4>0, SliceHash
      <4>13. h[m][lo] = node_hash(h[k][lo], h[m - k][lo + k])
        BY <4>0, <4>11, <4>12, Zenon DEF IsSliceHash
      <4> QED
        BY <3>2, <4>2, <4>3, <4>5, <4>6, <4>8, <4>10, <4>13, Zenon
    <3> QED
      BY Zenon, <3>8, <3>9
  <2> QED
    BY Zenon, <2>5, <2>6, <2>7
<1> HIDE DEF S
<1>2. Nat \subseteq S
  BY Zenon, <1>1, StrongInduction
<1> QED
  BY Zenon, <1>2 DEF S

\* Where verify_subproof returned two hashes, it had two for the subtree and joined those.
LEMMA CheckBack ==
  ASSUME NEW r, NEW sub, NEW proof, r # None
  PROVE  /\ CheckedLeft(r, sub, proof) =>
              sub # None /\ r[1] = sub[1] /\ \E y : r[2] = node_hash(sub[2], y)
         /\ CheckedRight(r, sub, proof) =>
              sub # None /\ \E y : r[1] = node_hash(y, sub[1]) /\ r[2] = node_hash(y, sub[2])
<1>1. ASSUME NEW a, NEW b, NEW c, r = <<a, b, c>>
      PROVE  r[1] = a /\ r[2] = b
  BY Zenon, <1>1
<1>2. ASSUME CheckedLeft(r, sub, proof)
      PROVE  sub # None /\ r[1] = sub[1] /\ \E y : r[2] = node_hash(sub[2], y)
  <2>1. sub # None /\ r = <<sub[1], node_hash(sub[2], proof[sub[3] + 1]), sub[3] + 1>>
    BY <1>2, Zenon DEF CheckedLeft
  <2>2. r[1] = sub[1] /\ r[2] = node_hash(sub[2], proof[sub[3] + 1])
    BY <1>1, <2>1, Zenon
  <2> QED
    BY <2>1, <2>2, Zenon
<1>3. ASSUME CheckedRight(r, sub, proof)
      PROVE  sub # None /\ \E y : r[1] = node_hash(y, sub[1]) /\ r[2] = node_hash(y, sub[2])
  <2>1. PICK y : y = proof[sub[3] + 1]
    BY Zenon
  <2>2. sub # None /\ r = <<node_hash(y, sub[1]), node_hash(y, sub[2]), sub[3] + 1>>
    BY <1>3, <2>1, Zenon DEF CheckedRight
  <2>3. r[1] = node_hash(y, sub[1]) /\ r[2] = node_hash(y, sub[2])
    BY <1>1, <2>2, Zenon
  <2> QED
    BY <2>2, <2>3, Zenon
<1> QED
  BY Zenon, <1>2, <1>3

\* Two slices are the same when their two parts are.
LEMMA SlicesJoin ==
  ASSUME NEW A, NEW B, NEW a \in Nat, NEW b \in Nat, NEW m \in Nat, NEW k \in 1..m,
         SameSlice(A, a, B, b, k), SameSlice(A, a + k, B, b + k, m - k)
  PROVE  SameSlice(A, a, B, b, m)
<1>1. ASSUME NEW i \in 1..m
      PROVE  A[a + i] = B[b + i]
  <2>1. CASE i <= k
    BY <2>1 DEF SameSlice
  <2>2. CASE ~(i <= k)
    <3>1. /\ i - k \in 1..(m - k)
          /\ (a + k) + (i - k) = a + i /\ (b + k) + (i - k) = b + i
      BY <2>2
    <3>2. A[(a + k) + (i - k)] = B[(b + k) + (i - k)]
      BY <3>1, Zenon DEF SameSlice
    <3> QED
      BY <3>1, <3>2, Zenon
  <2> QED
    BY Zenon, <2>1, <2>2
<1> QED
  BY <1>1, Zenon DEF SameSlice

\* Where verify_subproof computes the hashes of a slice of A and of a slice of B, the
\* entries of the first are the first entries of the second.
ChecksSound(A, hA, B, hB, v, n) ==
  \A m \in 1..n : \A old_known \in BOOLEAN : \A a, b \in Nat :
    /\ a + m <= Len(A) /\ b + n <= Len(B)
    /\ v[n][m][old_known] # None
    /\ v[n][m][old_known][1] = hA[m][a]
    /\ v[n][m][old_known][2] = hB[n][b]
    => SameSlice(A, a, B, b, m)

\* Whatever the proof, verify_subproof computes the hash of a slice of one log and that
\* of a slice of another only if the second starts with the entries of the first.
LEMMA CheckSound ==
  ASSUME NEW D, NEW A \in Seq(D), NEW hA, hA = slice_hashes(Leaves(A)),
                NEW B \in Seq(D), NEW hB, hB = slice_hashes(Leaves(B)),
         NEW old_root, NEW proof, NEW v, v = verified_subproofs(old_root, Len(B), proof)
  PROVE  \A n \in Nat : ChecksSound(A, hA, B, hB, v, n)
<1> DEFINE S == {n \in Nat : ChecksSound(A, hA, B, hB, v, n)}
<1>0. Len(A) \in Nat /\ Len(B) \in Nat
  OBVIOUS
<1>1. ASSUME NEW n \in Nat, \A j \in 0..(n - 1) : j \in S
      PROVE  n \in S
  <2>1. SUFFICES ASSUME NEW m \in 1..n, NEW old_known \in BOOLEAN, NEW a \in Nat, NEW b \in Nat,
                        a + m <= Len(A), b + n <= Len(B),
                        v[n][m][old_known] # None,
                        v[n][m][old_known][1] = hA[m][a],
                        v[n][m][old_known][2] = hB[n][b]
                 PROVE  SameSlice(A, a, B, b, m)
    BY Zenon DEF ChecksSound
  <2>2. m \in Nat /\ n \in 0..Len(B)
    BY <1>0, <2>1
  <2>3. IsSliceHash(B, hB, n, b)
    BY Zenon, <2>1, SliceHash
  <2>4. IsCheck(v, old_root, proof, n, m, old_known)
    BY Zenon, <1>0, <2>2, SubproofCheck
  <2>5. PICK r : r = v[n][m][old_known]
    BY Zenon
  <2>6. CASE m = n
    <3>1. \E x, i : r = <<x, x, i>>
      BY <2>1, <2>4, <2>5, <2>6, Zenon DEF IsCheck
    <3>2. r[1] = r[2]
      BY <3>1
    <3>3. hA[m][a] = hB[n][b]
      BY <2>1, <2>5, <3>2, Zenon
    <3>4. HashCommits(A, hA, B, hB, m)
      BY Zenon, <2>2, SliceHashCommits
    <3> QED
      BY <2>1, <2>6, <3>3, <3>4, Zenon DEF HashCommits
  <2>7. CASE m # n
    <3>1. PICK k \in 1..(n - 1) :
            /\ k = largest_power_of_two_less(n)
            /\ m <= k => CheckedLeft(r, v[k][m][old_known], proof)
            /\ ~(m <= k) => CheckedRight(r, v[n - k][m - k][FALSE], proof)
      BY <2>4, <2>5, <2>7, Zenon DEF IsCheck
    <3>2. n > 1
      BY <2>7
    <3>3. PICK p, q : p = hB[k][b] /\ q = hB[n - k][b + k]
      BY Zenon
    <3>4. r # None /\ r[1] = hA[m][a] /\ r[2] = node_hash(p, q)
      BY <2>1, <2>3, <2>5, <3>1, <3>2, <3>3, Zenon DEF IsSliceHash
    <3>5. /\ k \in Nat /\ n - k \in Nat /\ b + k \in Nat
          /\ k \in 0..(n - 1) /\ n - k \in 0..(n - 1)
          /\ b + k <= Len(B) /\ (b + k) + (n - k) <= Len(B)
      BY Zenon, <1>0, <2>1, SubSlice
    <3>6. ChecksSound(A, hA, B, hB, v, k) /\ ChecksSound(A, hA, B, hB, v, n - k)
      BY Zenon, <1>1, <3>5
    <3>7. CASE m <= k
      <4>1. m \in 1..k
        BY <3>7
      <4>2. PICK sub : sub = v[k][m][old_known]
        BY Zenon
      <4>3. CheckedLeft(r, sub, proof)
        BY <3>1, <3>7, <4>2, Zenon
      <4>4. sub # None /\ r[1] = sub[1] /\ \E y : r[2] = node_hash(sub[2], y)
        BY <3>4, <4>3, CheckBack, ZenonT(40)
      <4>5. sub[2] = p
        <5>1. PICK y : node_hash(sub[2], y) = node_hash(p, q)
          BY <3>4, <4>4, Zenon
        <5> QED
          BY Zenon, <5>1, NodeParts
      <4> QED
        BY <2>1, <3>3, <3>4, <3>5, <3>6, <4>1, <4>2, <4>4, <4>5, Zenon DEF ChecksSound
    <3>8. CASE ~(m <= k)
      <4>0. /\ m - k \in 1..(n - k) /\ m - k \in Nat /\ m > 1 /\ k < m /\ m <= n /\ k \in 1..m
            /\ a + k \in Nat /\ a + k <= Len(A) /\ (a + k) + (m - k) <= Len(A)
        <5>1. m - k \in 1..(n - k) /\ m - k \in Nat /\ m > 1 /\ k < m /\ m <= n /\ k \in 1..m
          BY <2>2, <3>8
        <5>2. a + k \in Nat /\ a + k <= a + m /\ (a + k) + (m - k) = a + m
          BY <2>2, <5>1
        <5> QED
          BY SMTT(30), <1>0, <2>1, <2>2, <5>1, <5>2
      <4>1. PICK sub : sub = v[n - k][m - k][FALSE]
        BY Zenon
      <4>2. CheckedRight(r, sub, proof)
        BY <3>1, <3>8, <4>1, Zenon
      <4>3. PICK y : sub # None /\ r[1] = node_hash(y, sub[1]) /\ r[2] = node_hash(y, sub[2])
        <5>1. /\ sub # None
              /\ \E y : r[1] = node_hash(y, sub[1]) /\ r[2] = node_hash(y, sub[2])
          BY <3>4, <4>2, CheckBack, Zenon
        <5> QED
          BY <5>1, Zenon
      <4>4. y = p /\ sub[2] = q
        <5>1. node_hash(y, sub[2]) = node_hash(p, q)
          BY <3>4, <4>3, Zenon
        <5> QED
          BY <5>1, NodeParts
      <4>5. k = largest_power_of_two_less(m)
        BY Zenon, <2>2, <3>1, <3>2, <4>0, SameSplit
      <4>6. IsSliceHash(A, hA, m, a)
        BY Zenon, <2>1, <2>2, SliceHash
      <4>7. PICK e, f : e = hA[k][a] /\ f = hA[m - k][a + k]
        BY Zenon
      <4>8. hA[m][a] = node_hash(e, f)
        BY <4>0, <4>5, <4>6, <4>7, Zenon DEF IsSliceHash
      <4>9. y = e /\ sub[1] = f
        <5>1. node_hash(y, sub[1]) = node_hash(e, f)
          BY <3>4, <4>3, <4>8, Zenon
        <5> QED
          BY <5>1, NodeParts
      <4>10. HashCommits(A, hA, B, hB, k)
        BY Zenon, <3>5, SliceHashCommits
      <4>11. SameSlice(A, a, B, b, k)
        BY <3>3, <3>5, <4>0, <4>4, <4>7, <4>9, <4>10, Zenon DEF HashCommits
      <4>12. SameSlice(A, a + k, B, b + k, m - k)
        BY <3>3, <3>5, <3>6, <4>0, <4>1, <4>3, <4>4, <4>7, <4>9, Zenon DEF ChecksSound
      <4> QED
        BY Zenon, <2>2, <4>0, <4>11, <4>12, SlicesJoin
    <3> QED
      BY Zenon, <3>7, <3>8
  <2> QED
    BY Zenon, <2>6, <2>7
<1> HIDE DEF S
<1>2. Nat \subseteq S
  BY Zenon, <1>1, StrongInduction
<1> QED
  BY Zenon, <1>2 DEF S

\* consistency_proof and verify_consistency agree, for logs of any two lengths: the
\* proof a log yields for an earlier state of itself verifies.
THEOREM ConsistencyComplete ==
  ASSUME NEW D, NEW A \in Seq(D), NEW B \in Seq(D), IsPrefix(A, B)
  PROVE  verify_consistency(Len(A), Len(B), mth_data(A), mth_data(B),
                            consistency_proof(Leaves(B), Len(A)))
<1> DEFINE m == Len(A)
           n == Len(B)
           hA == slice_hashes(Leaves(A))
           h == slice_hashes(Leaves(B))
           s == slice_subproofs(Leaves(B))
           proof == consistency_proof(Leaves(B), Len(A))
           old_root == mth_data(A)
           v == verified_subproofs(old_root, Len(B), proof)
           E == SliceHashes(h, Len(B))
<1>0. Len(Leaves(A)) = m /\ Len(Leaves(B)) = n
  BY Zenon, LeavesType
<1>1. m \in Nat /\ n \in Nat /\ m <= n
  BY DEF IsPrefix
<1>2. mth_data(A) = hA[m][0] /\ mth_data(B) = h[n][0]
  BY Zenon, <1>0 DEF mth_data, mth
<1>3. h[m][0] = hA[m][0]
  <2>1. HashFollows(A, hA, B, h, m)
    BY Zenon, <1>1, SliceHashFollows
  <2>2. SameSlice(A, 0, B, 0, m)
    BY <1>1 DEF IsPrefix, SameSlice
  <2>3. 0 \in Nat /\ 0 + m <= Len(A) /\ 0 + m <= Len(B)
    BY <1>1
  <2> HIDE DEF hA, h, m
  <2> QED
    BY <2>1, <2>2, <2>3, Zenon DEF HashFollows
<1>4. CASE m = 0
  <2>1. IsSliceHash(A, hA, m, 0)
    <3>1. 0 \in Nat /\ 0 + m <= Len(A)
      BY <1>1
    <3> QED
      BY Zenon, <1>1, <3>1, SliceHash
  <2>2. old_root = EmptyHash
    BY <1>2, <1>4, <2>1, Zenon DEF IsSliceHash
  <2>3. proof = <<>>
    BY <1>4, Zenon DEF consistency_proof
  <2> QED
    BY <1>1, <1>4, <2>2, <2>3, Zenon DEF verify_consistency
<1>5. CASE m # 0 /\ m = n
  <2>1. proof = <<>>
    BY <1>0, <1>5, Zenon DEF consistency_proof
  <2>2. old_root = mth_data(B)
    BY <1>2, <1>3, <1>5, Zenon
  <2> QED
    BY <1>1, <1>5, <2>1, <2>2, Zenon DEF verify_consistency
<1>6. CASE m # 0 /\ m # n
  <2>1. proof = s[n][0][m][TRUE]
    BY <1>0, <1>6, Zenon DEF consistency_proof
  <2>2. m \in 1..n /\ TRUE \in BOOLEAN /\ 0 \in Nat /\ 0 + n <= Len(B)
    BY <1>1, <1>6
  <2>3. SubproofsTyped(B, h, s, n)
    BY Zenon, <1>1, SubproofType
  <2> HIDE DEF s, h, hA, proof, old_root, m, n
  <2>4. proof \in Seq(E)
    BY Zenon, <2>1, <2>2, <2>3 DEF SubproofsTyped
  <2> HIDE DEF E
  <2>5. SubproofsVerify(B, h, s, v, old_root, proof, n)
    BY Zenon, <1>1, <2>4, SubproofVerifies DEF s, h
  <2>6. IsPrefix(proof, proof)
    BY <2>4 DEF IsPrefix
  <2> HIDE DEF v
  <2>7. old_root = h[m][0]
    BY <1>2, <1>3, Zenon DEF old_root
  <2>8. v[n][m][TRUE] = <<h[m][0], h[n][0], Len(proof)>>
    BY <2>1, <2>2, <2>5, <2>6, <2>7, Zenon DEF SubproofsVerify
  <2>9. PICK r, a, b, i : r = v[n][m][TRUE] /\ a = h[m][0] /\ b = h[n][0] /\ i = Len(proof)
    BY Zenon
  <2>10. r = <<a, b, i>>
    BY <2>8, <2>9, Zenon
  <2>11. r # None /\ r[3] = i /\ r[1] = a /\ r[2] = b
    BY Zenon, <2>10 DEF None
  <2>12. v[n][m][TRUE] # None /\ v[n][m][TRUE][3] = Len(proof)
         /\ v[n][m][TRUE][1] = old_root /\ v[n][m][TRUE][2] = mth_data(B)
    BY <1>2, <2>7, <2>9, <2>11, Zenon
  <2>13. verify_consistency(m, n, old_root, mth_data(B), proof)
    BY <1>1, <1>6, <2>12, Zenon DEF verify_consistency, v, n
  <2> QED
    BY <2>13, Zenon DEF m, n, old_root, proof
<1> QED
  BY Zenon, <1>4, <1>5, <1>6

\* Nothing else verifies: whatever the proof, verify_consistency accepts the roots and
\* sizes of two logs only if the first log is a prefix of the second.
THEOREM ConsistencySound ==
  ASSUME NEW D, NEW A \in Seq(D), NEW B \in Seq(D), NEW proof,
         verify_consistency(Len(A), Len(B), mth_data(A), mth_data(B), proof)
  PROVE  IsPrefix(A, B)
<1> DEFINE m == Len(A)
           n == Len(B)
           hA == slice_hashes(Leaves(A))
           hB == slice_hashes(Leaves(B))
           v == verified_subproofs(mth_data(A), Len(B), proof)
<1>0. Len(Leaves(A)) = m /\ Len(Leaves(B)) = n
  BY Zenon, LeavesType
<1>1. m \in Nat /\ n \in Nat
  OBVIOUS
<1>2. mth_data(A) = hA[m][0] /\ mth_data(B) = hB[n][0]
  BY Zenon, <1>0 DEF mth_data, mth
<1>3. m <= n
  BY Zenon DEF verify_consistency
<1>4. CASE m = 0
  BY <1>1, <1>4 DEF IsPrefix
<1>5. CASE m # 0 /\ m = n
  <2>1. mth_data(A) = mth_data(B)
    BY <1>5, Zenon DEF verify_consistency
  <2>2. A = B
    BY Zenon, <2>1, RootCommits
  <2> QED
    BY <2>2 DEF IsPrefix
<1>6. CASE m # 0 /\ m # n
  <2>1. v[n][m][TRUE] # None /\ v[n][m][TRUE][1] = hA[m][0] /\ v[n][m][TRUE][2] = hB[n][0]
    BY <1>2, <1>6, Zenon DEF verify_consistency
  <2>2. ChecksSound(A, hA, B, hB, v, n)
    BY Zenon, <1>1, CheckSound
  <2>3. m \in 1..n /\ TRUE \in BOOLEAN /\ 0 \in Nat /\ 0 + m <= Len(A) /\ 0 + n <= Len(B)
    BY <1>1, <1>3, <1>6
  <2> HIDE DEF v, hA, hB
  <2>4. SameSlice(A, 0, B, 0, m)
    BY <2>1, <2>2, <2>3, Zenon DEF ChecksSound
  <2> QED
    BY <1>1, <1>3, <2>4 DEF SameSlice, IsPrefix
<1> QED
  BY Zenon, <1>4, <1>5, <1>6

------------------------------------------------------------------------------
\* The auditor.

\* The log and what the auditor has seen of it are lists of entries.
IInv == log \in Seq(Entry) /\ seen \in Seq(Entry)

\* Every step appends an entry or moves the auditor to a log.
LEMMA IInvHolds == Spec => []IInv
<1>1. Init => IInv
  BY DEF Init, IInv
<1>2. ASSUME IInv, [Next]_vars
      PROVE  IInv'
  <2>1. ASSUME NEW x \in Entry, AppendEntry(x)
        PROVE  IInv'
    BY <1>2, <2>1 DEF IInv, AppendEntry
  <2>2. ASSUME NEW other \in Logs, OtherHistory(other)
        PROVE  IInv'
    <3>1. PICK n \in 0..MaxLeaves : other \in [1..n -> Entry]
      BY Zenon DEF Logs
    <3>2. other \in Seq(Entry)
      BY <3>1
    <3> QED
      BY Zenon, <1>2, <2>2, <3>2 DEF IInv, OtherHistory
  <2>3. CASE Audit
    BY Zenon, <1>2, <2>3 DEF IInv, Audit
  <2>4. CASE UNCHANGED vars
    BY Zenon, <1>2, <2>4 DEF IInv, vars
  <2> QED
    BY Zenon, <1>2, <2>1, <2>2, <2>3, <2>4 DEF Next
<1> QED
  BY <1>1, <1>2, PTL DEF Spec

\* An auditor that moves to a newer head only with a proof verify_consistency accepts
\* follows one history, for logs of any length: what it has accepted is never rewritten.
THEOREM AuditorFollows == Spec => SeenOnlyGrows
<1>1. ASSUME IInv, [Next]_vars
      PROVE  IsPrefix(seen, seen')
  <2>1. ASSUME seen' = seen
        PROVE  IsPrefix(seen, seen')
    BY <1>1, <2>1 DEF IInv, IsPrefix
  <2>2. CASE Audit
    <3>1. verify_consistency(Len(seen), Len(log), mth_data(seen), mth_data(log),
                             consistency_proof(Leaves(log), Len(seen)))
      BY Zenon, <2>2 DEF Audit, Accepts
    <3>2. IsPrefix(seen, log)
      BY Zenon, <1>1, <3>1, ConsistencySound DEF IInv
    <3> QED
      BY Zenon, <2>2, <3>2 DEF Audit
  <2> QED
    BY Zenon, <1>1, <2>1, <2>2 DEF Next, AppendEntry, OtherHistory, vars
<1>2. IInv /\ [Next]_vars => [IsPrefix(seen, seen')]_vars
  BY Zenon, <1>1
<1> QED
  BY <1>2, IInvHolds, PTL DEF Spec, SeenOnlyGrows

\* A log that has only been appended to is always accepted: consistency_proof yields what
\* verify_consistency wants, at every pair of sizes.
THEOREM GrowthIsAccepted == Spec => []GrowthAccepted
<1>1. IInv => GrowthAccepted
  <2>1. ASSUME IInv, IsPrefix(seen, log)
        PROVE  Accepts(seen, log)
    <3>1. Len(seen) <= Len(log)
      BY Zenon, <2>1 DEF IsPrefix
    <3>2. verify_consistency(Len(seen), Len(log), mth_data(seen), mth_data(log),
                             consistency_proof(Leaves(log), Len(seen)))
      BY Zenon, <2>1, ConsistencyComplete DEF IInv
    <3> QED
      BY <3>1, <3>2, Zenon DEF Accepts
  <2> QED
    BY Zenon, <2>1 DEF GrowthAccepted
<1> QED
  BY <1>1, IInvHolds, PTL

\* Tree heads commit to the log: mth_data tells any two logs apart, and
\* detect_equivocation fires exactly on two heads of one size over different histories.
THEOREM HeadsCommit == Spec => []RootsCommit
<1>1. IInv => RootsCommit
  <2>1. ASSUME IInv
        PROVE  mth_data(seen) = mth_data(log) => seen = log
    BY Zenon, <2>1, RootCommits DEF IInv
  <2> QED
    BY Zenon, <2>1 DEF RootsCommit, detect_equivocation
<1> QED
  BY <1>1, IInvHolds, PTL

\* Where a log has an entry, as store_verify looks for it.
Places(A, x) == {i \in 0..(Len(A) - 1) : A[i + 1] = x}

\* The first place of an entry in a log.
IsFirst(i, A, x) == i \in Places(A, x) /\ \A j \in Places(A, x) : i <= j

\* Store::verify finds an entry exactly when the log has it, at its first place there,
\* and its inclusion proof verifies.
LEMMA VerifyFinds ==
  ASSUME NEW A \in Seq(Entry), NEW x \in Entry
  PROVE  /\ store_verify(A, x).found <=> Places(A, x) # {}
         /\ store_verify(A, x).found =>
              /\ store_verify(A, x).inclusion
              /\ IsFirst(store_verify(A, x).leaf_index, A, x)
<1> DEFINE index == CHOOSE i \in Places(A, x) : \A j \in Places(A, x) : i <= j
           ok == verify_inclusion(leaf_hash(x), index, Len(A),
                                  inclusion_proof(Leaves(A), index), mth_data(A))
<1>1. CASE Places(A, x) = {}
  <2>1. store_verify(A, x) = [found |-> FALSE]
    BY <1>1, Zenon DEF store_verify, Places
  <2> QED
    BY <1>1, <2>1
<1>2. CASE Places(A, x) # {}
  <2>1. store_verify(A, x) = [found |-> TRUE, leaf_index |-> index, tree_size |-> Len(A),
                              inclusion |-> ok]
    BY <1>2, Zenon DEF store_verify, Places
  <2>2. \E i \in Places(A, x) : \A j \in Places(A, x) : i <= j
    <3>1. Places(A, x) \subseteq Nat
      BY DEF Places
    <3> QED
      BY Zenon, <1>2, <3>1, LeastNat
  <2>3. IsFirst(index, A, x)
    BY <2>2, Zenon DEF IsFirst
  <2> HIDE DEF index
  <2>4. index \in 0..(Len(A) - 1) /\ A[index + 1] = x
    BY Zenon, <2>3 DEF IsFirst, Places
  <2>5. ok
    <3>1. verify_inclusion(leaf_hash(A[index + 1]), index, Len(A),
                           inclusion_proof(Leaves(A), index), mth_data(A))
      BY Zenon, <2>4, InclusionComplete
    <3> QED
      BY <2>4, <3>1, Zenon
  <2> HIDE DEF ok
  <2>6. /\ store_verify(A, x).found = TRUE
        /\ store_verify(A, x).inclusion = ok
        /\ store_verify(A, x).leaf_index = index
    BY <2>1
  <2> QED
    BY <1>2, <2>3, <2>5, <2>6, Zenon
<1> QED
  BY Zenon, <1>1, <1>2

\* Growing a log does not move the first place of an entry.
LEMMA FirstStays ==
  ASSUME NEW A \in Seq(Entry), NEW B \in Seq(Entry), NEW x, IsPrefix(A, B),
         NEW i, IsFirst(i, A, x)
  PROVE  Places(B, x) # {} /\ \A j : IsFirst(j, B, x) => j = i
<1>1. Len(A) \in Nat /\ Len(B) \in Nat /\ Len(A) <= Len(B)
  BY DEF IsPrefix
<1>2. i \in 0..(Len(A) - 1) /\ A[i + 1] = x
  BY Zenon DEF IsFirst, Places
<1>3. i \in Places(B, x)
  BY <1>1, <1>2 DEF Places, IsPrefix
<1>4. ASSUME NEW j, IsFirst(j, B, x)
      PROVE  j = i
  <2>1. j \in 0..(Len(B) - 1) /\ B[j + 1] = x /\ j <= i
    BY Zenon, <1>3, <1>4 DEF IsFirst, Places
  <2>2. j \in Places(A, x)
    BY <1>1, <1>2, <2>1 DEF Places, IsPrefix
  <2>3. i <= j
    BY Zenon, <2>2 DEF IsFirst
  <2> QED
    BY <1>2, <2>1, <2>3
<1> QED
  BY Zenon, <1>3, <1>4

\* Inclusion is exact, for logs of any length: Store::verify succeeds while the entry is
\* in the log and its leaf index stays as the log grows; the proofs of all entries verify,
\* and none verifies for what is not there.
THEOREM InclusionIsExact == Spec => []InclusionExact
<1>1. IInv => InclusionExact
  <2>1. ASSUME IInv
        PROVE  InclusionExact
    <3>0. log \in Seq(Entry) /\ seen \in Seq(Entry) /\ Len(log) \in Nat
      BY <2>1 DEF IInv
    <3>1. ASSUME NEW x \in Entry
          PROVE  /\ store_verify(log, x).found <=> \E i \in DOMAIN log : log[i] = x
                 /\ store_verify(log, x).found => store_verify(log, x).inclusion
                 /\ IsPrefix(seen, log) /\ store_verify(seen, x).found =>
                      /\ store_verify(log, x).found
                      /\ store_verify(log, x).leaf_index = store_verify(seen, x).leaf_index
      <4>1. /\ store_verify(log, x).found <=> Places(log, x) # {}
            /\ store_verify(log, x).found =>
                 /\ store_verify(log, x).inclusion
                 /\ IsFirst(store_verify(log, x).leaf_index, log, x)
        BY Zenon, <3>0, VerifyFinds
      <4>2. /\ store_verify(seen, x).found =>
                 IsFirst(store_verify(seen, x).leaf_index, seen, x)
        BY Zenon, <3>0, VerifyFinds
      <4>3. Places(log, x) # {} <=> \E i \in DOMAIN log : log[i] = x
        <5>1. ASSUME NEW i \in Places(log, x)
              PROVE  \E j \in DOMAIN log : log[j] = x
          <6>1. i + 1 \in DOMAIN log /\ log[i + 1] = x
            BY <3>0 DEF Places
          <6> QED
            BY Zenon, <6>1
        <5>2. ASSUME NEW i \in DOMAIN log, log[i] = x
              PROVE  Places(log, x) # {}
          <6>1. i - 1 \in 0..(Len(log) - 1) /\ (i - 1) + 1 = i
            BY <3>0
          <6>2. i - 1 \in Places(log, x)
            BY Zenon, <5>2, <6>1 DEF Places
          <6> QED
            BY Zenon, <6>2
        <5> QED
          BY Zenon, <5>1, <5>2
      <4>4. ASSUME IsPrefix(seen, log), store_verify(seen, x).found
            PROVE  /\ store_verify(log, x).found
                   /\ store_verify(log, x).leaf_index = store_verify(seen, x).leaf_index
        <5>1. PICK i : i = store_verify(seen, x).leaf_index /\ IsFirst(i, seen, x)
          BY <4>2, <4>4, Zenon
        <5>2. Places(log, x) # {} /\ \A j : IsFirst(j, log, x) => j = i
          BY Zenon, <3>0, <4>4, <5>1, FirstStays
        <5> QED
          BY <4>1, <5>1, <5>2, Zenon
      <4> QED
        BY <4>1, <4>3, <4>4, Zenon
    <3>2. ASSUME NEW i \in 0..(Len(log) - 1)
          PROVE  verify_inclusion(leaf_hash(log[i + 1]), i, Len(log),
                                  inclusion_proof(Leaves(log), i), mth_data(log))
      BY Zenon, <3>0, InclusionComplete
    <3>3. ASSUME NEW j \in 0..(Len(log) - 1), NEW x \in Entry, NEW proof,
                 verify_inclusion(leaf_hash(x), j, Len(log), proof, mth_data(log))
          PROVE  log[j + 1] = x
      <4>1. j \in Nat
        BY <3>0
      <4> QED
        BY Zenon, <3>0, <3>3, <4>1, InclusionSound
    <3> QED
      BY <3>1, <3>2, <3>3, Zenon DEF InclusionExact
  <2> QED
    BY Zenon, <2>1
<1> QED
  BY <1>1, IInvHolds, PTL

==============================================================================
