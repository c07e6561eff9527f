--------------------------- MODULE DataDir_proofs ---------------------------
(***************************************************************************)
(* The properties of DataDir that hold for any number of processes, drops, *)
(* chunks and faults, and for any contents of the envelopes.  The first    *)
(* part is about the parser of log/entries.bin alone, for files of any     *)
(* length and any contents: its loop ends, what it has read is never read  *)
(* differently after more bytes have been appended, and an entry that was  *)
(* appended whole behind a file that was read to its end is read back.     *)
(***************************************************************************)
EXTENDS DataDir, SequenceTheorems, WellFoundedInduction, TLAPS

------------------------------------------------------------------------------
(* log_entries *)

\* A non-empty set of naturals has a least element.
LEMMA LeastNat ==
  ASSUME NEW T, T \subseteq Nat, T # {}
  PROVE  \E n \in T : \A m \in T : n <= m
<1>1. \E n \in T : \A m \in T : ~(<<m, n>> \in OpToRel(<, Nat))
  BY Zenon, NatLessThanWellFounded, WFMin
<1>2. PICK n \in T : \A m \in T : ~(<<m, n>> \in OpToRel(<, Nat))
  BY Zenon, <1>1
<1>3. ASSUME NEW m \in T
      PROVE  n <= m
  <2>1. m \in Nat /\ n \in Nat
    BY Zenon
  <2>2. ~(m < n)
    BY Zenon, <1>2, <2>1 DEF OpToRel
  <2> QED
    BY <2>1, <2>2
<1> QED
  BY Zenon, <1>3

\* c lists a and m further values, each computed by G from the one before.
IsIteration(c, D, a, G, m) ==
  /\ c \in [0..m -> D]
  /\ c[0] = a
  /\ \A n \in 1..m : c[n] = G[n][c[n - 1]]

\* Such a list exists for any length.
LEMMA IterationExists ==
  ASSUME NEW D, NEW a \in D, NEW G \in [Nat -> [D -> D]], NEW m \in Nat
  PROVE  \E c : IsIteration(c, D, a, G, m)
<1> DEFINE T == {n \in Nat : ~\E c : IsIteration(c, D, a, G, n)}
<1>1. SUFFICES ASSUME T # {} PROVE FALSE
  BY Zenon
<1>2. PICK n \in T : \A k \in T : n <= k
  <2>1. T \subseteq Nat
    BY Zenon
  <2> QED
    BY Zenon, <1>1, <2>1, LeastNat
<1>3. CASE n = 0
  <2> DEFINE c == [i \in 0..0 |-> a]
  <2>1. c \in [0..0 -> D] /\ c[0] = a
    OBVIOUS
  <2>2. \A i \in 1..0 : c[i] = G[i][c[i - 1]]
    OBVIOUS
  <2> HIDE DEF c
  <2>3. IsIteration(c, D, a, G, 0)
    BY Zenon, <2>1, <2>2 DEF IsIteration
  <2> QED
    BY Zenon, <1>2, <1>3, <2>3
<1>4. CASE n # 0
  <2>1. n - 1 \in Nat /\ ~(n - 1 \in T)
    BY <1>2, <1>4
  <2>2. PICK c : IsIteration(c, D, a, G, n - 1)
    BY Zenon, <2>1
  <2> DEFINE d == [i \in 0..n |-> IF i = n THEN G[n][c[n - 1]] ELSE c[i]]
  <2>3. c[n - 1] \in D
    BY <2>1, <2>2 DEF IsIteration
  <2>4. G[n][c[n - 1]] \in D
    BY Zenon, <2>3
  <2>5. d \in [0..n -> D]
    BY <2>1, <2>2, <2>4 DEF IsIteration
  <2>6. d[0] = a
    BY <1>4, <2>2 DEF IsIteration
  <2>7. ASSUME NEW i \in 1..n
        PROVE  d[i] = G[i][d[i - 1]]
    <3>1. d[i - 1] = c[i - 1]
      OBVIOUS
    <3>2. CASE i = n
      <4>1. d[n] = G[n][c[n - 1]]
        BY <2>1
      <4> QED
        BY Zenon, <3>1, <3>2, <4>1
    <3>3. CASE i # n
      <4>1. i \in 1..(n - 1) /\ d[i] = c[i]
        BY <2>1, <3>3
      <4> QED
        BY Zenon, <2>2, <3>1, <4>1 DEF IsIteration
    <3> QED
      BY Zenon, <3>2, <3>3
  <2> HIDE DEF d
  <2>8. IsIteration(d, D, a, G, n)
    BY Zenon, <2>5, <2>6, <2>7 DEF IsIteration
  <2> QED
    BY Zenon, <1>2, <2>8
<1> QED
  BY Zenon, <1>3, <1>4

\* A header announces a natural number.
LEMMA HeaderIsNat ==
  ASSUME NEW h \in [1..HeaderLen -> Byte]
  PROVE  from_be_bytes(h) \in Nat
<1> DEFINE Body(x) == [n \in 0..HeaderLen |-> IF n = 0 THEN 0 ELSE Base * x[n - 1] + h[n]]
           value == CHOOSE x : x = Body(x)
           G == [n \in Nat |-> [v \in Nat |->
                   IF n \in 1..HeaderLen THEN Base * v + h[n] ELSE 0]]
<1>1. Base \in Nat /\ HeaderLen \in Nat /\ \A n \in 1..HeaderLen : h[n] \in Nat
  BY FormatAssumption DEF Byte
<1>2. ASSUME NEW n \in 1..HeaderLen, NEW v \in Nat
      PROVE  Base * v + h[n] \in Nat
  <2>1. Base * v \in Nat
    BY <1>1
  <2> QED
    BY <1>1, <2>1
<1>3. G \in [Nat -> [Nat -> Nat]]
  BY Zenon, <1>2
<1>4. \A n \in 1..HeaderLen, v \in Nat : G[n][v] = Base * v + h[n]
  BY <1>1
<1> HIDE DEF G
<1>5. PICK c : IsIteration(c, Nat, 0, G, HeaderLen)
  BY Zenon, <1>1, <1>3, IterationExists
<1>6. \A n \in 1..HeaderLen : c[n] = Base * c[n - 1] + h[n]
  <2> TAKE n \in 1..HeaderLen
  <2>1. n - 1 \in 0..HeaderLen
    BY <1>1
  <2>2. c[n - 1] \in Nat /\ c[n] = G[n][c[n - 1]]
    BY Zenon, <1>5, <2>1 DEF IsIteration
  <2> QED
    BY Zenon, <1>4, <2>2
<1>7. c = Body(c)
  BY <1>1, <1>5, <1>6 DEF IsIteration
<1>8. value = Body(value)
  BY Zenon, <1>7
<1>9. from_be_bytes(h) = value[HeaderLen]
  BY Zenon DEF from_be_bytes
<1> HIDE DEF value
<1>10. value[0] = 0 /\ \A n \in 1..HeaderLen : value[n] = Base * value[n - 1] + h[n]
  BY <1>1, <1>8
<1> DEFINE T == {n \in Nat : n <= HeaderLen /\ ~(value[n] \in Nat)}
<1>11. ASSUME T # {} PROVE FALSE
  <2>1. PICK n \in T : \A k \in T : n <= k
    <3>1. T \subseteq Nat
      BY Zenon
    <3> QED
      BY Zenon, <1>11, <3>1, LeastNat
  <2>2. n # 0
    BY Zenon, <1>10
  <2>3. n \in 1..HeaderLen /\ ~(n - 1 \in T) /\ n - 1 \in Nat /\ n - 1 <= HeaderLen
    BY <1>1, <2>1, <2>2
  <2>4. value[n - 1] \in Nat
    BY Zenon, <2>3
  <2> QED
    BY Zenon, <1>2, <1>10, <2>1, <2>3, <2>4
<1> QED
  BY <1>1, <1>9, <1>11

\* Where a whole header is in the file, it announces a natural number.
LEMMA LengthIsNat ==
  ASSUME NEW f \in Seq(Byte), NEW c \in 0..Len(f), c + HeaderLen <= Len(f)
  PROVE  /\ SubSeq(f, c + 1, c + HeaderLen) \in [1..HeaderLen -> Byte]
         /\ LengthAt(f, c) \in Nat
<1>1. HeaderLen \in Nat \ {0} /\ Len(f) \in Nat
  BY FormatAssumption
<1> DEFINE a == c + 1
           b == c + HeaderLen
           h == SubSeq(f, a, b)
<1>2. a \in 1..Len(f) /\ b \in 1..Len(f) /\ b - a + 1 = HeaderLen /\ a <= b
  BY <1>1
<1>3. h = [i \in 1..HeaderLen |-> f[i + a - 1]]
  BY <1>1, <1>2
<1>4. \A i \in 1..HeaderLen : f[i + a - 1] \in Byte
  <2> TAKE i \in 1..HeaderLen
  <2>1. i + a - 1 \in 1..Len(f)
    BY <1>1
  <2> QED
    BY <2>1
<1>5. h \in [1..HeaderLen -> Byte]
  BY Zenon, <1>3, <1>4
<1> QED
  BY Zenon, <1>5, HeaderIsNat DEF LengthAt

\* A turn of the loop keeps the cursor inside the file.
LEMMA TurnInFile ==
  ASSUME NEW f \in Seq(Byte), NEW c \in 0..Len(f)
  PROVE  /\ Turn(f, c) \in 0..Len(f)
         /\ CanRead(f, c) => Turn(f, c) > c
<1>1. CASE CanRead(f, c)
  <2>1. LengthAt(f, c) \in Nat
    BY Zenon, <1>1, LengthIsNat DEF CanRead
  <2> QED
    BY <1>1, <2>1, FormatAssumption DEF CanRead, Turn
<1>2. CASE ~CanRead(f, c)
  BY Zenon, <1>2 DEF Turn
<1> QED
  BY Zenon, <1>1, <1>2

\* c lists the cursor of the first m turns over f.
IsRun(f, c, m) ==
  /\ c \in [0..m -> 0..Len(f)]
  /\ c[0] = 0
  /\ \A n \in 1..m : c[n] = Turn(f, c[n - 1])

\* Cursors is the run over the whole file.
LEMMA CursorsRun ==
  ASSUME NEW f \in Seq(Byte)
  PROVE  IsRun(f, Cursors(f), Len(f))
<1> DEFINE D == 0..Len(f)
           turn == [c \in D |-> Turn(f, c)]
           Body(x) == [n \in 0..Len(f) |-> IF n = 0 THEN 0 ELSE turn[x[n - 1]]]
           G == [n \in Nat |-> turn]
<1>1. Len(f) \in Nat /\ 0 \in D
  OBVIOUS
<1>2. turn \in [D -> D]
  BY Zenon, TurnInFile
<1>3. G \in [Nat -> [D -> D]] /\ \A n \in Nat, v \in D : G[n][v] = turn[v]
  BY Zenon, <1>2
<1>4. Cursors(f) = CHOOSE x : x = Body(x)
  BY Zenon DEF Cursors
<1>5. \A v \in D : turn[v] = Turn(f, v)
  BY Zenon
<1> HIDE DEF G, turn
<1>6. PICK c : IsIteration(c, D, 0, G, Len(f))
  <2> HIDE DEF D
  <2> QED
    BY Zenon, <1>1, <1>3, IterationExists
<1>7. \A n \in 1..Len(f) : c[n - 1] \in D /\ c[n] = turn[c[n - 1]]
  <2> TAKE n \in 1..Len(f)
  <2>1. n - 1 \in 0..Len(f) /\ n \in Nat
    BY <1>1
  <2>2. c[n - 1] \in D
    BY Zenon, <1>6, <2>1 DEF IsIteration
  <2> QED
    BY Zenon, <1>3, <1>6, <2>1, <2>2 DEF IsIteration
<1>8. c = Body(c)
  BY <1>1, <1>6, <1>7 DEF IsIteration
<1>9. Cursors(f) = Body(Cursors(f))
  BY Zenon, <1>4, <1>8
<1> DEFINE x == Cursors(f)
<1>10. /\ x[0] = 0
       /\ DOMAIN x = 0..Len(f)
       /\ x = [n \in 0..Len(f) |-> x[n]]
       /\ \A n \in 1..Len(f) : x[n] = turn[x[n - 1]]
  <2> HIDE DEF x
  <2>1. x = Body(x)
    BY Zenon, <1>9 DEF x
  <2> QED
    BY SMTT(30), <1>1, <2>1
<1> HIDE DEF x
<1> DEFINE T == {n \in Nat : n <= Len(f) /\ ~(x[n] \in D)}
<1>11. ASSUME T # {} PROVE FALSE
  <2>1. PICK n \in T : \A k \in T : n <= k
    <3>1. T \subseteq Nat
      BY Zenon
    <3> QED
      BY Zenon, <1>11, <3>1, LeastNat
  <2>2. n # 0
    BY Zenon, <1>1, <1>10
  <2>3. n \in 1..Len(f) /\ ~(n - 1 \in T) /\ n - 1 \in Nat /\ n - 1 <= Len(f)
    BY <1>1, <2>1, <2>2
  <2>4. x[n - 1] \in D
    BY Zenon, <2>3
  <2> QED
    BY Zenon, <1>2, <1>10, <2>1, <2>3, <2>4
<1>12. \A n \in 0..Len(f) : x[n] \in D
  BY <1>11
<1>13. x \in [0..Len(f) -> D]
  BY Zenon, <1>10, <1>12
<1>14. \A n \in 1..Len(f) : x[n] = Turn(f, x[n - 1])
  <2> TAKE n \in 1..Len(f)
  <2>1. n - 1 \in 0..Len(f)
    BY <1>1
  <2>2. x[n - 1] \in D
    BY Zenon, <1>12, <2>1
  <2> QED
    BY Zenon, <1>5, <1>10, <2>2
<1> QED
  BY Zenon, <1>10, <1>13, <1>14 DEF IsRun, x

\* The cursors before and after one turn.
LEMMA RunStep ==
  ASSUME NEW f \in Seq(Byte), NEW c, NEW m \in Nat, IsRun(f, c, m), NEW n \in 1..m
  PROVE  /\ c[n - 1] \in 0..Len(f)
         /\ c[n] \in 0..Len(f)
         /\ c[n] = Turn(f, c[n - 1])
<1>1. n - 1 \in 0..m /\ n \in 0..m
  OBVIOUS
<1> QED
  BY Zenon, <1>1 DEF IsRun

\* As long as the loop goes on, n turns take the cursor to offset n at least.
LEMMA CursorsAdvance ==
  ASSUME NEW f \in Seq(Byte), \A k \in 0..Len(f) : CanRead(f, Cursors(f)[k])
  PROVE  FALSE
<1> DEFINE c == Cursors(f)
<1>1. IsRun(f, c, Len(f))
  BY Zenon, CursorsRun
<1> HIDE DEF c
<1> DEFINE T == {n \in Nat : n <= Len(f) /\ ~(c[n] >= n)}
<1>2. ASSUME T # {} PROVE FALSE
  <2>1. PICK n \in T : \A k \in T : n <= k
    <3>1. T \subseteq Nat
      BY Zenon
    <3> QED
      BY Zenon, <1>2, <3>1, LeastNat
  <2>2. n # 0
    BY <1>1 DEF IsRun
  <2>3. n - 1 \in 0..Len(f) /\ n \in 1..Len(f) /\ ~(n - 1 \in T)
    BY <2>1, <2>2
  <2>4. c[n - 1] \in 0..Len(f) /\ c[n] \in 0..Len(f) /\ c[n] = Turn(f, c[n - 1])
    <3>1. Len(f) \in Nat
      OBVIOUS
    <3> QED
      BY Zenon, <1>1, <2>3, <3>1, RunStep
  <2>5. CanRead(f, c[n - 1])
    BY Zenon, <2>3 DEF c
  <2>6. c[n] > c[n - 1]
    BY Zenon, <2>4, <2>5, TurnInFile
  <2>7. c[n - 1] >= n - 1
    BY <2>3
  <2> QED
    BY <2>1, <2>4, <2>6, <2>7
<1>3. Len(f) \in 0..Len(f)
  OBVIOUS
<1>4. c[Len(f)] >= Len(f)
  BY <1>2, <1>3
<1>5. c[Len(f)] \in 0..Len(f)
  BY Zenon, <1>1, <1>3 DEF IsRun
<1>6. CanRead(f, c[Len(f)])
  BY Zenon, <1>3 DEF c
<1> QED
  BY <1>4, <1>5, <1>6, FormatAssumption DEF CanRead

\* The loop of log_entries ends, within Len(f) turns.
LEMMA LoopEnds ==
  ASSUME NEW f \in Seq(Byte)
  PROVE  /\ Turns(f) \in 0..Len(f)
         /\ ~CanRead(f, Cursors(f)[Turns(f)])
         /\ \A j \in 0..(Turns(f) - 1) : CanRead(f, Cursors(f)[j])
<1> DEFINE T == {n \in 0..Len(f) : ~CanRead(f, Cursors(f)[n])}
<1>1. T # {}
  BY Zenon, CursorsAdvance
<1>2. T \subseteq Nat
  OBVIOUS
<1>3. PICK k \in T : \A j \in T : k <= j
  BY Zenon, <1>1, <1>2, LeastNat
<1>4. \A j \in 0..(k - 1) : CanRead(f, Cursors(f)[j])
  BY <1>3
<1>5. \E n \in 0..Len(f) : /\ ~CanRead(f, Cursors(f)[n])
                           /\ \A j \in 0..(n - 1) : CanRead(f, Cursors(f)[j])
  BY Zenon, <1>3, <1>4
<1> QED
  BY Zenon, <1>5 DEF Turns

\* log_entries returns a list of Turns(f) entries.
LEMMA EntriesType ==
  ASSUME NEW f \in Seq(Byte)
  PROVE  /\ log_entries(f) \in Seq(Seq(Byte))
         /\ Len(log_entries(f)) = Turns(f)
         /\ \A i \in 1..Turns(f) :
              log_entries(f)[i] = SubSeq(f, Cursors(f)[i - 1] + HeaderLen + 1, Cursors(f)[i])
<1> DEFINE c == Cursors(f)
<1>1. IsRun(f, c, Len(f)) /\ Turns(f) \in 0..Len(f)
  BY Zenon, CursorsRun, LoopEnds
<1>2. log_entries(f) = [i \in 1..Turns(f) |-> SubSeq(f, c[i - 1] + HeaderLen + 1, c[i])]
  BY Zenon DEF log_entries
<1> HIDE DEF c
<1>3. ASSUME NEW i \in 1..Turns(f)
      PROVE  SubSeq(f, c[i - 1] + HeaderLen + 1, c[i]) \in Seq(Byte)
  <2>1. Len(f) \in Nat /\ i \in 1..Len(f)
    BY <1>1
  <2>2. c[i - 1] \in 0..Len(f) /\ c[i] \in 0..Len(f)
    BY Zenon, <1>1, <2>1, RunStep
  <2> DEFINE a == c[i - 1] + HeaderLen + 1
             b == c[i]
  <2>3. a \in Nat \ {0} /\ b \in 0..Len(f)
    <3>1. ASSUME NEW x \in 0..Len(f)
          PROVE  x + HeaderLen + 1 \in Nat \ {0}
      BY SMTT(30), FormatAssumption
    <3> QED
      BY Zenon, <2>2, <3>1
  <2> HIDE DEF a, b
  <2>4. \A k \in a..b : k \in 1..Len(f)
    BY <2>1, <2>3
  <2>5. \A k \in a..b : f[k] \in Byte
    BY <2>4
  <2>6. SubSeq(f, a, b) \in Seq(Byte)
    BY <2>3, <2>5
  <2> QED
    BY Zenon, <2>6 DEF a, b
<1>4. log_entries(f) \in [1..Turns(f) -> Seq(Byte)]
  BY Zenon, <1>2, <1>3
<1>5. Turns(f) \in Nat
  BY <1>1
<1>6. log_entries(f) \in Seq(Seq(Byte)) /\ Len(log_entries(f)) = Turns(f)
  <2>1. log_entries(f) \in Seq(Seq(Byte))
    BY <1>4, <1>5, SeqDef
  <2>2. DOMAIN log_entries(f) = 1..Len(log_entries(f)) /\ Len(log_entries(f)) \in Nat
    BY Zenon, <2>1, LenProperties
  <2>3. DOMAIN log_entries(f) = 1..Turns(f)
    BY Zenon, <1>4
  <2> QED
    BY <1>5, <2>1, <2>2, <2>3
<1> QED
  BY Zenon, <1>2, <1>6 DEF c

\* The empty file holds the empty log.
LEMMA EmptyFileHasNoEntries ==
  ASSUME NEW f \in Seq(Byte), Len(f) = 0
  PROVE  log_entries(f) = <<>>
<1>1. Turns(f) = 0
  <2>1. Turns(f) \in 0..Len(f)
    BY Zenon, LoopEnds
  <2> QED
    BY <2>1
<1>2. log_entries(f) \in Seq(Seq(Byte)) /\ Len(log_entries(f)) = 0
  BY Zenon, <1>1, EntriesType
<1> QED
  BY Zenon, <1>2, EmptySeq

\* A turn that reads an entry of f does the same once more cells follow f.
LEMMA TurnOfConcat ==
  ASSUME NEW f \in Seq(Byte), NEW w \in Seq(Byte), NEW c \in 0..Len(f), CanRead(f, c)
  PROVE  CanRead(f \o w, c) /\ Turn(f \o w, c) = Turn(f, c)
<1>1. HeaderLen \in Nat \ {0} /\ Len(f) \in Nat /\ Len(w) \in Nat
  BY FormatAssumption
<1>2. f \o w \in Seq(Byte) /\ Len(f \o w) = Len(f) + Len(w)
  BY Zenon, ConcatProperties
<1>3. c + HeaderLen <= Len(f) /\ c + HeaderLen + LengthAt(f, c) <= Len(f) /\ LengthAt(f, c) \in Nat
  BY Zenon, LengthIsNat DEF CanRead
<1>4. LengthAt(f \o w, c) = LengthAt(f, c)
  <2> DEFINE a == c + 1
             b == c + HeaderLen
  <2>1. a \in 1..Len(f) /\ b \in 1..Len(f)
    BY <1>1, <1>3
  <2> HIDE DEF a, b
  <2>2. SubSeq(f \o w, a, b) = SubSeq(f, a, b)
    BY Zenon, <2>1, SubSeqOfConcat1
  <2> QED
    BY Zenon, <2>2 DEF LengthAt, a, b
<1>5. c + HeaderLen <= Len(f \o w) /\ c + HeaderLen + LengthAt(f \o w, c) <= Len(f \o w)
  BY <1>1, <1>2, <1>3, <1>4
<1>6. CanRead(f \o w, c)
  BY Zenon, <1>5 DEF CanRead
<1> QED
  BY Zenon, <1>4, <1>6 DEF Turn

\* The cursors over f are the first cursors over f \o w, as far as f is readable.
LEMMA CursorsOfConcat ==
  ASSUME NEW f \in Seq(Byte), NEW w \in Seq(Byte)
  PROVE  /\ \A n \in 0..Turns(f) : Cursors(f \o w)[n] = Cursors(f)[n]
         /\ Turns(f) <= Turns(f \o w)
<1> DEFINE g == f \o w
           c == Cursors(f)
           d == Cursors(g)
<1>1. g \in Seq(Byte) /\ Len(g) = Len(f) + Len(w) /\ Len(f) \in Nat /\ Len(w) \in Nat
  BY ConcatProperties
<1>2. IsRun(f, c, Len(f)) /\ IsRun(g, d, Len(g))
  BY Zenon, <1>1, CursorsRun
<1>3. /\ Turns(f) \in 0..Len(f)
      /\ \A j \in 0..(Turns(f) - 1) : CanRead(f, c[j])
  BY Zenon, LoopEnds
<1>4. Turns(g) \in 0..Len(g) /\ ~CanRead(g, d[Turns(g)])
  BY Zenon, <1>1, LoopEnds
<1>5. \A j \in 0..Len(f) : CanRead(f, c[j]) => CanRead(g, c[j]) /\ Turn(g, c[j]) = Turn(f, c[j])
  <2> TAKE j \in 0..Len(f)
  <2>1. c[j] \in 0..Len(f)
    BY Zenon, <1>2 DEF IsRun
  <2> QED
    BY Zenon, <2>1, TurnOfConcat
<1> HIDE DEF g, c, d
<1> DEFINE T == {n \in Nat : n <= Turns(f) /\ d[n] # c[n]}
<1>6. ASSUME T # {} PROVE FALSE
  <2>1. PICK n \in T : \A k \in T : n <= k
    <3>1. T \subseteq Nat
      BY Zenon
    <3> QED
      BY Zenon, <1>6, <3>1, LeastNat
  <2>2. n # 0
    BY Zenon, <1>2 DEF IsRun
  <2>3. n - 1 \in 0..(Turns(f) - 1) /\ n - 1 \in 0..Len(f) /\ n \in 1..Len(f) /\ n \in 1..Len(g)
    BY <1>1, <1>3, <2>1, <2>2
  <2>4. d[n - 1] = c[n - 1]
    <3>1. ~(n - 1 \in T)
      BY <2>1, <2>3
    <3> QED
      BY <1>3, <2>3, <3>1
  <2>5. c[n] = Turn(f, c[n - 1]) /\ d[n] = Turn(g, d[n - 1])
    BY Zenon, <1>2, <2>3 DEF IsRun
  <2>6. Turn(g, c[n - 1]) = Turn(f, c[n - 1])
    BY Zenon, <1>3, <1>5, <2>3
  <2> QED
    BY Zenon, <2>1, <2>4, <2>5, <2>6
<1>7. \A n \in 0..Turns(f) : d[n] = c[n]
  BY <1>3, <1>6
<1>8. Turns(f) <= Turns(g)
  <2>1. SUFFICES ASSUME Turns(g) < Turns(f) PROVE FALSE
    BY <1>1, <1>3, <1>4
  <2>2. Turns(g) \in 0..(Turns(f) - 1) /\ Turns(g) \in 0..Len(f) /\ Turns(g) \in 0..Turns(f)
    BY <1>1, <1>3, <1>4, <2>1
  <2>3. CanRead(g, d[Turns(g)])
    BY Zenon, <1>3, <1>5, <1>7, <2>2
  <2> QED
    BY Zenon, <1>4, <2>3
<1> QED
  BY Zenon, <1>7, <1>8 DEF g, c, d

\* Appending to the file extends the list of entries: whatever cells are appended,
\* the entries read before are read again, unchanged and at the same places.
THEOREM AppendExtendsEntries ==
  ASSUME NEW f \in Seq(Byte), NEW w \in Seq(Byte)
  PROVE  IsPrefix(log_entries(f), log_entries(f \o w))
<1> DEFINE g == f \o w
           s == log_entries(f)
           t == log_entries(g)
<1>1. g \in Seq(Byte) /\ Len(g) = Len(f) + Len(w) /\ Len(f) \in Nat /\ Len(w) \in Nat
  BY ConcatProperties
<1>2. s \in Seq(Seq(Byte)) /\ t \in Seq(Seq(Byte)) /\ Len(s) = Turns(f) /\ Len(t) = Turns(g)
  BY Zenon, <1>1, EntriesType
<1>3. Len(s) <= Len(t) /\ Len(s) \in 0..Len(f)
  BY Zenon, <1>2, CursorsOfConcat, LoopEnds
<1>4. ASSUME NEW i \in 1..Len(s)
      PROVE  s[i] = t[i]
  <2>1. /\ s[i] = SubSeq(f, Cursors(f)[i - 1] + HeaderLen + 1, Cursors(f)[i])
        /\ t[i] = SubSeq(g, Cursors(g)[i - 1] + HeaderLen + 1, Cursors(g)[i])
    <3>1. i \in 1..Turns(f) /\ i \in 1..Turns(g)
      BY <1>2, <1>3
    <3> QED
      BY Zenon, <1>1, <3>1, EntriesType
  <2>2. Cursors(g)[i - 1] = Cursors(f)[i - 1] /\ Cursors(g)[i] = Cursors(f)[i]
    BY <1>2, <1>3, CursorsOfConcat
  <2>3. Cursors(f)[i - 1] \in 0..Len(f) /\ Cursors(f)[i] \in 0..Len(f)
    <3>1. i \in 1..Len(f)
      BY <1>1, <1>3
    <3> QED
      BY Zenon, <1>1, <3>1, CursorsRun, RunStep
  <2> DEFINE a == Cursors(f)[i - 1] + HeaderLen + 1
             b == Cursors(f)[i]
  <2>4. a \in Nat \ {0} /\ b \in 0..Len(f)
    BY SMTT(30), <2>3, FormatAssumption
  <2> HIDE DEF a, b
  <2>5. SubSeq(f, a, b) = SubSeq(g, a, b)
    <3>1. CASE a <= b
      <4>1. a \in 1..Len(f) /\ b \in 1..Len(f)
        BY <1>1, <2>4, <3>1
      <4> QED
        BY Zenon, <4>1, SubSeqOfConcat1
    <3>2. CASE a > b
      BY <2>4, <3>2, SubSeqEmpty
    <3> QED
      BY <1>1, <2>4, <3>1, <3>2
  <2> QED
    BY Zenon, <2>1, <2>2, <2>5 DEF a, b
<1> QED
  BY Zenon, <1>3, <1>4 DEF IsPrefix

\* Prefixes compose.
LEMMA PrefixTransitive ==
  ASSUME NEW S, NEW r \in Seq(S), NEW s \in Seq(S), NEW t \in Seq(S),
         IsPrefix(r, s), IsPrefix(s, t)
  PROVE  IsPrefix(r, t)
<1>1. Len(r) \in Nat /\ Len(s) \in Nat /\ Len(t) \in Nat
  OBVIOUS
<1> QED
  BY <1>1 DEF IsPrefix

\* Two prefixes of one list that have the same length are equal.
LEMMA PrefixesOfOneLength ==
  ASSUME NEW S, NEW r \in Seq(S), NEW s \in Seq(S), NEW t \in Seq(S),
         IsPrefix(r, t), IsPrefix(s, t), Len(r) = Len(s)
  PROVE  r = s
<1>1. \A i \in 1..Len(r) : r[i] = s[i]
  BY Zenon DEF IsPrefix
<1> QED
  BY Zenon, <1>1, SeqEqual

\* The loop stops at the end of the file: nothing is left over.
Clean(f) == Cursors(f)[Turns(f)] = Len(f)

\* The bytes g are f, a header h and a body e.
IsAppended(f, h, e, g) ==
  /\ g = f \o (h \o e) /\ g \in Seq(Byte) /\ Len(g) = Len(f) + HeaderLen + Len(e)
  /\ SubSeq(g, Len(f) + 1, Len(f) + HeaderLen) = h
  /\ SubSeq(g, Len(f) + HeaderLen + 1, Len(f) + HeaderLen + Len(e)) = e

\* The parts of a file to which one whole entry was appended.
LEMMA PartsOfAppend ==
  ASSUME NEW f \in Seq(Byte), NEW h \in Seq(Byte), NEW e \in Seq(Byte), Len(h) = HeaderLen,
         NEW g, g = (f \o h) \o e
  PROVE  IsAppended(f, h, e, g)
<1>1. Len(f) \in Nat /\ Len(e) \in Nat /\ HeaderLen \in Nat \ {0}
  BY FormatAssumption
<1>2. g \in Seq(Byte) /\ Len(g) = Len(f) + HeaderLen + Len(e) /\ g = f \o (h \o e)
  <2>1. f \o h \in Seq(Byte) /\ Len(f \o h) = Len(f) + HeaderLen
    BY Zenon, ConcatProperties
  <2>2. g \in Seq(Byte) /\ Len(g) = Len(f \o h) + Len(e)
    BY Zenon, <2>1, ConcatProperties
  <2>3. g = f \o (h \o e)
    BY SMTT(30), ConcatAssociative
  <2> QED
    BY Zenon, <2>1, <2>2, <2>3
<1>3. \A i \in 1..HeaderLen : g[i + Len(f)] = h[i]
  BY <1>1
<1>4. \A i \in 1..Len(e) : g[i + Len(f) + HeaderLen] = e[i]
  BY SMTT(30), <1>1
<1>5. SubSeq(g, Len(f) + 1, Len(f) + HeaderLen) = h
  <2>1. SubSeq(g, Len(f) + 1, Len(f) + HeaderLen) = [i \in 1..HeaderLen |-> g[i + Len(f)]]
    BY SMTT(30), <1>1, <1>2
  <2>2. h = [i \in 1..HeaderLen |-> h[i]]
    OBVIOUS
  <2> QED
    BY Zenon, <1>3, <2>1, <2>2
<1>6. SubSeq(g, Len(f) + HeaderLen + 1, Len(f) + HeaderLen + Len(e)) = e
  <2>1. SubSeq(g, Len(f) + HeaderLen + 1, Len(f) + HeaderLen + Len(e)) =
          [i \in 1..Len(e) |-> g[i + Len(f) + HeaderLen]]
    BY SMTT(30), <1>1, <1>2
  <2>2. e = [i \in 1..Len(e) |-> e[i]]
    OBVIOUS
  <2> QED
    BY Zenon, <1>4, <2>1, <2>2
<1> QED
  BY Zenon, <1>2, <1>5, <1>6 DEF IsAppended

\* append_log_entry and log_entries agree: a header that announces the length of e,
\* and then e, behind a file that was read to its end, is read as one entry more.
THEOREM WholeEntryIsRead ==
  ASSUME NEW f \in Seq(Byte), Clean(f), NEW h \in Seq(Byte), Len(h) = HeaderLen,
         NEW e \in Seq(Byte), from_be_bytes(h) = Len(e)
  PROVE  /\ Clean((f \o h) \o e)
         /\ log_entries((f \o h) \o e) = Append(log_entries(f), e)
<1>1. PICK g, w, n, c, d : /\ g = (f \o h) \o e /\ w = h \o e
                         /\ n = Turns(f) /\ c = Cursors(f) /\ d = Cursors(g)
  BY Zenon
<1>2. /\ g = f \o w /\ w \in Seq(Byte) /\ g \in Seq(Byte) /\ Len(g) = Len(f) + HeaderLen + Len(e)
      /\ SubSeq(g, Len(f) + 1, Len(f) + HeaderLen) = h
      /\ SubSeq(g, Len(f) + HeaderLen + 1, Len(f) + HeaderLen + Len(e)) = e
  <2>1. w \in Seq(Byte)
    BY Zenon, <1>1, ConcatProperties
  <2>2. g = (f \o h) \o e
    BY Zenon, <1>1
  <2>3. IsAppended(f, h, e, g)
    BY Zenon, <2>2, PartsOfAppend
  <2> QED
    BY Zenon, <1>1, <2>1, <2>3 DEF IsAppended
<1>3. /\ Len(f) \in Nat /\ Len(e) \in Nat /\ Len(g) \in Nat /\ HeaderLen \in Nat \ {0}
      /\ n \in 0..Len(f) /\ c[n] = Len(f)
  BY SMTT(30), <1>1, <1>2, LoopEnds, FormatAssumption DEF Clean
<1>4. d[n] = Len(f) /\ n <= Turns(g)
  <2>1. n \in 0..Turns(f)
    BY <1>1, <1>3
  <2>2. Cursors(f \o w)[n] = Cursors(f)[n] /\ Turns(f) <= Turns(f \o w)
    BY Zenon, <1>2, <2>1, CursorsOfConcat
  <2> QED
    BY Zenon, <1>1, <1>2, <1>3, <2>2
<1>5. LengthAt(g, Len(f)) = Len(e)
  BY Zenon, <1>2 DEF LengthAt
<1>6. CanRead(g, d[n]) /\ Turn(g, d[n]) = Len(g)
  BY <1>2, <1>3, <1>4, <1>5 DEF CanRead, Turn
<1>7. d[n + 1] = Len(g)
  <2>1. n + 1 \in 1..Len(g) /\ (n + 1) - 1 = n
    BY <1>2, <1>3
  <2>2. IsRun(g, d, Len(g))
    BY Zenon, <1>1, <1>2, CursorsRun
  <2>3. d[n + 1] = Turn(g, d[(n + 1) - 1])
    <3>1. g \in Seq(Byte) /\ Len(g) \in Nat
      BY Zenon, <1>2, <1>3
    <3> QED
      BY Zenon, <2>1, <2>2, <3>1, RunStep
  <2> QED
    BY Zenon, <1>6, <2>1, <2>3
<1>8. ~CanRead(g, d[n + 1])
  BY <1>3, <1>7 DEF CanRead
<1>9. Turns(g) = n + 1
  <2>1. /\ Turns(g) \in 0..Len(g)
        /\ ~CanRead(g, d[Turns(g)])
        /\ \A j \in 0..(Turns(g) - 1) : CanRead(g, d[j])
    BY Zenon, <1>1, <1>2, LoopEnds
  <2>2. Turns(g) # n
    BY Zenon, <1>6, <2>1
  <2>3. ~(n + 1 \in 0..(Turns(g) - 1))
    BY Zenon, <1>8, <2>1
  <2> QED
    BY <1>3, <1>4, <2>1, <2>2, <2>3
<1>10. Clean(g)
  BY Zenon, <1>1, <1>7, <1>9 DEF Clean
<1>11. PICK s, t : s = log_entries(f) /\ t = log_entries(g)
  BY Zenon
<1>12. s \in Seq(Seq(Byte)) /\ t \in Seq(Seq(Byte)) /\ Len(s) = n /\ Len(t) = n + 1
  BY Zenon, <1>1, <1>2, <1>9, <1>11, EntriesType
<1>13. \A i \in 1..n : t[i] = s[i]
  <2>1. IsPrefix(s, t)
    BY Zenon, <1>2, <1>11, AppendExtendsEntries
  <2> QED
    BY Zenon, <1>12, <2>1 DEF IsPrefix
<1>14. t[n + 1] = e
  <2>1. n + 1 \in 1..Turns(g) /\ (n + 1) - 1 = n
    BY <1>3, <1>9
  <2>2. t[n + 1] = SubSeq(g, d[(n + 1) - 1] + HeaderLen + 1, d[n + 1])
    BY Zenon, <1>1, <1>2, <1>11, <2>1, EntriesType
  <2>3. t[n + 1] = SubSeq(g, Len(f) + HeaderLen + 1, Len(f) + HeaderLen + Len(e))
    BY Zenon, <1>2, <1>4, <1>7, <2>1, <2>2
  <2> QED
    BY Zenon, <1>2, <2>3
<1>15. t = Append(s, e)
  <2>1. Append(s, e) \in Seq(Seq(Byte)) /\ Len(Append(s, e)) = n + 1
    BY SMTT(30), <1>12
  <2>2. \A i \in 1..(n + 1) : t[i] = Append(s, e)[i]
    BY SMTT(30), <1>3, <1>12, <1>13, <1>14
  <2> QED
    BY Zenon, <1>12, <2>1, <2>2, SeqEqual
<1> QED
  BY Zenon, <1>1, <1>10, <1>11, <1>15

------------------------------------------------------------------------------
(* The data directory *)

\* The files an operation writes are the files of its drop, each of them.
LEMMA FileAtIsFile ==
  ASSUME NEW op, NEW d \in Drop, NEW k \in 1..(ChunkCount[d] + 1)
  PROVE  FileAt(op, d, k) \in FilesOf(d) /\ FileAt(op, d, k) \in File
<1>1. ChunkCount[d] \in Nat \ {0}
  BY Zenon, DropAssumption
<1>2. FileAt(op, d, k) \in FilesOf(d)
  BY <1>1 DEF FileAt, FilesOf, ChunkFile, EnvelopeFile
<1> QED
  BY Zenon, <1>2 DEF File

\* Every file of a drop is the k-th file its operation writes, for some k.
LEMMA EveryFileIsWritten ==
  ASSUME NEW op, NEW d \in Drop, NEW f \in FilesOf(d)
  PROVE  \E k \in 1..(ChunkCount[d] + 1) : f = FileAt(op, d, k)
<1>1. ChunkCount[d] \in Nat \ {0}
  BY Zenon, DropAssumption
<1>2. PICK i \in 0..ChunkCount[d] : f = <<d, i>>
  BY DEF FilesOf
<1>3. CASE op = "create"
  <2>1. CASE i = 0
    <3>1. f = FileAt(op, d, ChunkCount[d] + 1)
      BY <1>1, <1>2, <1>3, <2>1 DEF FileAt, EnvelopeFile
    <3> QED
      BY <1>1, <3>1
  <2>2. CASE i # 0
    <3>1. f = FileAt(op, d, i)
      BY <1>1, <1>2, <1>3, <2>2 DEF FileAt, ChunkFile
    <3> QED
      BY <1>1, <2>2, <3>1
  <2> QED
    BY Zenon, <2>1, <2>2
<1>4. CASE op # "create"
  <2>1. f = FileAt(op, d, i + 1)
    BY <1>1, <1>2, <1>4 DEF FileAt, ChunkFile, EnvelopeFile
  <2> QED
    BY <1>1, <2>1
<1> QED
  BY Zenon, <1>3, <1>4

\* A busy process has a well-formed job.
LEMMA BusyHasJob ==
  ASSUME TypeOK, NEW p \in Proc, job[p].pc # "idle"
  PROVE  /\ job[p] \in Job
         /\ job[p].drop \in Drop
         /\ job[p].at \in Nat \ {0}
         /\ ChunkCount[job[p].drop] \in Nat \ {0}
         /\ Envelope[job[p].drop] \in Seq(Byte)
         /\ CurrentFile(p) \in File
         /\ CurrentFile(p) \in FilesOf(job[p].drop)
<1>1. job[p] \in Job
  BY DEF TypeOK, Idle
<1>2. /\ job[p].drop \in Drop /\ job[p].at \in Nat \ {0}
      /\ ChunkCount[job[p].drop] \in Nat \ {0} /\ Envelope[job[p].drop] \in Seq(Byte)
  BY Zenon, <1>1, DropAssumption DEF Job
<1>3. job[p].at \in 1..(ChunkCount[job[p].drop] + 1)
  BY <1>2 DEF TypeOK
<1> QED
  BY Zenon, <1>1, <1>2, <1>3, FileAtIsFile DEF CurrentFile

\* Moving a process on within its operation keeps the type of job.
LEMMA GoToType ==
  ASSUME TypeOK, NEW p \in Proc, job[p].pc # "idle",
         NEW pc \in {"open", "fill", "header", "body"},
         NEW at \in Nat \ {0}, at <= ChunkCount[job[p].drop] + 1,
         GoTo(p, pc, at)
  PROVE  /\ job' \in [Proc -> Job \cup {Idle}]
         /\ \A q \in Proc : job'[q].pc # "idle" => job'[q].at <= ChunkCount[job'[q].drop] + 1
<1> DEFINE j == [pc |-> pc, op |-> job[p].op, drop |-> job[p].drop, at |-> at]
<1>1. j \in Job /\ j.at <= ChunkCount[j.drop] + 1
  BY Zenon, BusyHasJob DEF Job
<1>2. job' = [job EXCEPT ![p] = j]
  BY Zenon DEF GoTo
<1> HIDE DEF j
<1> QED
  BY Zenon, <1>1, <1>2 DEF TypeOK

\* What a busy process may append to the log is made of bytes.
LEMMA PendingIsBytes ==
  ASSUME TypeOK, NEW p \in Proc, job[p].pc # "idle"
  PROVE  /\ Header(job[p].drop) \in Seq(Byte)
         /\ Pending(p) \in Seq(Byte)
<1> DEFINE d == job[p].drop
<1>1. d \in Drop /\ Envelope[d] \in Seq(Byte)
  BY Zenon, BusyHasJob
<1>2. Header(d) \in [1..HeaderLen -> Byte]
  <2>1. \E h \in [1..HeaderLen -> Byte] : from_be_bytes(h) = Len(Envelope[d])
    BY Zenon, <1>1, DropAssumption DEF Fits
  <2> QED
    BY Zenon, <2>1 DEF Header, to_be_bytes
<1>3. Header(d) \in Seq(Byte)
  BY Zenon, <1>2, FormatAssumption, SeqDef
<1>4. <<>> \in Seq(Byte)
  BY Zenon, EmptySeq
<1> QED
  BY Zenon, <1>1, <1>3, <1>4 DEF Pending

\* entries.bin is only ever written at its end: every step appends to it, no byte
\* at the least.
LEMMA EntriesOnlyAppended ==
  ASSUME TypeOK, [Next]_vars
  PROVE  \E w \in Seq(Byte) : entries' = entries \o w
<1>1. entries \in Seq(Byte) /\ entries \o <<>> = entries /\ <<>> \in Seq(Byte)
  BY Zenon, ConcatEmptySeq, EmptySeq DEF TypeOK
<1>2. CASE UNCHANGED entries
  BY Zenon, <1>1, <1>2
<1>3. ASSUME NEW p \in Proc, WriteHeader(p)
      PROVE  \E w \in Seq(Byte) : entries' = entries \o w
  BY Zenon, <1>3, PendingIsBytes DEF WriteHeader
<1>4. ASSUME NEW p \in Proc, WriteBody(p)
      PROVE  \E w \in Seq(Byte) : entries' = entries \o w
  BY Zenon, <1>4, BusyHasJob DEF WriteBody
<1>5. ASSUME NEW p \in Proc, CutShort(p)
      PROVE  \E w \in Seq(Byte) : entries' = entries \o w
  <2>1. Pending(p) \in Seq(Byte)
    BY Zenon, <1>5, PendingIsBytes DEF CutShort
  <2>2. PICK n \in 0..Len(Pending(p)) : entries' = entries \o SubSeq(Pending(p), 1, n)
    BY Zenon, <1>5 DEF CutShort
  <2>3. SubSeq(Pending(p), 1, n) \in Seq(Byte)
    BY <2>1
  <2> QED
    BY Zenon, <2>2, <2>3
<1>6. \/ UNCHANGED entries
      \/ \E p \in Proc : WriteHeader(p) \/ WriteBody(p) \/ CutShort(p)
  BY Zenon DEF Next, vars, CreateDrop, FetchDrop, Start, Step, OpenFile, FillFile, PeerMissing,
         Crash, IgnoredAppendError, SignTreeHead
<1> QED
  BY Zenon, <1>2, <1>3, <1>4, <1>5, <1>6

\* A head is signed over the log as it is, or over none if it could not be read.
LEMMA HeadSigned ==
  ASSUME SignTreeHead
  PROVE  /\ UNCHANGED <<disk, entries, job, acks, ops, faults>>
         /\ \E h \in {log_entries(entries), <<>>} : heads' = heads \cup {h}
<1>1. <<>> \in Seq(Byte) /\ Len(<<>>) = 0
  OBVIOUS
<1>2. log_entries(<<>>) = <<>>
  BY Zenon, <1>1, EmptyFileHasNoEntries
<1> QED
  BY Zenon, <1>2 DEF SignTreeHead

\* Every action keeps the types.
THEOREM TypeCorrect == Spec => []TypeOK
<1>1. Init => TypeOK
  BY BoundAssumption DEF Init, TypeOK, Idle
<1>2. TypeOK /\ [Next]_vars => TypeOK'
  <2> SUFFICES ASSUME TypeOK, [Next]_vars
               PROVE  TypeOK'
    BY Zenon
  <2>0. entries' \in Seq(Byte)
    <3>1. PICK w \in Seq(Byte) : entries' = entries \o w
      BY Zenon, EntriesOnlyAppended
    <3> QED
      BY <3>1 DEF TypeOK
  <2>1. ASSUME NEW p \in Proc, NEW op \in {"create", "fetch"}, NEW d \in Drop, Start(p, op, d)
        PROVE  TypeOK'
    <3>1. [pc |-> "open", op |-> op, drop |-> d, at |-> 1] \in Job
      BY DEF Job
    <3>2. job' \in [Proc -> Job \cup {Idle}]
      BY Zenon, <2>1, <3>1 DEF TypeOK, Start
    <3>3. ops' \in 0..MaxOps
      BY <2>1, BoundAssumption DEF TypeOK, Start
    <3>4. ChunkCount[d] \in Nat
      BY Zenon, DropAssumption
    <3> QED
      BY <2>1, <3>2, <3>3, <3>4 DEF TypeOK, Start
  <2>2. ASSUME NEW p \in Proc, OpenFile(p)
        PROVE  TypeOK'
    <3>1. CurrentFile(p) \in File /\ job[p].at \in Nat \ {0}
      BY Zenon, <2>2, BusyHasJob DEF OpenFile
    <3>2. job[p].at <= ChunkCount[job[p].drop] + 1
      BY Zenon, <2>2 DEF OpenFile, TypeOK
    <3>3. /\ job' \in [Proc -> Job \cup {Idle}]
          /\ \A q \in Proc : job'[q].pc # "idle" => job'[q].at <= ChunkCount[job'[q].drop] + 1
      BY Zenon, <2>2, <3>1, <3>2, GoToType DEF OpenFile
    <3> QED
      BY Zenon, <2>2, <3>1, <3>3 DEF TypeOK, OpenFile
  <2>3. ASSUME NEW p \in Proc, FillFile(p)
        PROVE  TypeOK'
    <3>1. /\ CurrentFile(p) \in File /\ job[p].at \in Nat \ {0}
          /\ ChunkCount[job[p].drop] \in Nat \ {0}
      BY Zenon, <2>3, BusyHasJob DEF FillFile
    <3>2. job[p].at <= ChunkCount[job[p].drop] + 1
      BY Zenon, <2>3 DEF FillFile, TypeOK
    <3>3. /\ job' \in [Proc -> Job \cup {Idle}]
          /\ \A q \in Proc : job'[q].pc # "idle" => job'[q].at <= ChunkCount[job'[q].drop] + 1
      <4>1. CASE job[p].at <= ChunkCount[job[p].drop] /\ GoTo(p, "open", job[p].at + 1)
        <5>1. job[p].at + 1 \in Nat \ {0} /\ job[p].at + 1 <= ChunkCount[job[p].drop] + 1
          BY <3>1, <4>1
        <5> QED
          BY Zenon, <2>3, <4>1, <5>1, GoToType DEF FillFile
      <4>2. CASE job[p].at > ChunkCount[job[p].drop] /\ GoTo(p, "header", job[p].at)
        BY Zenon, <2>3, <3>1, <3>2, <4>2, GoToType DEF FillFile
      <4> QED
        BY Zenon, <2>3, <4>1, <4>2 DEF FillFile
    <3> QED
      BY Zenon, <2>3, <3>1, <3>3 DEF TypeOK, FillFile
  <2>4. ASSUME NEW p \in Proc, PeerMissing(p)
        PROVE  TypeOK'
    BY Zenon, <2>4 DEF TypeOK, PeerMissing, Idle
  <2>5. ASSUME NEW p \in Proc, WriteHeader(p)
        PROVE  TypeOK'
    <3>1. job[p].at \in Nat \ {0}
      BY Zenon, <2>5, BusyHasJob DEF WriteHeader
    <3>2. job[p].at <= ChunkCount[job[p].drop] + 1
      BY Zenon, <2>5 DEF WriteHeader, TypeOK
    <3>3. /\ job' \in [Proc -> Job \cup {Idle}]
          /\ \A q \in Proc : job'[q].pc # "idle" => job'[q].at <= ChunkCount[job'[q].drop] + 1
      BY Zenon, <2>5, <3>1, <3>2, GoToType DEF WriteHeader
    <3> QED
      BY Zenon, <2>0, <2>5, <3>3 DEF TypeOK, WriteHeader
  <2>6. ASSUME NEW p \in Proc, WriteBody(p)
        PROVE  TypeOK'
    <3>1. job[p].drop \in Drop
      BY Zenon, <2>6, BusyHasJob DEF WriteBody
    <3> QED
      BY <2>0, <2>6, <3>1 DEF TypeOK, WriteBody, Idle
  <2>7. ASSUME NEW p \in Proc, CutShort(p), acks' \in Seq(Drop)
        PROVE  TypeOK'
    <3>1. faults' \in 0..MaxFaults
      BY SMTT(30), <2>7, BoundAssumption DEF TypeOK, CutShort
    <3>2. job' \in [Proc -> Job \cup {Idle}]
      BY Zenon, <2>7 DEF TypeOK, CutShort
    <3>3. \A q \in Proc : job'[q].pc # "idle" => job'[q].at <= ChunkCount[job'[q].drop] + 1
      BY Zenon, <2>7 DEF TypeOK, CutShort, Idle
    <3> QED
      BY Zenon, <2>0, <2>7, <3>1, <3>2, <3>3 DEF TypeOK, CutShort
  <2>8. ASSUME NEW p \in Proc, Crash(p) \/ IgnoredAppendError(p)
        PROVE  TypeOK'
    <3>1. CutShort(p) /\ job[p].drop \in Drop
      BY Zenon, <2>8, BusyHasJob DEF Crash, IgnoredAppendError, CutShort
    <3>2. acks' \in Seq(Drop)
      <4>1. acks \in Seq(Drop)
        BY Zenon DEF TypeOK
      <4>2. acks' = acks \/ acks' = Append(acks, job[p].drop)
        BY Zenon, <2>8 DEF Crash, IgnoredAppendError
      <4> QED
        BY <3>1, <4>1, <4>2
    <3> QED
      BY Zenon, <2>7, <3>1, <3>2
  <2>9. CASE SignTreeHead
    <3>1. log_entries(entries) \in Seq(Seq(Byte))
      BY Zenon, EntriesType DEF TypeOK
    <3>2. <<>> \in Seq(Seq(Byte))
      OBVIOUS
    <3>3. UNCHANGED <<disk, entries, job, acks, ops, faults>>
      BY Zenon, <2>9, HeadSigned
    <3>4. PICK h \in Seq(Seq(Byte)) : heads' = heads \cup {h}
      BY Zenon, <2>9, <3>1, <3>2, HeadSigned
    <3>5. heads' \in SUBSET Seq(Seq(Byte))
      BY Zenon, <3>4 DEF TypeOK
    <3> QED
      BY Zenon, <3>3, <3>5 DEF TypeOK
  <2>10. CASE UNCHANGED vars
    BY Zenon, <2>10 DEF TypeOK, vars
  <2> QED
    BY Zenon, <2>1, <2>2, <2>3, <2>4, <2>5, <2>6, <2>8, <2>9, <2>10
    DEF Next, Step, CreateDrop, FetchDrop, Drop
<1> QED
  BY <1>1, <1>2, PTL DEF Spec

\* The heart of the matter: every step of every process extends the parsed log.
LEMMA StepExtendsLog ==
  ASSUME TypeOK, [Next]_vars
  PROVE  IsPrefix(log_entries(entries), log_entries(entries'))
<1>1. PICK w \in Seq(Byte) : entries' = entries \o w
  BY Zenon, EntriesOnlyAppended
<1> QED
  BY Zenon, <1>1, AppendExtendsEntries DEF TypeOK

\* The transparency log is append-only under any interleaving of any number of
\* processes and any number of faults.
THEOREM LogIsAppendOnly == Spec => LogAppendOnly
<1>1. TypeOK /\ [Next]_vars => [IsPrefix(log_entries(entries), log_entries(entries'))]_vars
  BY Zenon, StepExtendsLog
<1> QED
  BY <1>1, TypeCorrect, PTL DEF Spec, LogAppendOnly

\* Every tree head ever signed commits to a prefix of the log as it is now.
THEOREM HeadsCommitToPrefixes == Spec => []HeadsArePrefixes
<1>1. Init => HeadsArePrefixes
  BY Zenon DEF Init, HeadsArePrefixes
<1>2. TypeOK /\ TypeOK' /\ HeadsArePrefixes /\ [Next]_vars => HeadsArePrefixes'
  <2> SUFFICES ASSUME TypeOK, TypeOK', HeadsArePrefixes, [Next]_vars, NEW h \in heads'
               PROVE  IsPrefix(h, log_entries(entries'))
    BY Zenon DEF HeadsArePrefixes
  <2>1. /\ log_entries(entries) \in Seq(Seq(Byte)) /\ log_entries(entries') \in Seq(Seq(Byte))
        /\ h \in Seq(Seq(Byte))
    BY Zenon, EntriesType DEF TypeOK
  <2>2. IsPrefix(log_entries(entries), log_entries(entries'))
    BY Zenon, StepExtendsLog
  <2>3. CASE h \in heads
    <3>1. IsPrefix(h, log_entries(entries))
      BY Zenon, <2>3 DEF HeadsArePrefixes
    <3> QED
      BY Zenon, <2>1, <2>2, <3>1, PrefixTransitive
  <2>4. CASE h \notin heads
    <3>1. SignTreeHead
      BY Zenon, <2>4 DEF Next, vars, CreateDrop, FetchDrop, Start, Step, OpenFile, FillFile, PeerMissing,
                  WriteHeader, WriteBody, Crash, IgnoredAppendError, CutShort
    <3>2. h = log_entries(entries) \/ h = <<>>
      BY Zenon, <2>4, <3>1, HeadSigned
    <3>3. IsPrefix(<<>>, log_entries(entries'))
      BY <2>1 DEF IsPrefix
    <3> QED
      BY Zenon, <2>2, <3>2, <3>3
  <2> QED
    BY Zenon, <2>3, <2>4
<1> QED
  BY <1>1, <1>2, TypeCorrect, PTL DEF Spec

\* The node never signs two tree heads that detect_equivocation would flag.
THEOREM NeverEquivocates == Spec => []NoEquivocation
<1>1. TypeOK /\ HeadsArePrefixes => NoEquivocation
  <2> SUFFICES ASSUME TypeOK, HeadsArePrefixes, NEW h \in heads, NEW g \in heads, Len(h) = Len(g)
               PROVE  h = g
    BY Zenon DEF NoEquivocation
  <2>1. log_entries(entries) \in Seq(Seq(Byte)) /\ h \in Seq(Seq(Byte)) /\ g \in Seq(Seq(Byte))
    BY Zenon, EntriesType DEF TypeOK
  <2>2. IsPrefix(h, log_entries(entries)) /\ IsPrefix(g, log_entries(entries))
    BY Zenon DEF HeadsArePrefixes
  <2> QED
    BY Zenon, <2>1, <2>2, PrefixesOfOneLength
<1> QED
  BY <1>1, TypeCorrect, HeadsCommitToPrefixes, PTL

\* The data directory, files, interleavings, crashes and all, implements the
\* append-only log its auditors rely on.
THEOREM DataDirImplementsLog == Spec => ImplementsLog
<1>1. Init => Log!Init
  <2>1. <<>> \in Seq(Byte) /\ Len(<<>>) = 0
    OBVIOUS
  <2>2. log_entries(<<>>) = <<>>
    BY Zenon, <2>1, EmptyFileHasNoEntries
  <2> QED
    BY Zenon, <2>2 DEF Init, Log!Init
<1>2. TypeOK /\ [Next]_vars => [Log!Next]_<<log_entries(entries), heads>>
  <2> SUFFICES ASSUME TypeOK, [Next]_vars
               PROVE  [Log!Next]_<<log_entries(entries), heads>>
    BY Zenon
  <2>1. CASE SignTreeHead
    <3>1. entries' = entries /\ \E h \in {log_entries(entries), <<>>} : heads' = heads \cup {h}
      BY Zenon, <2>1, HeadSigned
    <3>2. log_entries(entries)' = log_entries(entries)
      BY Zenon, <3>1
    <3> QED
      BY Zenon, <3>1, <3>2 DEF Log!Next, Log!Publish
  <2>2. CASE UNCHANGED heads
    <3>1. IsPrefix(log_entries(entries), log_entries(entries)')
      BY Zenon, StepExtendsLog
    <3> QED
      BY Zenon, <2>2, <3>1 DEF Log!Next, Log!Extend, Log!IsPrefix, IsPrefix
  <2>3. SignTreeHead \/ UNCHANGED heads
    BY Zenon DEF Next, vars, CreateDrop, FetchDrop, Start, Step, OpenFile, FillFile, PeerMissing,
           WriteHeader, WriteBody, Crash, IgnoredAppendError, CutShort
  <2> QED
    BY Zenon, <2>1, <2>2, <2>3
<1> QED
  BY <1>1, <1>2, TypeCorrect, PTL DEF Spec, ImplementsLog, Log!Spec

\* A drop that is not of this node, or whose envelope has been written before.
Refetch(files, d) == d \in Remote \/ files[EnvelopeFile(d)] # "absent"

\* What the order of the writes guarantees about an operation under way: the files
\* it has passed exist, an operation that has reached the log has passed all of
\* them, and a fetch of a drop of this node finds the envelope in place.
WritesInOrder ==
  \A p \in Proc : job[p].pc # "idle" =>
    /\ \A k \in 1..(job[p].at - 1) : disk[FileAt(job[p].op, job[p].drop, k)] # "absent"
    /\ job[p].pc # "open" => disk[CurrentFile(p)] # "absent"
    /\ job[p].pc \in {"header", "body"} => job[p].at = ChunkCount[job[p].drop] + 1
    /\ job[p].op = "fetch" => Refetch(disk, job[p].drop)

\* The inductive invariant of the files.
DiskInv == WritesInOrder /\ StoredBeforeLogged /\ CreatedNeverPartial

\* A step either leaves the files alone, or writes the current file of a busy process.
LEMMA DiskSteps ==
  ASSUME [Next]_vars
  PROVE  \/ UNCHANGED disk
         \/ \E p \in Proc : OpenFile(p) \/ FillFile(p)
BY Zenon DEF Next, vars, CreateDrop, FetchDrop, Start, Step, PeerMissing, WriteHeader, WriteBody,
       Crash, IgnoredAppendError, CutShort, SignTreeHead

\* No operation removes a file.
LEMMA FilesStay ==
  ASSUME TypeOK, [Next]_vars, NEW f \in File, disk[f] # "absent"
  PROVE  disk'[f] # "absent"
<1>1. ASSUME NEW p \in Proc, OpenFile(p) \/ FillFile(p)
      PROVE  disk'[f] # "absent"
  BY Zenon, <1>1 DEF OpenFile, FillFile, TypeOK
<1> QED
  BY Zenon, <1>1, DiskSteps

\* A drop is acknowledged once and for all, by an operation that has reached the log.
LEMMA AckSteps ==
  ASSUME TypeOK, [Next]_vars, NEW d \in Acked'
  PROVE  \/ d \in Acked
         \/ \E p \in Proc : job[p].pc \in {"header", "body"} /\ job[p].drop = d
<1>1. CASE UNCHANGED acks
  BY Zenon, <1>1 DEF Acked
<1>2. ASSUME NEW p \in Proc, WriteBody(p) \/ IgnoredAppendError(p)
      PROVE  d \in Acked \/ job[p].drop = d
  <2>1. acks' = Append(acks, job[p].drop) /\ acks \in Seq(Drop) /\ job[p].drop \in Drop
    BY Zenon, <1>2, BusyHasJob DEF WriteBody, IgnoredAppendError, TypeOK
  <2>2. PICK i \in DOMAIN acks' : d = acks'[i]
    BY Zenon DEF Acked
  <2>3. i \in 1..(Len(acks) + 1) /\ Len(acks) \in Nat
    BY <2>1, <2>2
  <2>4. CASE i = Len(acks) + 1
    BY SMTT(30), <2>1, <2>2, <2>4
  <2>5. CASE i # Len(acks) + 1
    <3>1. i \in 1..Len(acks) /\ acks'[i] = acks[i]
      BY <2>1, <2>3, <2>5
    <3> QED
      BY <2>1, <2>2, <3>1 DEF Acked
  <2> QED
    BY Zenon, <2>4, <2>5
<1>3. UNCHANGED acks \/ \E p \in Proc : WriteBody(p) \/ IgnoredAppendError(p)
  BY Zenon DEF Next, vars, CreateDrop, FetchDrop, Start, Step, OpenFile, FillFile, PeerMissing,
         WriteHeader, Crash, CutShort, SignTreeHead
<1> QED
  BY Zenon, <1>1, <1>2, <1>3 DEF WriteBody, IgnoredAppendError

\* A drop that is offered, and one that could be fetched before, can be fetched.
LEMMA RefetchStays ==
  ASSUME TypeOK, StoredBeforeLogged, [Next]_vars, NEW d \in Drop, Refetch(disk, d) \/ Offered(d)
  PROVE  Refetch(disk', d)
<1>1. EnvelopeFile(d) \in FilesOf(d) /\ EnvelopeFile(d) \in File
  BY DropAssumption DEF FilesOf, File, EnvelopeFile
<1>2. d \in Remote \/ disk[EnvelopeFile(d)] # "absent"
  BY Zenon, <1>1 DEF Refetch, Offered, StoredBeforeLogged
<1> QED
  BY Zenon, <1>1, <1>2, FilesStay DEF Refetch

\* How a process gets to where it is: it did not move, it stopped, or it took one of
\* the four steps that keep it busy.
LEMMA JobSteps ==
  ASSUME TypeOK, [Next]_vars, NEW p \in Proc
  PROVE  \/ job'[p] = job[p]
         \/ job'[p] = Idle
         \/ \E op \in {"create", "fetch"}, d \in Drop :
              Start(p, op, d) /\ (op = "fetch" => Offered(d))
         \/ OpenFile(p) \/ FillFile(p) \/ WriteHeader(p)
<1>1. ASSUME NEW q \in Proc, NEW d \in Drop, CreateDrop(q, d)
      PROVE  job'[p] = job[p] \/ Start(p, "create", d)
  BY Zenon, <1>1 DEF CreateDrop, Start, TypeOK
<1>2. ASSUME NEW q \in Proc, NEW d \in Drop, FetchDrop(q, d)
      PROVE  job'[p] = job[p] \/ (Start(p, "fetch", d) /\ Offered(d))
  BY Zenon, <1>2 DEF FetchDrop, Start, TypeOK
<1>3. ASSUME NEW q \in Proc, Step(q)
      PROVE  \/ job'[p] = job[p] \/ job'[p] = Idle
             \/ OpenFile(p) \/ FillFile(p) \/ WriteHeader(p)
  BY Zenon, <1>3 DEF Step, TypeOK, OpenFile, FillFile, WriteHeader, GoTo, PeerMissing, WriteBody,
              Crash, IgnoredAppendError, CutShort
<1>4. CASE SignTreeHead \/ UNCHANGED vars
  BY Zenon, <1>4 DEF SignTreeHead, vars
<1> QED
  BY Zenon, <1>1, <1>2, <1>3, <1>4 DEF Next, Drop

\* Every step keeps the order of writes: behind a process at its k-th file, the
\* k - 1 files before it exist.
LEMMA WritesInOrderStep ==
  ASSUME TypeOK, TypeOK', WritesInOrder, StoredBeforeLogged, [Next]_vars
  PROVE  WritesInOrder'
<1> SUFFICES ASSUME NEW p \in Proc, job'[p].pc # "idle"
             PROVE  /\ \A k \in 1..(job'[p].at - 1) :
                         disk'[FileAt(job'[p].op, job'[p].drop, k)] # "absent"
                    /\ job'[p].pc # "open" => disk'[CurrentFile(p)'] # "absent"
                    /\ job'[p].pc \in {"header", "body"} =>
                         job'[p].at = ChunkCount[job'[p].drop] + 1
                    /\ job'[p].op = "fetch" => Refetch(disk', job'[p].drop)
  BY Zenon DEF WritesInOrder
<1>1. ASSUME job[p].pc # "idle"
      PROVE  /\ \A k \in 1..(ChunkCount[job[p].drop] + 1) :
                  FileAt(job[p].op, job[p].drop, k) \in File
             /\ job[p].at \in 1..(ChunkCount[job[p].drop] + 1)
             /\ ChunkCount[job[p].drop] \in Nat
             /\ CurrentFile(p) \in File
  BY SMTT(30), <1>1, BusyHasJob, FileAtIsFile DEF TypeOK
\* The files passed before the step are still there.
<1>2. ASSUME job[p].pc # "idle"
      PROVE  \A k \in 1..(job[p].at - 1) :
               disk'[FileAt(job[p].op, job[p].drop, k)] # "absent"
  <2> TAKE k \in 1..(job[p].at - 1)
  <2>1. k \in 1..(ChunkCount[job[p].drop] + 1)
    BY <1>1, <1>2
  <2>2. FileAt(job[p].op, job[p].drop, k) \in File
    BY Zenon, <1>1, <1>2, <2>1
  <2>3. disk[FileAt(job[p].op, job[p].drop, k)] # "absent"
    BY Zenon, <1>2 DEF WritesInOrder
  <2> QED
    BY Zenon, <2>2, <2>3, FilesStay
\* What could be fetched still can.
<1>3. ASSUME job[p].pc # "idle", job[p].op = "fetch"
      PROVE  Refetch(disk', job[p].drop)
  BY Zenon, <1>3, BusyHasJob, RefetchStays DEF WritesInOrder
<1>4. CASE job'[p] = job[p]
  <2>1. job[p].pc # "open" => disk'[CurrentFile(p)] # "absent"
    BY Zenon, <1>1, <1>4, FilesStay DEF WritesInOrder
  <2>2. CurrentFile(p)' = CurrentFile(p)
    BY Zenon, <1>4 DEF CurrentFile
  <2> QED
    BY Zenon, <1>2, <1>3, <1>4, <2>1, <2>2 DEF WritesInOrder
<1>5. CASE job'[p] = Idle
  BY <1>5 DEF Idle
<1>6. CASE \E op \in {"create", "fetch"}, d \in Drop :
             Start(p, op, d) /\ (op = "fetch" => Offered(d))
  <2>1. PICK op \in {"create", "fetch"}, d \in Drop :
               Start(p, op, d) /\ (op = "fetch" => Offered(d))
    BY Zenon, <1>6
  <2>2. job'[p] = [pc |-> "open", op |-> op, drop |-> d, at |-> 1]
    BY Zenon, <2>1 DEF Start, TypeOK
  <2>3. job'[p].op = "fetch" => Refetch(disk', job'[p].drop)
    BY SMTT(30), <2>1, <2>2, RefetchStays
  <2>4. job'[p].pc = "open" /\ job'[p].at = 1
    BY <2>2
  <2>5. 1..(job'[p].at - 1) = {}
    BY SMTT(30), <2>4
  <2> QED
    BY Zenon, <2>3, <2>4, <2>5
<1>7. CASE OpenFile(p)
  <2>1. /\ job'[p] = [pc |-> "fill", op |-> job[p].op, drop |-> job[p].drop, at |-> job[p].at]
        /\ job[p].pc = "open"
    BY Zenon, <1>7 DEF OpenFile, GoTo, TypeOK
  <2>2. disk'[CurrentFile(p)] = "torn"
    BY Zenon, <1>1, <1>7 DEF OpenFile, TypeOK
  <2>3. CurrentFile(p)' = CurrentFile(p)
    BY <2>1 DEF CurrentFile
  <2> QED
    BY <1>2, <1>3, <2>1, <2>2, <2>3
<1>8. CASE FillFile(p)
  <2>1. job[p].pc = "fill" /\ disk'[CurrentFile(p)] = "whole"
    BY Zenon, <1>1, <1>8 DEF FillFile, TypeOK
  <2>2. CASE job[p].at <= ChunkCount[job[p].drop] /\ GoTo(p, "open", job[p].at + 1)
    <3>1. job'[p] = [pc |-> "open", op |-> job[p].op, drop |-> job[p].drop, at |-> job[p].at + 1]
      BY Zenon, <2>2 DEF GoTo, TypeOK
    <3>2. ASSUME NEW k \in 1..job[p].at
          PROVE  disk'[FileAt(job[p].op, job[p].drop, k)] # "absent"
      <4>1. k = job[p].at \/ k \in 1..(job[p].at - 1)
        BY SMTT(30), <1>1, <2>1
      <4> QED
        BY Zenon, <1>2, <2>1, <4>1 DEF CurrentFile
    <3>3. job'[p].at - 1 = job[p].at
      BY SMTT(30), <1>1, <2>1, <3>1
    <3> QED
      BY SMTT(30), <1>3, <2>1, <3>1, <3>2, <3>3
  <2>3. CASE job[p].at > ChunkCount[job[p].drop] /\ GoTo(p, "header", job[p].at)
    <3>1. job'[p] = [pc |-> "header", op |-> job[p].op, drop |-> job[p].drop, at |-> job[p].at]
      BY Zenon, <2>3 DEF GoTo, TypeOK
    <3>2. CurrentFile(p)' = CurrentFile(p)
      BY SMTT(30), <3>1 DEF CurrentFile
    <3>3. job[p].at = ChunkCount[job[p].drop] + 1
      BY SMTT(30), <1>1, <2>1, <2>3
    <3> QED
      BY SMTT(30), <1>2, <1>3, <2>1, <3>1, <3>2, <3>3
  <2> QED
    BY Zenon, <1>8, <2>2, <2>3 DEF FillFile
<1>9. CASE WriteHeader(p)
  <2>1. /\ job'[p] = [pc |-> "body", op |-> job[p].op, drop |-> job[p].drop, at |-> job[p].at]
        /\ job[p].pc = "header" /\ disk' = disk
    BY Zenon, <1>9 DEF WriteHeader, GoTo, TypeOK
  <2>2. CurrentFile(p)' = CurrentFile(p)
    BY <2>1 DEF CurrentFile
  <2> QED
    BY <1>2, <1>3, <2>1, <2>2 DEF WritesInOrder
<1>10. \/ job'[p] = job[p]
       \/ job'[p] = Idle
       \/ \E op \in {"create", "fetch"}, d \in Drop :
            Start(p, op, d) /\ (op = "fetch" => Offered(d))
       \/ OpenFile(p) \/ FillFile(p) \/ WriteHeader(p)
  BY Zenon, JobSteps
<1> QED
  BY Zenon, <1>4, <1>5, <1>6, <1>7, <1>8, <1>9, <1>10

\* Every step keeps StoredBeforeLogged.
LEMMA StoredBeforeLoggedStep ==
  ASSUME TypeOK, TypeOK', WritesInOrder, WritesInOrder', StoredBeforeLogged, [Next]_vars
  PROVE  StoredBeforeLogged'
<1> SUFFICES ASSUME NEW d \in Drop,
                    d \in Acked' \/ \E p \in Proc : job'[p].pc \in {"header", "body"} /\ job'[p].drop = d,
                    NEW f \in FilesOf(d)
             PROVE  disk'[f] # "absent"
  BY Zenon DEF StoredBeforeLogged, Working
<1>1. f \in File
  BY Zenon DEF File
<1>2. ASSUME NEW p \in Proc, job'[p].pc \in {"header", "body"}, job'[p].drop = d
      PROVE  disk'[f] # "absent"
  <2>1. PICK k \in 1..(ChunkCount[d] + 1) : f = FileAt(job'[p].op, d, k)
    BY Zenon, EveryFileIsWritten
  <2>2. job'[p].at = ChunkCount[d] + 1 /\ ChunkCount[d] \in Nat
    BY Zenon, <1>2, DropAssumption DEF WritesInOrder
  <2>3. CASE k = job'[p].at
    <3>1. f = CurrentFile(p)'
      BY Zenon, <1>2, <2>1, <2>3 DEF CurrentFile
    <3> QED
      BY Zenon, <1>2, <3>1 DEF WritesInOrder
  <2>4. CASE k # job'[p].at
    <3>1. k \in 1..(job'[p].at - 1)
      BY <2>1, <2>2, <2>4
    <3> QED
      BY Zenon, <1>2, <2>1, <3>1 DEF WritesInOrder
  <2> QED
    BY Zenon, <2>3, <2>4
<1>3. CASE d \in Acked'
  <2>1. d \in Acked \/ \E p \in Proc : job[p].pc \in {"header", "body"} /\ job[p].drop = d
    BY Zenon, <1>3, AckSteps
  <2>2. disk[f] # "absent"
    BY Zenon, <2>1 DEF StoredBeforeLogged, Working
  <2> QED
    BY Zenon, <1>1, <2>2, FilesStay
<1> QED
  BY Zenon, <1>2, <1>3

\* Every step keeps CreatedNeverPartial.
LEMMA CreatedNeverPartialStep ==
  ASSUME TypeOK, WritesInOrder, CreatedNeverPartial, [Next]_vars
  PROVE  CreatedNeverPartial'
<1> SUFFICES ASSUME NEW d \in Local, disk'[EnvelopeFile(d)] # "absent", NEW f \in FilesOf(d)
             PROVE  disk'[f] # "absent"
  BY Zenon DEF CreatedNeverPartial
<1>1. d \in Drop /\ f \in File /\ ChunkCount[d] \in Nat \ {0}
  BY Zenon, DropAssumption DEF Drop, File
<1>2. EnvelopeFile(d) \in FilesOf(d) /\ EnvelopeFile(d) \in File
  BY <1>1 DEF FilesOf, File, EnvelopeFile
<1>3. CASE disk[EnvelopeFile(d)] # "absent"
  BY Zenon, <1>1, <1>3, FilesStay DEF CreatedNeverPartial
<1>4. CASE disk[EnvelopeFile(d)] = "absent"
  <2>1. PICK p \in Proc : OpenFile(p) \/ FillFile(p)
    BY Zenon, <1>4, DiskSteps
  <2>2. job[p].pc \in {"open", "fill"} /\ CurrentFile(p) = EnvelopeFile(d)
    BY Zenon, <1>2, <1>4, <2>1 DEF OpenFile, FillFile, TypeOK
  <2>3. /\ job[p].drop = d /\ job[p].op \in {"create", "fetch"}
        /\ job[p].at \in 1..(ChunkCount[d] + 1)
    <3>1. job[p] \in Job /\ CurrentFile(p) \in FilesOf(job[p].drop) /\ job[p].at \in Nat \ {0}
      BY Zenon, <2>2, BusyHasJob
    <3>2. job[p].drop = d
      BY <2>2, <3>1 DEF FilesOf, EnvelopeFile
    <3> QED
      BY <2>2, <3>1, <3>2 DEF Job, TypeOK
  <2>4. CASE job[p].op = "fetch"
    <3>1. Refetch(disk, d)
      BY Zenon, <2>2, <2>3, <2>4 DEF WritesInOrder
    <3> QED
      BY Zenon, <1>4, <3>1, DropAssumption DEF Refetch
  <2>5. CASE job[p].op = "create"
    <3>1. job[p].at = ChunkCount[d] + 1
      BY <1>1, <2>2, <2>3, <2>5 DEF CurrentFile, FileAt, ChunkFile, EnvelopeFile
    <3>2. PICK k \in 1..(ChunkCount[d] + 1) : f = FileAt("create", d, k)
      BY Zenon, <1>1, EveryFileIsWritten
    <3>3. CASE k = job[p].at
      BY Zenon, <2>2, <2>3, <2>5, <3>2, <3>3 DEF CurrentFile
    <3>4. CASE k # job[p].at
      <4>1. k \in 1..(job[p].at - 1)
        BY <1>1, <3>1, <3>4
      <4>2. disk[f] # "absent"
        BY Zenon, <2>2, <2>3, <2>5, <3>2, <4>1 DEF WritesInOrder
      <4> QED
        BY Zenon, <1>1, <4>2, FilesStay
    <3> QED
      BY Zenon, <3>3, <3>4
  <2> QED
    BY Zenon, <2>3, <2>4, <2>5
<1> QED
  BY Zenon, <1>3, <1>4

\* The inductive invariant of the files holds throughout.
LEMMA DiskInvariant == Spec => []DiskInv
<1>1. Init => DiskInv
  <2> SUFFICES ASSUME Init PROVE DiskInv
    BY Zenon
  <2>1. \A p \in Proc : job[p].pc = "idle"
    BY Zenon DEF Init, Idle
  <2>2. Acked = {}
    BY DEF Init, Acked
  <2>3. \A d \in Drop : EnvelopeFile(d) \in File
    BY DropAssumption DEF EnvelopeFile, File, FilesOf
  <2> QED
    BY Zenon, <2>1, <2>2, <2>3 DEF Init, DiskInv, WritesInOrder, StoredBeforeLogged, Working,
                            CreatedNeverPartial, Drop
<1>2. TypeOK /\ TypeOK' /\ DiskInv /\ [Next]_vars => DiskInv'
  BY Zenon, WritesInOrderStep, StoredBeforeLoggedStep, CreatedNeverPartialStep DEF DiskInv
<1> QED
  BY <1>1, <1>2, TypeCorrect, PTL DEF Spec

\* Whatever has reached the log, or was reported as done, has all its files.
THEOREM LoggedIsStored == Spec => []StoredBeforeLogged
<1>1. DiskInv => StoredBeforeLogged
  BY Zenon DEF DiskInv
<1> QED
  BY <1>1, DiskInvariant, PTL

\* The envelope of a created drop is never there without all of its chunk files.
THEOREM CreatedIsNeverPartial == Spec => []CreatedNeverPartial
<1>1. DiskInv => CreatedNeverPartial
  BY Zenon DEF DiskInv
<1> QED
  BY <1>1, DiskInvariant, PTL

\* A torn file has a cause: somebody is filling it, or an operation was cut short.
THEOREM TornFilesHaveACause == Spec => []TornHasCause
<1>1. Init => TornHasCause
  BY Zenon DEF Init, TornHasCause
<1>2. TypeOK /\ TypeOK' /\ TornHasCause /\ [Next]_vars => TornHasCause'
  <2> SUFFICES ASSUME TypeOK, TypeOK', TornHasCause, [Next]_vars,
                      NEW f \in File, disk'[f] = "torn", ~(faults' > 0)
               PROVE  \E p \in Proc : job'[p].pc = "fill" /\ CurrentFile(p)' = f
    BY Zenon DEF TornHasCause
  <2>1. faults = 0 /\ \A p \in Proc : ~CutShort(p)
    <3>1. faults \in Nat /\ faults' \in Nat
      BY BoundAssumption DEF TypeOK
    <3>2. \A p \in Proc : ~CutShort(p)
      BY <3>1 DEF CutShort
    <3>3. faults' = faults
      BY Zenon, <3>2 DEF Next, vars, CreateDrop, FetchDrop, Start, Step, OpenFile, FillFile, PeerMissing,
                  WriteHeader, WriteBody, Crash, IgnoredAppendError, SignTreeHead
    <3> QED
      BY <3>1, <3>2, <3>3
  <2>2. CASE disk[f] # "torn"
    <3>1. PICK p \in Proc : OpenFile(p) /\ CurrentFile(p) = f
      BY Zenon, <2>2, DiskSteps DEF OpenFile, FillFile, TypeOK
    <3>2. job'[p] = [pc |-> "fill", op |-> job[p].op, drop |-> job[p].drop, at |-> job[p].at]
      BY Zenon, <3>1 DEF OpenFile, GoTo, TypeOK
    <3> QED
      BY <3>1, <3>2 DEF CurrentFile
  <2>3. CASE disk[f] = "torn"
    <3>1. PICK p \in Proc : job[p].pc = "fill" /\ CurrentFile(p) = f
      BY <2>1, <2>3 DEF TornHasCause
    <3>2. ~FillFile(p)
      BY Zenon, <3>1 DEF FillFile, TypeOK
    <3>3. job'[p] = job[p]
      <4>1. ASSUME NEW q \in Proc, Step(q)
            PROVE  job'[p] = job[p]
        BY Zenon, <2>1, <3>1, <3>2, <4>1
        DEF Step, TypeOK, OpenFile, FillFile, WriteHeader, GoTo, PeerMissing, WriteBody,
            Crash, IgnoredAppendError
      <4> QED
        BY Zenon, <3>1, <4>1 DEF Next, vars, CreateDrop, FetchDrop, Start, SignTreeHead, TypeOK
    <3> QED
      BY Zenon, <3>1, <3>3 DEF CurrentFile
  <2> QED
    BY Zenon, <2>2, <2>3
<1> QED
  BY <1>1, <1>2, TypeCorrect, PTL DEF Spec

------------------------------------------------------------------------------
(* One process at a time and no fault: the log is what was acknowledged. *)

\* The envelopes of the acknowledged drops, in order.
Envelopes(done) == [i \in DOMAIN done |-> Envelope[done[i]]]

\* The file f is read to its end, and holds the envelopes of the drops done.
Holds(f, done) == f \in Seq(Byte) /\ Clean(f) /\ log_entries(f) = Envelopes(done)

\* Between two appends the log file holds what was acknowledged, and while one is
\* under way it does so up to the header that is being followed by its envelope.
AckInv ==
  faults = 0 =>
    /\ ~Appending => Holds(entries, acks)
    /\ \A p \in Proc : job[p].pc = "body" =>
         \E f : Holds(f, acks) /\ entries = f \o Header(job[p].drop)

\* Commands are run one after the other.
Serial == \A p, q \in Proc : p = q

\* The header that append_log_entry writes announces the length of the envelope.
LEMMA HeaderAnnounces ==
  ASSUME NEW d \in Drop
  PROVE  /\ Header(d) \in Seq(Byte) /\ Len(Header(d)) = HeaderLen
         /\ from_be_bytes(Header(d)) = Len(Envelope[d])
<1>1. Header(d) \in [1..HeaderLen -> Byte] /\ from_be_bytes(Header(d)) = Len(Envelope[d])
  <2>1. \E h \in [1..HeaderLen -> Byte] : from_be_bytes(h) = Len(Envelope[d])
    BY Zenon, DropAssumption DEF Fits
  <2> QED
    BY Zenon, <2>1 DEF Header, to_be_bytes
<1>2. Header(d) \in Seq(Byte)
  BY Zenon, <1>1, FormatAssumption, SeqDef
<1>3. Len(Header(d)) = HeaderLen
  BY <1>1, <1>2, FormatAssumption, LenProperties
<1> QED
  BY Zenon, <1>1, <1>2, <1>3

\* Append, cell by cell.
LEMMA AppendCells ==
  ASSUME NEW S, NEW s \in Seq(S), NEW x \in S, NEW n, n = Len(s), NEW t, t = Append(s, x)
  PROVE  /\ t \in Seq(S) /\ DOMAIN t = 1..(n + 1) /\ t[n + 1] = x
         /\ \A i \in 1..n : t[i] = s[i]
BY AppendProperties, LenProperties

\* An append of a whole entry, and its acknowledgement.
LEMMA HoldsOneMore ==
  ASSUME NEW f, NEW done \in Seq(Drop), Holds(f, done), NEW d \in Drop
  PROVE  Holds((f \o Header(d)) \o Envelope[d], Append(done, d))
<1>1. PICK h, e : h = Header(d) /\ e = Envelope[d]
  BY Zenon
<1>2. h \in Seq(Byte) /\ Len(h) = HeaderLen /\ e \in Seq(Byte) /\ from_be_bytes(h) = Len(e)
  BY Zenon, <1>1, HeaderAnnounces, DropAssumption
<1>3. f \in Seq(Byte) /\ Clean(f)
  BY Zenon DEF Holds
<1>4. Clean((f \o h) \o e) /\ log_entries((f \o h) \o e) = Append(log_entries(f), e)
  BY Zenon, <1>2, <1>3, WholeEntryIsRead
<1>5. (f \o h) \o e \in Seq(Byte)
  <2>1. f \o h \in Seq(Byte)
    BY Zenon, <1>2, <1>3, ConcatProperties
  <2> QED
    BY Zenon, <1>2, <2>1, ConcatProperties
<1>6. Append(Envelopes(done), e) = Envelopes(Append(done, d))
  <2>1. PICK n : n = Len(done) /\ n \in Nat /\ DOMAIN done = 1..n
    BY Zenon, LenProperties
  <2>2. /\ Append(done, d) \in Seq(Drop) /\ DOMAIN Append(done, d) = 1..(n + 1)
        /\ Append(done, d)[n + 1] = d
        /\ \A i \in 1..n : Append(done, d)[i] = done[i]
    BY <2>1, AppendCells
  <2>3. Envelopes(done) = [i \in 1..n |-> Envelope[done[i]]]
    BY Zenon, <2>1 DEF Envelopes
  <2>4. Envelopes(done) \in Seq(Seq(Byte)) /\ Len(Envelopes(done)) = n
    <3>1. \A i \in 1..n : Envelope[done[i]] \in Seq(Byte)
      BY <2>1, DropAssumption
    <3>2. Envelopes(done) \in [1..n -> Seq(Byte)]
      BY Zenon, <2>3, <3>1
    <3>3. Envelopes(done) \in Seq(Seq(Byte))
      BY <2>1, <3>2, SeqDef
    <3> QED
      BY SMTT(30), <2>1, <3>2, <3>3, LenProperties
  <2>5. PICK s, t : s = Append(Envelopes(done), e) /\ t = Envelopes(Append(done, d))
    BY Zenon
  <2>6. t = [i \in 1..(n + 1) |-> Envelope[Append(done, d)[i]]]
    BY Zenon, <2>2, <2>5 DEF Envelopes
  <2>7. /\ s \in Seq(Seq(Byte)) /\ DOMAIN s = 1..(n + 1) /\ s[n + 1] = e
        /\ \A i \in 1..n : s[i] = Envelopes(done)[i]
    <3>1. PICK r : r = Envelopes(done)
      BY Zenon
    <3>2. r \in Seq(Seq(Byte)) /\ n = Len(r) /\ s = Append(r, e) /\ e \in Seq(Byte)
      BY Zenon, <1>2, <2>4, <2>5, <3>1
    <3>3. /\ s \in Seq(Seq(Byte)) /\ DOMAIN s = 1..(n + 1) /\ s[n + 1] = e
          /\ \A i \in 1..n : s[i] = r[i]
      BY <3>2, AppendCells
    <3> QED
      BY Zenon, <3>1, <3>3
  <2>8. \A i \in 1..(n + 1) : s[i] = t[i]
    <3> TAKE i \in 1..(n + 1)
    <3>1. t[i] = Envelope[Append(done, d)[i]]
      BY Zenon, <2>6
    <3>2. i \in 1..n \/ i = n + 1
      BY <2>1
    <3> QED
      BY Zenon, <1>1, <2>2, <2>3, <2>7, <3>1, <3>2
  <2>9. s = [i \in 1..(n + 1) |-> s[i]]
    BY <2>7
  <2> QED
    BY Zenon, <2>5, <2>6, <2>8, <2>9
<1> QED
  BY Zenon, <1>1, <1>4, <1>5, <1>6 DEF Holds

\* The log of a new directory.
LEMMA NewLogHolds ==
  ASSUME Init
  PROVE  Holds(entries, acks)
<1>1. entries = <<>> /\ entries \in Seq(Byte) /\ Len(entries) = 0 /\ acks = <<>>
  BY Zenon, EmptySeq DEF Init
<1>2. log_entries(entries) = <<>>
  BY Zenon, <1>1, EmptyFileHasNoEntries
<1>3. Envelopes(acks) = <<>>
  BY <1>1 DEF Envelopes
<1>4. Clean(entries)
  <2>1. Turns(entries) \in 0..Len(entries)
    BY Zenon, <1>1, LoopEnds
  <2>2. Cursors(entries)[0] = 0
    BY Zenon, <1>1, CursorsRun DEF IsRun
  <2> QED
    BY <1>1, <2>1, <2>2 DEF Clean
<1> QED
  BY Zenon, <1>1, <1>2, <1>3, <1>4 DEF Holds

\* A step of the one process: it appends a header, or the body that follows it, or
\* is cut short, or leaves the log, the acknowledgements and the process outside
\* append_log_entry; or else nobody moves.
LEMMA LogSteps ==
  ASSUME TypeOK, Serial, [Next]_vars, faults' = 0
  PROVE  /\ faults = 0
         /\ \/ UNCHANGED <<entries, acks, job>>
            \/ UNCHANGED <<entries, acks>> /\ ~Appending /\ ~Appending'
            \/ \E p \in Proc : WriteHeader(p) \/ WriteBody(p)
<1>1. faults \in Nat /\ \A p \in Proc : ~CutShort(p)
  <2>1. faults \in Nat
    BY SMTT(30), BoundAssumption DEF TypeOK
  <2> QED
    BY <2>1 DEF CutShort
<1>2. faults = 0
  BY Zenon, <1>1 DEF Next, vars, CreateDrop, FetchDrop, Start, Step, OpenFile, FillFile, PeerMissing,
              WriteHeader, WriteBody, Crash, IgnoredAppendError, SignTreeHead
<1>3. ASSUME NEW p \in Proc, job[p].pc # "body", job'[p].pc # "body"
      PROVE  ~Appending /\ ~Appending'
  BY Zenon, <1>3 DEF Appending, Serial
<1>4. ASSUME NEW p \in Proc, NEW op, NEW d, Start(p, op, d)
      PROVE  UNCHANGED <<entries, acks>> /\ ~Appending /\ ~Appending'
  <2>1. job[p].pc # "body" /\ job'[p].pc # "body"
    BY Zenon, <1>4 DEF Start, TypeOK
  <2> QED
    BY Zenon, <1>3, <1>4, <2>1 DEF Start
<1>5. ASSUME NEW p \in Proc, OpenFile(p) \/ FillFile(p) \/ PeerMissing(p)
      PROVE  UNCHANGED <<entries, acks>> /\ ~Appending /\ ~Appending'
  <2>1. job[p].pc # "body" /\ job'[p].pc # "body"
    BY <1>5 DEF OpenFile, FillFile, PeerMissing, GoTo, TypeOK, Idle
  <2> QED
    BY Zenon, <1>3, <1>5, <2>1 DEF OpenFile, FillFile, PeerMissing
<1>6. CASE SignTreeHead \/ UNCHANGED vars
  BY Zenon, <1>2, <1>6 DEF SignTreeHead, vars
<1> QED
  BY Zenon, <1>1, <1>2, <1>4, <1>5, <1>6 DEF Next, Step, CreateDrop, FetchDrop, Crash, IgnoredAppendError

\* Every step keeps the log equal to what was acknowledged.
LEMMA AckInvStep ==
  ASSUME TypeOK, TypeOK', Serial, AckInv, [Next]_vars
  PROVE  AckInv'
<1> SUFFICES ASSUME faults' = 0
             PROVE  /\ ~Appending' => Holds(entries', acks')
                    /\ \A p \in Proc : job'[p].pc = "body" =>
                         \E f : Holds(f, acks') /\ entries' = f \o Header(job'[p].drop)
  BY Zenon DEF AckInv
<1>1. /\ ~Appending => Holds(entries, acks)
      /\ \A p \in Proc : job[p].pc = "body" =>
           \E f : Holds(f, acks) /\ entries = f \o Header(job[p].drop)
  BY Zenon, LogSteps DEF AckInv
<1>2. CASE UNCHANGED <<entries, acks, job>>
  BY Zenon, <1>1, <1>2 DEF Appending
<1>3. CASE UNCHANGED <<entries, acks>> /\ ~Appending /\ ~Appending'
  BY Zenon, <1>1, <1>3 DEF Appending
<1>4. ASSUME NEW p \in Proc, WriteHeader(p)
      PROVE  /\ Appending' /\ Holds(entries, acks) /\ acks' = acks
             /\ \A q \in Proc : entries' = entries \o Header(job'[q].drop)
  <2>1. job[p].pc # "body" /\ \A q \in Proc : q = p
    BY Zenon, <1>4 DEF WriteHeader, Serial
  <2>2. Holds(entries, acks)
    BY Zenon, <1>1, <2>1 DEF Appending
  <2>3. job'[p].pc = "body" /\ job'[p].drop = job[p].drop
    BY Zenon, <1>4 DEF WriteHeader, GoTo, TypeOK
  <2> QED
    BY Zenon, <1>4, <2>1, <2>2, <2>3 DEF WriteHeader, Appending
<1>5. ASSUME NEW p \in Proc, WriteBody(p)
      PROVE  Holds(entries', acks') /\ ~Appending'
  <2>1. job[p].pc = "body" /\ \A q \in Proc : q = p
    BY Zenon, <1>5 DEF WriteBody, Serial
  <2>2. PICK f : Holds(f, acks) /\ entries = f \o Header(job[p].drop)
    BY Zenon, <1>1, <2>1
  <2>3. job[p].drop \in Drop /\ acks \in Seq(Drop)
    BY Zenon, <2>1, BusyHasJob DEF TypeOK
  <2>4. Holds((f \o Header(job[p].drop)) \o Envelope[job[p].drop], Append(acks, job[p].drop))
    BY Zenon, <2>2, <2>3, HoldsOneMore
  <2>5. entries' = (f \o Header(job[p].drop)) \o Envelope[job[p].drop]
        /\ acks' = Append(acks, job[p].drop)
    BY Zenon, <1>5, <2>2 DEF WriteBody
  <2>6. job'[p].pc # "body"
    BY Zenon, <1>5 DEF WriteBody, TypeOK, Idle
  <2> QED
    BY Zenon, <2>1, <2>4, <2>5, <2>6 DEF Appending
<1> QED
  BY Zenon, <1>2, <1>3, <1>4, <1>5, LogSteps DEF Appending

\* With one command at a time, as long as none was cut short, the log is between
\* two appends exactly the envelopes of the creates and fetches that reported
\* success, in that order: append_log_entry and log_entries agree on every entry.
THEOREM LogIsWhatWasAcknowledged ==
  ASSUME Serial
  PROVE  Spec => [](faults = 0 => LogIsAcks)
<1>1. Init => AckInv
  <2> SUFFICES ASSUME Init PROVE AckInv
    BY Zenon
  <2>1. \A p \in Proc : job[p].pc # "body"
    BY Zenon DEF Init, Idle
  <2> QED
    BY Zenon, <2>1, NewLogHolds DEF AckInv
<1>2. TypeOK /\ TypeOK' /\ AckInv /\ [Next]_vars => AckInv'
  BY Zenon, AckInvStep
<1>3. AckInv => (faults = 0 => LogIsAcks)
  BY Zenon DEF AckInv, LogIsAcks, Holds, Envelopes
<1> QED
  BY <1>1, <1>2, <1>3, TypeCorrect, PTL DEF Spec

================================================================================
