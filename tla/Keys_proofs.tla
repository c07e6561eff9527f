------------------------------ MODULE Keys_proofs ------------------------------
(***************************************************************************)
(* The secret-key files, for any number of processes, operations and       *)
(* faults: no key that was handed out is replaced by an operation that     *)
(* began after that and could look at the file.                            *)
(***************************************************************************)
EXTENDS Keys, TLAPS

\* A kind of key and the number of a draw.
Pair == Kind \X (Nat \ {0})

\* The identity is there before the keys that belong to it, and is written first.
InOrder(k) == k \in {"identity", "log"} \/ key["identity"] # Absent

\* No key of this kind had been handed out when operation j began.
Fresh(j, k) == ~j.blind => \A pair \in j.knew : pair[1] # k

\* keygen or a create, before it draws.
IsDraw(j) ==
  /\ j = [pc |-> j.pc, todo |-> j.todo, knew |-> j.knew, blind |-> j.blind]
  /\ j.todo \in Seq(Kind) /\ j.todo # <<>>
  /\ \A i \in DOMAIN j.todo : Fresh(j, j.todo[i])
  /\ InOrder(j.todo[1])
  /\ Len(j.todo) > 1 => \A i \in DOMAIN j.todo : j.todo[i] # "log"

\* After it drew: the file of the key it will return is being written, or is there.
IsWrite(j) ==
  /\ j = [pc |-> j.pc, todo |-> j.todo, result |-> j.result, knew |-> j.knew, blind |-> j.blind]
  /\ j.todo \in Seq(Pair) /\ j.todo # <<>> /\ j.result \in Pair
  /\ \A i \in DOMAIN j.todo : Fresh(j, j.todo[i][1])
  /\ j.result = j.todo[1] \/ key[j.result[1]] # Absent
  /\ InOrder(j.todo[1][1])
  /\ Len(j.todo) > 1 => \A i \in DOMAIN j.todo : j.todo[i][1] # "log"

\* What an operation on the keys is at.
IsJob(j) ==
  \/ j.pc = "idle"
  \/ j.pc = "read" /\ j.kind \in Kind
  \/ j.pc = "draw" /\ IsDraw(j)
  \/ j.pc \in {"open", "fill"} /\ IsWrite(j)

\* The inductive invariant: a kind of key that was handed out has a file, and the hybrid
\* and ML-DSA keys are not there before the identity.
IInv ==
  /\ key \in [Kind -> Int] /\ drawn \in Nat
  /\ DOMAIN job = Proc /\ \A p \in Proc : IsJob(job[p])
  /\ published \subseteq Pair
  /\ \A pair \in published : key[pair[1]] # Absent
  /\ key["identity"] = Absent => key["hybrid"] = Absent /\ key["mldsa"] = Absent

\* No key file goes away.
FilesStay == \A k \in Kind : key[k] # Absent => key'[k] # Absent

-----------------------------------------------------------------------------
\* What an operation is at stays so while files come and none goes.
LEMMA JobKept ==
  ASSUME FilesStay, NEW j, IsJob(j)
  PROVE  IsJob(j)'
<1>1. \A k : InOrder(k) => InOrder(k)'
  BY DEF InOrder, FilesStay, Kind
<1>2. ASSUME IsDraw(j) PROVE IsDraw(j)'
  BY Zenon, <1>1, <1>2 DEF IsDraw, Fresh
<1>3. ASSUME IsWrite(j) PROVE IsWrite(j)'
  <2>1. j.result[1] \in Kind
    BY <1>3 DEF IsWrite, Pair
  <2> QED
    BY Zenon, <1>1, <1>3, <2>1 DEF IsWrite, Fresh, FilesStay
<1> QED
  BY Zenon, <1>2, <1>3 DEF IsJob

\* A good job of the process that moves is all there is to show of the jobs.
LEMMA JobsStep ==
  ASSUME IInv, FilesStay, NEW p \in Proc, NEW j, job' = [job EXCEPT ![p] = j], IsJob(j)'
  PROVE  DOMAIN job' = Proc /\ \A q \in Proc : IsJob(job[q])'
<1>1. DOMAIN job' = Proc /\ job'[p] = j /\ \A q \in Proc : q # p => job'[q] = job[q]
  BY DEF IInv
<1>2. \A q \in Proc : IsJob(job[q])
  BY DEF IInv
<1>3. \A q \in Proc : (IsJob(job[q]))' \/ q = p
  BY Zenon, <1>1, <1>2, JobKept
<1> QED
  BY Zenon, <1>1, <1>3

\* Nobody at work is a good state of an operation.
LEMMA IdleIs == Idle.pc = "idle" /\ IsJob(Idle) /\ IsJob(Idle)'
BY DEF Idle, IsJob

\* A kind without a file was not handed out.
LEMMA AbsentIsUnused ==
  ASSUME IInv, NEW k \in Kind, key[k] = Absent
  PROVE  \A pair \in published : pair[1] # k
BY Zenon DEF IInv

\* An operation begins: it reads a key, or finds that it has to make some.
LEMMA StartStep ==
  ASSUME IInv, NEW p \in Proc,
         keygen(p) \/ \E k \in Kind \ {"identity"} : Create(p, k) \/ Load(p, k)
  PROVE  IInv'
<1>1. UNCHANGED <<key, published, drawn>>
  BY Zenon DEF keygen, Create, Load, Start
<1>2. FilesStay
  BY <1>1 DEF FilesStay
<1>3. SUFFICES \E j : job' = [job EXCEPT ![p] = j] /\ IsJob(j)
  <2>1. DOMAIN job' = Proc /\ \A q \in Proc : IsJob(job[q])'
    BY Zenon, <1>2, <1>3, JobKept, JobsStep
  <2> QED
    BY <1>1, <2>1 DEF IInv
<1>4. ASSUME NEW t, NEW blind, Begin(p, t, blind),
             t \in Seq(Kind), t # <<>>, InOrder(t[1]),
             ~blind => \A i \in DOMAIN t : key[t[i]] = Absent,
             Len(t) > 1 => \A i \in DOMAIN t : t[i] # "log"
      PROVE  \E j : job' = [job EXCEPT ![p] = j] /\ IsJob(j)
  <2>1. PICK j : j = [pc |-> "draw", todo |-> t, knew |-> published, blind |-> blind]
    BY Zenon
  <2>2. /\ j.pc = "draw" /\ j.todo = t /\ j.knew = published /\ j.blind = blind
        /\ j = [pc |-> j.pc, todo |-> j.todo, knew |-> j.knew, blind |-> j.blind]
    BY <2>1
  <2>3. ASSUME NEW i \in DOMAIN t PROVE Fresh(j, t[i])
    <3>1. t[i] \in Kind
      BY <1>4
    <3> QED
      BY Zenon, <1>4, <2>2, <3>1, AbsentIsUnused DEF Fresh
  <2>4. IsJob(j)
    BY <1>4, <2>2, <2>3 DEF IsJob, IsDraw
  <2>5. job' = [job EXCEPT ![p] = j]
    BY Zenon, <1>4, <2>1 DEF Begin
  <2> QED
    BY Zenon, <2>4, <2>5
<1>5. CASE keygen(p)
  <2>1. PICK t : t = <<"identity", "hybrid", "mldsa">>
    BY Zenon
  <2>2. PICK blind : Missed("identity", blind) /\ Begin(p, t, blind)
    BY Zenon, <1>5, <2>1 DEF keygen
  <2>3. t \in Seq(Kind) /\ DOMAIN t = {1, 2, 3} /\ t[1] = "identity" /\ t[2] = "hybrid" /\ t[3] = "mldsa"
    BY <2>1 DEF Kind
  <2>4. ~blind => \A i \in DOMAIN t : key[t[i]] = Absent
    BY <2>2, <2>3 DEF IInv, Missed
  <2>5. t # <<>> /\ InOrder(t[1]) /\ \A i \in DOMAIN t : t[i] # "log"
    BY <2>1, <2>3 DEF InOrder
  <2> QED
    BY Zenon, <1>4, <2>2, <2>3, <2>4, <2>5
<1>6. ASSUME NEW k \in Kind \ {"identity"}, Create(p, k)
      PROVE  \E j : job' = [job EXCEPT ![p] = j] /\ IsJob(j)
  <2>1. PICK t : t = <<k>>
    BY Zenon
  <2>2. PICK blind : Missed(k, blind) /\ Begin(p, t, blind)
    BY Zenon, <1>6, <2>1 DEF Create
  <2>3. t \in Seq(Kind) /\ DOMAIN t = {1} /\ ~(Len(t) > 1) /\ t[1] = k /\ t # <<>>
    BY <2>1
  <2>4. InOrder(t[1])
    BY <1>6, <2>3 DEF InOrder, Create, IsKey, Absent
  <2>5. ~blind => \A i \in DOMAIN t : key[t[i]] = Absent
    BY <2>2, <2>3 DEF Missed
  <2> QED
    BY Zenon, <1>4, <2>2, <2>3, <2>4, <2>5
<1>7. ASSUME NEW k \in Kind \ {"identity"}, Load(p, k)
      PROVE  \E j : job' = [job EXCEPT ![p] = j] /\ IsJob(j)
  <2>1. PICK j : j = [pc |-> "read", kind |-> k]
    BY Zenon
  <2>2. job' = [job EXCEPT ![p] = j]
    BY <1>7, <2>1 DEF Load
  <2>3. IsJob(j)
    BY <2>1 DEF IsJob
  <2> QED
    BY Zenon, <2>2, <2>3
<1> QED
  BY Zenon, <1>5, <1>6, <1>7

\* A load returns what is in the file.
LEMMA ReadStep ==
  ASSUME IInv, NEW p \in Proc, ReadKey(p)
  PROVE  IInv'
<1>1. PICK k : k = job[p].kind
  OBVIOUS
<1>2. /\ job[p].pc = "read" /\ job' = [job EXCEPT ![p] = Idle] /\ UNCHANGED <<key, drawn>>
      /\ published' = IF IsKey(key[k]) THEN published \cup {<<k, key[k]>>} ELSE published
  BY <1>1 DEF ReadKey
<1>3. DOMAIN job' = Proc /\ \A q \in Proc : IsJob(job[q])'
  <2>1. FilesStay
    BY <1>2 DEF FilesStay
  <2> QED
    BY Zenon, <1>2, <2>1, IdleIs, JobsStep
<1>4. k \in Kind
  <2>1. IsJob(job[p])
    BY DEF IInv
  <2> QED
    BY <1>1, <1>2, <2>1 DEF IsJob
<1>5. IsKey(key[k]) => <<k, key[k]>> \in Pair /\ key[k] # Absent
  BY <1>4 DEF IInv, IsKey, Pair, Absent
<1>6. published' \subseteq Pair /\ \A pair \in published' : key'[pair[1]] # Absent
  BY <1>2, <1>5 DEF IInv
<1> QED
  BY <1>2, <1>3, <1>6 DEF IInv

\* Keys are drawn for the files that were not found.
LEMMA DrawStep ==
  ASSUME IInv, NEW p \in Proc, DrawKeys(p)
  PROVE  IInv'
<1>1. PICK g, t, n : g = job[p] /\ t = g.todo /\ n = Len(t)
  BY Zenon
<1>2. g.pc = "draw" /\ UNCHANGED <<key, published>> /\ drawn' = drawn + n
  BY <1>1 DEF DrawKeys
<1>3. IsDraw(g)
  <2>1. IsJob(g)
    BY <1>1 DEF IInv
  <2> QED
    BY <1>2, <2>1 DEF IsJob
<1>4. t \in Seq(Kind) /\ n \in Nat /\ n # 0 /\ DOMAIN t = 1..n /\ 1 \in 1..n
  BY <1>1, <1>3 DEF IsDraw
<1>5. PICK u, r, j :
        /\ u = [i \in DOMAIN t |-> <<t[i], drawn + i>>] /\ r = <<t[1], drawn + 1>>
        /\ j = [pc |-> "open", todo |-> u, result |-> r, knew |-> g.knew, blind |-> g.blind]
  BY Zenon
<1>6. job' = [job EXCEPT ![p] = j]
  BY Zenon, <1>1, <1>5 DEF DrawKeys
<1>7. /\ \A i \in 1..n : u[i] = <<t[i], drawn + i>> /\ u[i] \in Pair /\ u[i][1] = t[i]
      /\ DOMAIN u = 1..n /\ u[1] = r /\ r \in Pair
  <2>1. \A i \in 1..n : t[i] \in Kind /\ drawn + i \in Nat \ {0}
    BY <1>4 DEF IInv
  <2> QED
    BY <1>4, <1>5, <2>1 DEF Pair
<1>8. u \in Seq(Pair) /\ u # <<>> /\ Len(u) = Len(t)
  <2>1. u \in [1..n -> Pair]
    BY <1>4, <1>5, <1>7
  <2> QED
    BY <1>1, <1>4, <1>7, <2>1
<1>9. /\ j.pc = "open" /\ j.todo = u /\ j.result = r /\ j.knew = g.knew /\ j.blind = g.blind
      /\ j = [pc |-> j.pc, todo |-> j.todo, result |-> j.result, knew |-> j.knew, blind |-> j.blind]
  BY <1>5
<1>10. /\ \A i \in 1..n : Fresh(j, u[i][1])
       /\ InOrder(u[1][1])
       /\ Len(u) > 1 => \A i \in 1..n : u[i][1] # "log"
  <2>1. /\ \A i \in 1..n : Fresh(g, t[i])
        /\ InOrder(t[1])
        /\ Len(t) > 1 => \A i \in 1..n : t[i] # "log"
    BY Zenon, <1>1, <1>3, <1>4 DEF IsDraw
  <2>2. \A k : Fresh(g, k) => Fresh(j, k)
    BY Zenon, <1>9 DEF Fresh
  <2> QED
    BY Zenon, <1>4, <1>7, <1>8, <2>1, <2>2
<1>11. IsWrite(j)
  BY Zenon, <1>7, <1>8, <1>9, <1>10 DEF IsWrite
<1>12. FilesStay
  BY <1>2 DEF FilesStay
<1>13. IsJob(j)'
  <2>1. IsJob(j)
    BY <1>9, <1>11 DEF IsJob
  <2> QED
    BY Zenon, <1>12, <2>1, JobKept
<1>14. DOMAIN job' = Proc /\ \A q \in Proc : IsJob(job[q])'
  BY Zenon, <1>6, <1>12, <1>13, JobsStep
<1>15. drawn' \in Nat
  BY <1>2, <1>4 DEF IInv
<1> QED
  BY <1>2, <1>14, <1>15 DEF IInv

\* What an operation that writes has.
LEMMA WriterHas ==
  ASSUME IInv, NEW p \in Proc, job[p].pc \in {"open", "fill"}
  PROVE  \E t, a, v :
           /\ IsWrite(job[p]) /\ job[p].todo = t /\ t \in Seq(Pair) /\ t # <<>> /\ 1 \in DOMAIN t
           /\ Head(t)[1] = a /\ Head(t)[2] = v /\ t[1] = <<a, v>>
           /\ a \in Kind /\ v \in Nat \ {0} /\ Fresh(job[p], a) /\ InOrder(a)
<1>1. PICK g, t : g = job[p] /\ t = g.todo
  OBVIOUS
<1>2. IsWrite(g)
  <2>1. IsJob(g)
    BY <1>1 DEF IInv
  <2> QED
    BY <1>1, <2>1 DEF IsJob
<1>3. t \in Seq(Pair) /\ t # <<>>
  BY <1>1, <1>2 DEF IsWrite
<1>4. 1 \in DOMAIN t /\ t[1] \in Pair /\ Head(t) = t[1]
  BY <1>3
<1>5. PICK a, v : t[1] = <<a, v>> /\ a \in Kind /\ v \in Nat \ {0} /\ t[1][1] = a /\ t[1][2] = v
  BY <1>4 DEF Pair
<1>6. Fresh(g, a) /\ InOrder(a)
  BY Zenon, <1>1, <1>2, <1>4, <1>5 DEF IsWrite
<1> QED
  BY Zenon, <1>1, <1>2, <1>3, <1>4, <1>5, <1>6

\* Writing a key file, or emptying it, removes no file and keeps the order.
LEMMA KeyStep ==
  ASSUME IInv, NEW a \in Kind, NEW v \in Int, v # Absent, InOrder(a), key' = [key EXCEPT ![a] = v]
  PROVE  /\ key' \in [Kind -> Int] /\ key'[a] = v /\ \A k \in Kind : k # a => key'[k] = key[k]
         /\ FilesStay
         /\ \A pair \in published : key'[pair[1]] # Absent
         /\ key'["identity"] = Absent => key'["hybrid"] = Absent /\ key'["mldsa"] = Absent
<1>1. key \in [Kind -> Int] /\ "identity" \in Kind /\ "hybrid" \in Kind /\ "mldsa" \in Kind
  BY DEF IInv, Kind
<1>2. key' \in [Kind -> Int] /\ key'[a] = v /\ \A k \in Kind : k # a => key'[k] = key[k]
  BY <1>1
<1>3. FilesStay
  BY Zenon, <1>2 DEF FilesStay
<1>4. \A pair \in published : pair[1] \in Kind /\ key[pair[1]] # Absent
  BY DEF IInv, Pair
<1>5. \A pair \in published : key'[pair[1]] # Absent
  BY Zenon, <1>3, <1>4 DEF FilesStay
<1>6. key'["identity"] = Absent => key'["hybrid"] = Absent /\ key'["mldsa"] = Absent
  BY <1>1, <1>2 DEF IInv, InOrder
<1> QED
  BY Zenon, <1>2, <1>3, <1>5, <1>6

\* A key file is created, empty.
LEMMA OpenStep ==
  ASSUME IInv, NEW p \in Proc, OpenKey(p)
  PROVE  IInv'
<1>1. job[p].pc = "open" /\ UNCHANGED <<published, drawn, ops, faults>>
  BY DEF OpenKey
<1>2. PICK t, a, v :
        /\ IsWrite(job[p]) /\ job[p].todo = t
        /\ Head(t)[1] = a /\ a \in Kind /\ InOrder(a)
  BY ZenonT(40), <1>1, WriterHas
<1>3. PICK g, j : g = job[p] /\ j = [g EXCEPT !.pc = "fill"]
  BY Zenon
<1>4. job' = [job EXCEPT ![p] = j]
  BY Zenon, <1>3 DEF OpenKey
<1>5. key' = [key EXCEPT ![a] = Torn] /\ Torn \in Int /\ Torn # Absent
  <2>1. key' = [key EXCEPT ![a] = Torn]
    BY Zenon, <1>2 DEF OpenKey
  <2> QED
    BY <2>1 DEF Torn, Absent
<1>6. /\ key' \in [Kind -> Int] /\ FilesStay
      /\ \A pair \in published : key'[pair[1]] # Absent
      /\ key'["identity"] = Absent => key'["hybrid"] = Absent /\ key'["mldsa"] = Absent
  BY Zenon, <1>2, <1>5, KeyStep
<1>7. IsJob(j)'
  <2>1. g = [pc |-> g.pc, todo |-> g.todo, result |-> g.result, knew |-> g.knew, blind |-> g.blind]
    BY Zenon, <1>2, <1>3 DEF IsWrite
  <2>2. /\ j.pc = "fill" /\ j.todo = g.todo /\ j.result = g.result /\ j.knew = g.knew /\ j.blind = g.blind
        /\ j = [pc |-> j.pc, todo |-> j.todo, result |-> j.result, knew |-> j.knew, blind |-> j.blind]
    BY <1>3, <2>1
  <2>3. \A k : Fresh(g, k) => Fresh(j, k)
    BY Zenon, <2>2 DEF Fresh
  <2>4. IsWrite(j)
    BY Zenon, <1>2, <1>3, <2>2, <2>3 DEF IsWrite
  <2>5. IsJob(j)
    BY <2>2, <2>4 DEF IsJob
  <2> QED
    BY Zenon, <1>6, <2>5, JobKept
<1>8. DOMAIN job' = Proc /\ \A q \in Proc : IsJob(job[q])'
  BY Zenon, <1>4, <1>6, <1>7, JobsStep
<1> QED
  BY <1>1, <1>6, <1>8 DEF IInv

\* A key is in its file; after the last one the result is returned.
LEMMA FillStep ==
  ASSUME IInv, NEW p \in Proc, FillKey(p)
  PROVE  IInv'
<1>1. job[p].pc = "fill" /\ UNCHANGED <<drawn, ops, faults>>
  BY DEF FillKey
<1>2. PICK t, a, v :
        /\ IsWrite(job[p]) /\ job[p].todo = t /\ t \in Seq(Pair) /\ t # <<>> /\ 1 \in DOMAIN t
        /\ Head(t)[1] = a /\ Head(t)[2] = v /\ t[1] = <<a, v>>
        /\ a \in Kind /\ v \in Nat \ {0} /\ InOrder(a)
  BY ZenonT(40), <1>1, WriterHas
<1>3. PICK g, r : g = job[p] /\ r = g.result
  BY Zenon
<1>4. key' = [key EXCEPT ![a] = v] /\ v \in Int /\ v # Absent
  <2>1. key' = [key EXCEPT ![a] = v]
    BY Zenon, <1>2 DEF FillKey
  <2>2. v \in Nat \ {0}
    BY <1>2
  <2> QED
    BY <2>1, <2>2 DEF Absent
<1>5. /\ key' \in [Kind -> Int] /\ key'[a] = v /\ (\A k \in Kind : k # a => key'[k] = key[k])
      /\ FilesStay
      /\ \A pair \in published : key'[pair[1]] # Absent
      /\ key'["identity"] = Absent => key'["hybrid"] = Absent /\ key'["mldsa"] = Absent
  BY Zenon, <1>2, <1>4, KeyStep
<1>6. r \in Pair /\ r[1] \in Kind /\ (r = t[1] \/ key[r[1]] # Absent)
  BY <1>2, <1>3 DEF IsWrite, Pair
<1>7. key'[r[1]] # Absent
  <2>1. CASE r = t[1]
    BY <1>2, <1>4, <1>5, <2>1
  <2>2. CASE key[r[1]] # Absent
    BY Zenon, <1>5, <1>6, <2>2 DEF FilesStay
  <2> QED
    BY Zenon, <1>6, <2>1, <2>2
<1>8. CASE Len(t) > 1
  <2>1. PICK u, j : u = Tail(t) /\ j = [g EXCEPT !.pc = "open", !.todo = u]
    BY Zenon
  <2>2. job' = [job EXCEPT ![p] = j] /\ UNCHANGED published
    BY Zenon, <1>2, <1>3, <1>8, <2>1 DEF FillKey
  <2>3. u \in Seq(Pair) /\ u # <<>> /\ 1 \in DOMAIN u /\ \A i \in DOMAIN u : i + 1 \in DOMAIN t /\ u[i] = t[i + 1]
    <3>1. t \in Seq(Pair) /\ Len(t) \in Nat /\ Len(t) > 1 /\ DOMAIN t = 1..Len(t)
      BY <1>2, <1>8
    <3>2. u \in Seq(Pair) /\ Len(u) = Len(t) - 1
      BY <2>1, <3>1
    <3>3. \A i \in 1..Len(t) - 1 : u[i] = t[i + 1]
      BY <2>1, <3>1
    <3>4. DOMAIN u = 1..Len(t) - 1 /\ u # <<>>
      BY <3>1, <3>2
    <3> QED
      BY <3>1, <3>2, <3>3, <3>4
  <2>4. /\ j.pc = "open" /\ j.todo = u /\ j.result = r /\ j.knew = g.knew /\ j.blind = g.blind
        /\ j = [pc |-> j.pc, todo |-> j.todo, result |-> j.result, knew |-> j.knew, blind |-> j.blind]
    <3>1. g = [pc |-> g.pc, todo |-> g.todo, result |-> g.result, knew |-> g.knew, blind |-> g.blind]
      BY Zenon, <1>2, <1>3 DEF IsWrite
    <3> QED
      BY Zenon, <1>3, <2>1, <3>1
  <2>5. \A i \in DOMAIN t : Fresh(g, t[i][1]) /\ t[i][1] # "log"
    BY Zenon, <1>2, <1>3, <1>8 DEF IsWrite
  <2>6. \A k : Fresh(g, k) => Fresh(j, k)
    BY Zenon, <2>4 DEF Fresh
  <2>7. \A i \in DOMAIN u : Fresh(j, u[i][1]) /\ u[i][1] # "log"
    BY Zenon, <2>3, <2>5, <2>6
  <2>8. key'["identity"] # Absent
    <3>1. a # "log" /\ "identity" \in Kind
      BY <1>2, <2>5 DEF Kind
    <3> QED
      BY <1>2, <1>4, <1>5, <3>1 DEF InOrder
  <2>9. IsWrite(j)'
    <3>1. InOrder(u[1][1])'
      BY Zenon, <2>8 DEF InOrder
    <3>2. \A k : Fresh(j, k) => Fresh(j, k)'
      BY DEF Fresh
    <3> QED
      BY Zenon, <1>6, <1>7, <2>3, <2>4, <2>7, <3>1, <3>2 DEF IsWrite
  <2>10. IsJob(j)'
    BY <2>4, <2>9 DEF IsJob
  <2>11. DOMAIN job' = Proc /\ \A q \in Proc : IsJob(job[q])'
    BY Zenon, <1>5, <2>2, <2>10, JobsStep
  <2> QED
    BY <1>1, <1>5, <2>2, <2>11 DEF IInv
<1>9. CASE ~(Len(t) > 1)
  <2>1. job' = [job EXCEPT ![p] = Idle] /\ published' = published \cup {r}
    BY <1>2, <1>3, <1>9 DEF FillKey
  <2>2. DOMAIN job' = Proc /\ \A q \in Proc : IsJob(job[q])'
    BY Zenon, <1>5, <2>1, IdleIs, JobsStep
  <2>3. published' \subseteq Pair /\ \A pair \in published' : key'[pair[1]] # Absent
    BY <1>5, <1>6, <1>7, <2>1 DEF IInv
  <2> QED
    BY <1>1, <1>5, <2>2, <2>3 DEF IInv
<1> QED
  BY <1>8, <1>9

\* An operation is cut short; what it drew was not handed out.
LEMMA CrashStep ==
  ASSUME IInv, NEW p \in Proc, Crash(p)
  PROVE  IInv'
<1>1. job' = [job EXCEPT ![p] = Idle] /\ UNCHANGED <<published, drawn, ops>>
  BY DEF Crash
<1>2. FilesStay => DOMAIN job' = Proc /\ \A q \in Proc : IsJob(job[q])'
  BY Zenon, <1>1, IdleIs, JobsStep
<1>3. CASE UNCHANGED key
  <2>1. FilesStay
    BY <1>3 DEF FilesStay
  <2> QED
    BY <1>1, <1>2, <1>3, <2>1 DEF IInv
<1>4. CASE job[p].pc = "fill" /\ key' = [key EXCEPT ![Head(job[p].todo)[1]] = Head(job[p].todo)[2]]
  <2>1. PICK t, a, v :
          /\ job[p].todo = t /\ Head(t)[1] = a /\ Head(t)[2] = v
          /\ a \in Kind /\ v \in Nat \ {0} /\ InOrder(a)
    BY ZenonT(40), <1>4, WriterHas
  <2>2. key' = [key EXCEPT ![a] = v] /\ v \in Int /\ v # Absent
    <3>1. key' = [key EXCEPT ![a] = v]
      BY Zenon, <1>4, <2>1
    <3>2. v \in Nat \ {0}
      BY <2>1
    <3> QED
      BY <3>1, <3>2 DEF Absent
  <2>3. /\ key' \in [Kind -> Int] /\ FilesStay
        /\ \A pair \in published : key'[pair[1]] # Absent
        /\ key'["identity"] = Absent => key'["hybrid"] = Absent /\ key'["mldsa"] = Absent
    BY Zenon, <2>1, <2>2, KeyStep
  <2> QED
    BY <1>1, <1>2, <2>3 DEF IInv
<1> QED
  BY <1>3, <1>4 DEF Crash

-----------------------------------------------------------------------------
(* Theorems *)

\* The inductive invariant: a kind of key that was handed out has a file, an operation that could
\* look writes no kind that had been handed out when it began, and the identity is written before
\* the keys that belong to it.
THEOREM KeyInvariant == Spec => []IInv
<1>1. Init => IInv
  BY IdleIs DEF Init, IInv, Kind, Absent
<1>2. IInv /\ [Next]_vars => IInv'
  <2>1. CASE UNCHANGED vars
    BY <2>1 DEF vars, IInv, IsJob, IsDraw, IsWrite, Fresh, InOrder
  <2>2. ASSUME IInv, Next PROVE IInv'
    BY Zenon, <2>2, StartStep, ReadStep, DrawStep, OpenStep, FillStep, CrashStep DEF Next
  <2> QED
    BY Zenon, <2>1, <2>2
<1> QED
  BY <1>1, <1>2, PTL DEF Spec

\* However operations overlap and wherever they are cut short: a key that keygen or one of the
\* "load or create" operations returned is replaced only by an operation that began before it was
\* returned, or whose look at the file failed.
THEOREM LaterOperationsKeepKeys == Spec => KeptFromLater
<1> DEFINE Replaced(pair) == key[pair[1]] = pair[2] /\ key'[pair[1]] # pair[2]
<1>1. ASSUME IInv, [Next]_vars, NEW pair \in published, Replaced(pair)
      PROVE  \E p \in Proc : Unaware(p, pair)
  <2>1. pair[1] \in Kind /\ key \in [Kind -> Int]
    BY <1>1 DEF IInv, Pair
  <2>2. ~UNCHANGED key
    BY Zenon, <1>1
  <2>3. PICK p \in Proc : OpenKey(p) \/ FillKey(p) \/ Crash(p)
    BY Zenon, <1>1, <2>2 DEF Next, vars, keygen, Create, Load, Start, ReadKey, DrawKeys
  <2>4. job[p].pc \in {"open", "fill"}
    BY <2>2, <2>3 DEF OpenKey, FillKey, Crash
  <2>5. PICK v : key' = [key EXCEPT ![Head(job[p].todo)[1]] = v]
    BY Zenon, <2>2, <2>3 DEF OpenKey, FillKey, Crash
  <2>6. PICK a : Head(job[p].todo)[1] = a /\ a \in Kind /\ Fresh(job[p], a)
    BY ZenonT(40), <1>1, <2>4, WriterHas
  <2>7. pair[1] = a
    BY <1>1, <2>1, <2>5, <2>6
  <2>8. job[p].blind \/ pair \notin job[p].knew
    BY Zenon, <2>6, <2>7 DEF Fresh
  <2> QED
    BY Zenon, <2>4, <2>6, <2>7, <2>8 DEF Unaware
<1>2. IInv /\ [Next]_vars =>
        [\A pair \in published : Replaced(pair) => \E p \in Proc : Unaware(p, pair)]_vars
  BY Zenon, <1>1
<1> QED
  BY <1>2, KeyInvariant, PTL DEF Spec, KeptFromLater

================================================================================
