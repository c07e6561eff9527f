---------------------------- MODULE Anchors_proofs ----------------------------
(***************************************************************************)
(* The chain of anchor receipts, for any log and any number of commands    *)
(* and faults: unless one command opened the file while another was        *)
(* writing it, what log-anchors reads is an unbroken chain.                *)
(***************************************************************************)
EXTENDS Anchors, TLAPS

\* A list of anything.
IsSeq(s) == \E S : s \in Seq(S)

\* An unbroken chain of receipts.
Good(s) ==
  /\ IsSeq(s)
  /\ \A i \in DOMAIN s :
       /\ s[i].previous = IF i = 1 THEN GENESIS ELSE s[i - 1].link
       /\ verify_link(s[i])

\* What a command keeps: the size of the log it read, then the text it will write.
IsJob(j) ==
  \/ j.pc \in {"idle", "load"}
  \/ j.pc \in {"open", "write"} /\ Good(j.chain) /\ j.chain # <<>>

\* The inductive invariant: until two commands write at once, the file and the texts kept in
\* memory are chains, and while a command writes it is the only one and the file is empty.
IInv ==
  /\ DOMAIN job = Proc
  /\ ~mixed =>
       /\ \A p \in Proc : IsJob(job[p])
       /\ Good(receipts)
       /\ \A p \in Proc : Writing(p) => receipts = <<>> /\ cut = FALSE
       /\ \A p, q \in Proc : Writing(p) /\ Writing(q) => p = q

-----------------------------------------------------------------------------
\* A list has a length.
LEMMA SeqHas ==
  ASSUME NEW s, IsSeq(s)
  PROVE  Len(s) \in Nat /\ DOMAIN s = 1..Len(s)
BY DEF IsSeq

\* The empty file is a chain.
LEMMA GoodEmpty == Good(<<>>)
<1>1. PICK e : e = <<>>
  OBVIOUS
<1>2. e \in Seq({}) /\ DOMAIN e = {}
  BY <1>1
<1>3. Good(e)
  BY <1>2 DEF Good, IsSeq
<1> QED
  BY Zenon, <1>1, <1>3

\* A part of the file from its start.
LEMMA GoodPrefix ==
  ASSUME NEW s, Good(s), NEW k \in 0..Len(s), NEW t, t = SubSeq(s, 1, k)
  PROVE  Good(t)
<1>1. PICK S : s \in Seq(S)
  BY DEF Good, IsSeq
<1>2. Len(s) \in Nat /\ DOMAIN s = 1..Len(s)
  BY <1>1
<1>3. t \in Seq(S) /\ DOMAIN t = 1..k /\ \A i \in 1..k : t[i] = s[i]
  BY <1>1, <1>2
<1>4. 1..k \subseteq 1..Len(s) /\ \A i \in 1..k : i # 1 => i - 1 \in 1..k
  BY <1>2
<1>5. IsSeq(t)
  BY Zenon, <1>3 DEF IsSeq
<1>6. ASSUME NEW i \in DOMAIN t
      PROVE  /\ t[i].previous = IF i = 1 THEN GENESIS ELSE t[i - 1].link
             /\ verify_link(t[i])
  <2>1. i \in 1..k /\ i \in DOMAIN s /\ t[i] = s[i]
    BY Zenon, <1>2, <1>3, <1>4
  <2>2. i # 1 => t[i - 1] = s[i - 1]
    BY Zenon, <1>3, <1>4, <2>1
  <2>3. /\ s[i].previous = IF i = 1 THEN GENESIS ELSE s[i - 1].link
        /\ verify_link(s[i])
    BY Zenon, <2>1 DEF Good
  <2> QED
    BY Zenon, <2>1, <2>2, <2>3
<1> QED
  BY Zenon, <1>5, <1>6 DEF Good

\* HashChainAnchor::submit extends the chain it was made from.
LEMMA GoodSubmit ==
  ASSUME NEW s, NEW n, Good(s), NEW t, t = Append(s, submit(s, n))
  PROVE  Good(t) /\ t # <<>>
<1>1. PICK S, r, l : s \in Seq(S) /\ r = submit(s, n) /\ l = Len(s)
  BY Zenon DEF Good, IsSeq
<1>2. r \in S \cup {r} /\ s \in Seq(S \cup {r})
  BY <1>1
<1>3. l \in Nat /\ DOMAIN s = 1..l
  BY <1>1
<1>4. t \in Seq(S \cup {r}) /\ Len(t) = l + 1 /\ t[l + 1] = r /\ \A i \in 1..l : t[i] = s[i]
  BY <1>1, <1>2
<1>5. DOMAIN t = 1..l + 1 /\ \A i \in 1..l + 1 : i \in 1..l \/ i = l + 1
  BY <1>3, <1>4
<1>6. r.previous = Latest(s) /\ verify_link(r)
  BY <1>1 DEF submit, verify_link
<1>7. Latest(s) = IF l = 0 THEN GENESIS ELSE s[l].link
  BY <1>1 DEF Latest
<1>8. IsSeq(t) /\ t # <<>>
  <2>1. IsSeq(t)
    BY <1>4 DEF IsSeq
  <2> QED
    BY <1>3, <1>4, <2>1
<1>9. ASSUME NEW i \in DOMAIN t
      PROVE  /\ t[i].previous = IF i = 1 THEN GENESIS ELSE t[i - 1].link
             /\ verify_link(t[i])
  <2>1. CASE i \in 1..l
    <3>1. i # 1 => i - 1 \in 1..l
      BY <1>3, <2>1
    <3> QED
      BY <1>3, <1>4, <2>1, <3>1 DEF Good
  <2>2. CASE i = l + 1
    <3>1. l # 0 => l \in 1..l
      BY <1>3
    <3> QED
      BY <1>3, <1>4, <1>6, <1>7, <2>2, <3>1
  <2> QED
    BY Zenon, <1>5, <2>1, <2>2
<1> QED
  BY Zenon, <1>8, <1>9 DEF Good

\* A first receipt is a chain.
LEMMA GoodFirst ==
  ASSUME NEW n, NEW t, t = <<submit(<<>>, n)>>
  PROVE  Good(t) /\ t # <<>>
<1>1. PICK e : e = <<>>
  OBVIOUS
<1>2. PICK r : r = submit(e, n)
  OBVIOUS
<1>3. t = Append(e, r)
  BY <1>1, <1>2
<1>4. Good(e)
  BY Zenon, <1>1, GoodEmpty
<1> QED
  BY Zenon, <1>2, <1>3, <1>4, GoodSubmit

\* Writing over an empty file leaves what is written.
LEMMA WrittenOver ==
  ASSUME NEW s, IsSeq(s), NEW n \in Nat
  PROVE  s \o SubSeq(<<>>, n + 1, Len(<<>>)) = s
<1>1. PICK S : s \in Seq(S)
  BY DEF IsSeq
<1>2. SubSeq(<<>>, n + 1, Len(<<>>)) = <<>>
  OBVIOUS
<1> QED
  BY <1>1, <1>2

-----------------------------------------------------------------------------
(* Steps *)

\* What a step of a command has to show, unless it opens the file beside a writer.
LEMMA InvFrom ==
  ASSUME IInv, NEW p \in Proc, NEW j, job' = [job EXCEPT ![p] = j],
         ~mixed' => ~mixed /\ IsJob(j) /\ Good(receipts'),
         j.pc = "write" => receipts' = <<>> /\ cut' = FALSE,
         ~mixed' /\ j.pc = "write" => \A q \in Proc : ~Writing(q),
         Writing(p) \/ j.pc = "write" \/ UNCHANGED <<receipts, cut>>
  PROVE  IInv'
<1>1. DOMAIN job' = Proc /\ job'[p] = j /\ \A q \in Proc : q # p => job'[q] = job[q]
  BY DEF IInv
<1>2. ASSUME ~mixed' PROVE \A q \in Proc : IsJob(job'[q])
  BY Zenon, <1>1, <1>2 DEF IInv
<1>3. ASSUME ~mixed', NEW q \in Proc, Writing(q)' PROVE receipts' = <<>> /\ cut' = FALSE
  <2>1. CASE j.pc = "write"
    BY Zenon, <2>1
  <2>2. CASE j.pc # "write"
    <3>1. q # p /\ Writing(q)
      BY Zenon, <1>1, <1>3, <2>2 DEF Writing
    <3>2. ~Writing(p) /\ receipts = <<>> /\ cut = FALSE
      BY Zenon, <1>3, <3>1 DEF IInv
    <3> QED
      BY Zenon, <2>2, <3>2
  <2> QED
    BY Zenon, <2>1, <2>2
<1>4. ASSUME ~mixed', NEW q \in Proc, NEW r \in Proc, Writing(q)', Writing(r)' PROVE q = r
  <2>1. CASE j.pc = "write"
    BY Zenon, <1>1, <1>4, <2>1 DEF Writing
  <2>2. CASE j.pc # "write"
    <3>1. Writing(q) /\ Writing(r)
      BY Zenon, <1>1, <1>4, <2>2 DEF Writing
    <3> QED
      BY Zenon, <1>4, <3>1 DEF IInv
  <2> QED
    BY Zenon, <2>1, <2>2
<1> QED
  BY Zenon, <1>1, <1>2, <1>3, <1>4 DEF IInv

\* A command that does not touch the file.
LEMMA InvAside ==
  ASSUME IInv, NEW p \in Proc, NEW j, job' = [job EXCEPT ![p] = j], j.pc # "write",
         UNCHANGED <<receipts, cut, mixed>>, ~mixed => IsJob(j)
  PROVE  IInv'
<1>1. /\ ~mixed' => ~mixed /\ IsJob(j) /\ Good(receipts')
      /\ UNCHANGED <<receipts, cut>>
  BY Zenon DEF IInv
<1> QED
  BY Zenon, <1>1, InvFrom

\* Nobody at work is a good state of a command.
LEMMA IdleIs == Idle.pc = "idle" /\ IsJob(Idle)
BY DEF Idle, IsJob

\* log-anchor reads the log, and then the receipts: it links a new one to the last of
\* them, or, when the file cannot be read, to none.
LEMMA ReadStep ==
  ASSUME IInv, NEW p \in Proc, ReadLog(p) \/ LoadReceipts(p) \/ LoadUnread(p) \/ LoadFails(p)
  PROVE  IInv'
<1>1. UNCHANGED <<receipts, cut, mixed>>
  BY DEF ReadLog, LoadReceipts, LoadUnread, LoadFails
<1>2. CASE ReadLog(p)
  <2>1. PICK j : j = [pc |-> "load", tree_size |-> size]
    BY Zenon
  <2>2. job' = [job EXCEPT ![p] = j] /\ j.pc = "load"
    BY <1>2, <2>1 DEF ReadLog
  <2> QED
    BY Zenon, <1>1, <2>2, InvAside DEF IsJob
<1>3. CASE LoadFails(p)
  <2>1. job' = [job EXCEPT ![p] = Idle] /\ Idle.pc # "write" /\ IsJob(Idle)
    BY <1>3, IdleIs DEF LoadFails
  <2> QED
    BY Zenon, <1>1, <2>1, InvAside
<1>4. ASSUME NEW t, ~mixed => Good(t) /\ t # <<>>,
             job' = [job EXCEPT ![p] = [pc |-> "open", chain |-> t]]
      PROVE  IInv'
  <2>1. PICK j : j = [pc |-> "open", chain |-> t]
    BY Zenon
  <2>2. j.pc = "open" /\ j.chain = t
    BY <2>1
  <2>3. ~mixed => IsJob(j)
    BY <1>4, <2>2 DEF IsJob
  <2>4. job' = [job EXCEPT ![p] = j] /\ j.pc # "write"
    BY <1>4, <2>1, <2>2
  <2> QED
    BY Zenon, <1>1, <2>3, <2>4, InvAside
<1>5. CASE LoadReceipts(p)
  <2>1. PICK b, n : b = receipts /\ n = job[p].tree_size
    BY Zenon
  <2>2. PICK t : t = Append(b, submit(b, n))
    BY Zenon
  <2>3. ~mixed => Good(t) /\ t # <<>>
    BY Zenon, <2>1, <2>2, GoodSubmit DEF IInv
  <2>4. job' = [job EXCEPT ![p] = [pc |-> "open", chain |-> t]]
    BY Zenon, <1>5, <2>1, <2>2 DEF LoadReceipts
  <2> QED
    BY Zenon, <1>4, <2>3, <2>4
<1>6. CASE LoadUnread(p)
  <2>1. PICK n : n = job[p].tree_size
    BY Zenon
  <2>2. PICK t : t = <<submit(<<>>, n)>>
    BY Zenon
  <2>3. Good(t) /\ t # <<>>
    BY Zenon, <2>2, GoodFirst
  <2>4. job' = [job EXCEPT ![p] = [pc |-> "open", chain |-> t]]
    BY Zenon, <1>6, <2>1, <2>2 DEF LoadUnread
  <2> QED
    BY Zenon, <1>4, <2>3, <2>4
<1> QED
  BY Zenon, <1>2, <1>3, <1>5, <1>6

\* log-anchor truncates the file of receipts; beside another writer, the file may be mixed.
LEMMA TruncateStep ==
  ASSUME IInv, NEW p \in Proc, Truncate(p)
  PROVE  IInv'
<1>1. /\ job[p].pc = "open" /\ receipts' = <<>> /\ cut' = FALSE
      /\ mixed' = (mixed \/ \E q \in Proc : Writing(q))
  BY Zenon DEF Truncate
<1>2. PICK c, j : c = job[p].chain /\ j = [pc |-> "write", chain |-> c]
  BY Zenon
<1>3. job' = [job EXCEPT ![p] = j]
  BY Zenon, <1>2 DEF Truncate
<1>4. j.pc = "write" /\ j.chain = c
  BY <1>2
<1>5. ASSUME ~mixed' PROVE ~mixed /\ IsJob(j) /\ Good(receipts') /\ \A q \in Proc : ~Writing(q)
  <2>1. ~mixed /\ \A q \in Proc : ~Writing(q)
    BY Zenon, <1>1, <1>5
  <2>2. IsJob(job[p])
    BY Zenon, <2>1 DEF IInv
  <2>3. Good(c) /\ c # <<>>
    BY <1>1, <1>2, <2>2 DEF IsJob
  <2>4. IsJob(j)
    BY <1>4, <2>3 DEF IsJob
  <2> QED
    BY Zenon, <1>1, <2>1, <2>4, GoodEmpty
<1> QED
  BY Zenon, <1>1, <1>3, <1>4, <1>5, InvFrom

\* The one writer has a chain to write over the empty file.
LEMMA WriterHas ==
  ASSUME IInv, ~mixed, NEW p \in Proc, Writing(p)
  PROVE  \E c : job[p].chain = c /\ Good(c) /\ receipts = <<>> /\ cut = FALSE
<1>1. IsJob(job[p]) /\ receipts = <<>> /\ cut = FALSE
  BY Zenon DEF IInv
<1>2. Good(job[p].chain)
  BY <1>1 DEF IsJob, Writing
<1> QED
  BY Zenon, <1>1, <1>2

\* log-anchor writes the chain, in whole or, cut short, in part, or stops before that.
LEMMA WriteStep ==
  ASSUME IInv, NEW p \in Proc, Save(p) \/ Crash(p)
  PROVE  IInv'
<1>1. job' = [job EXCEPT ![p] = Idle] /\ UNCHANGED mixed /\ Idle.pc # "write" /\ IsJob(Idle)
  BY Zenon, IdleIs DEF Save, Crash
<1>2. CASE ~Writing(p)
  <2>1. UNCHANGED <<receipts, cut, mixed>>
    BY Zenon, <1>1, <1>2 DEF Save, Crash, Writing
  <2> QED
    BY Zenon, <1>1, <2>1, InvAside
<1>3. CASE Writing(p)
  <2>1. ASSUME ~mixed PROVE Good(receipts')
    <3>1. PICK c : job[p].chain = c /\ Good(c) /\ receipts = <<>> /\ cut = FALSE
      BY Zenon, <1>3, <2>1, WriterHas
    <3>2. IsSeq(c) /\ Len(c) \in Nat
      BY <3>1, SeqHas DEF Good
    <3>3. CASE Save(p)
      <4>1. receipts' = c \o SubSeq(receipts, Len(c) + 1, Len(receipts))
        BY Zenon, <3>1, <3>3 DEF Save
      <4> QED
        BY Zenon, <3>1, <3>2, <4>1, WrittenOver
    <3>4. CASE Crash(p)
      <4>1. PICK n \in 0..Len(c) :
              receipts' = SubSeq(c, 1, n) \o SubSeq(receipts, n + 1, Len(receipts))
        BY <1>3, <3>1, <3>4 DEF Crash, Writing
      <4>2. PICK t : t = SubSeq(c, 1, n)
        BY Zenon
      <4>3. Good(t)
        BY Zenon, <3>1, <4>2, GoodPrefix
      <4>4. IsSeq(t) /\ n \in Nat
        BY <4>1, <4>3 DEF Good
      <4> QED
        BY Zenon, <3>1, <4>1, <4>2, <4>3, <4>4, WrittenOver
    <3> QED
      BY Zenon, <3>3, <3>4
  <2> QED
    BY Zenon, <1>1, <1>3, <2>1, InvFrom
<1> QED
  BY Zenon, <1>2, <1>3

-----------------------------------------------------------------------------
(* Theorems *)

\* The inductive invariant: until two commands write at once, the file and the text every command
\* is about to write are unbroken chains; a writer is alone and finds the file empty.
THEOREM AnchorInvariant == Spec => []IInv
<1>1. Init => IInv
  <2>1. SUFFICES ASSUME Init PROVE IInv
    OBVIOUS
  <2>2. Good(receipts)
    BY <2>1, GoodEmpty DEF Init
  <2>3. DOMAIN job = Proc /\ \A p \in Proc : job[p].pc = "idle" /\ IsJob(job[p])
    BY <2>1, IdleIs DEF Init
  <2> QED
    BY <2>2, <2>3 DEF IInv, Writing
<1>2. IInv /\ [Next]_vars => IInv'
  <2>1. CASE UNCHANGED vars
    BY <2>1 DEF vars, IInv, Writing
  <2>2. CASE GrowLog
    BY <2>2 DEF GrowLog, IInv, Writing
  <2>3. ASSUME IInv, Next PROVE IInv'
    BY Zenon, <2>2, <2>3, ReadStep, TruncateStep, WriteStep DEF Next
  <2> QED
    BY Zenon, <2>1, <2>3
<1> QED
  BY <1>1, <1>2, PTL DEF Spec

\* However many commands overlap, stop or fail to read the file: unless one opened the file while
\* another was writing it, log-anchors reports an unbroken chain whenever no command is writing and
\* the file parses.
THEOREM ReceiptsChain == Spec => []ChainUnbroken
<1>1. IInv => ChainUnbroken
  <2>1. SUFFICES ASSUME Good(receipts), NEW i \in DOMAIN receipts
                 PROVE  /\ receipts[i].previous = Latest(SubSeq(receipts, 1, i - 1))
                        /\ verify_link(receipts[i])
    BY DEF IInv, ChainUnbroken, verify_receipts
  <2>2. PICK s, S : s = receipts /\ s \in Seq(S)
    BY <2>1 DEF Good, IsSeq
  <2>3. /\ s[i].previous = IF i = 1 THEN GENESIS ELSE s[i - 1].link
        /\ verify_link(s[i])
    BY <2>1, <2>2 DEF Good
  <2>4. i \in 1..Len(s) /\ Len(s) \in Nat
    BY <2>1, <2>2
  <2>5. Latest(SubSeq(s, 1, i - 1)) = IF i = 1 THEN GENESIS ELSE s[i - 1].link
    <3>1. PICK t : t = SubSeq(s, 1, i - 1)
      BY Zenon
    <3>2. Len(t) = i - 1 /\ (i # 1 => t[i - 1] = s[i - 1]) /\ (i = 1 => t = <<>>) /\ (i # 1 => t # <<>>)
      BY <2>2, <2>4, <3>1
    <3> QED
      BY Zenon, <3>1, <3>2 DEF Latest
  <2> QED
    BY <2>2, <2>3, <2>5
<1> QED
  BY <1>1, AnchorInvariant, PTL

================================================================================
