----------------------------- MODULE Hunt_proofs -----------------------------
(***************************************************************************)
(* The organizer's files, for any number of processes, commands and        *)
(* faults: what the hunt file says is true, hunt_seed creates one drop per *)
(* clue, and add_contact lists no device twice.                            *)
(***************************************************************************)
EXTENDS Hunt, TLAPS

\* What a line of the contacts file can be.
Line == Contact \cup Remains \cup CutLine

\* What is known of a created drop: its clue and its recipients.
Drop == [clue : Clue, to : (SUBSET Contact) \ {{}}]

\* A clue, and the id of the drop created for it, if any.
Item(ds) == [clue : Clue, id : 0..Len(ds)]

\* Drops were created after those in ds.
Grows(ds, es) ==
  /\ ds \in Seq(Drop) /\ es \in Seq(Drop) /\ Len(ds) <= Len(es)
  /\ \A i \in DOMAIN ds : es[i] = ds[i]

\* A list of participants without repetition.
Distinct(ps) ==
  /\ ps \in Seq(Name)
  /\ \A i, j \in DOMAIN ps : ps[i] = ps[j] => i = j

\* The ids are of drops in ds, made for their clues, each once.
Truthful(ms, ds) ==
  /\ ms \in Seq(Item(ds))
  /\ \A i \in DOMAIN ms :
       ms[i].id # NoId =>
         /\ ms[i].id \in DOMAIN ds /\ ds[ms[i].id].clue = ms[i].clue
         /\ \A j \in DOMAIN ms : ms[j].id = ms[i].id => j = i

\* A hunt value that is true of the drops in ds.
Sound(v, ds) ==
  /\ v.state = "json"
  /\ v = Json(v.participants, v.drops)
  /\ Distinct(v.participants)
  /\ Truthful(v.drops, ds)

\* What the hunt file, or a copy of it in memory, can be.
IsHunt(v, ds) == v = Absent \/ v = Torn \/ Sound(v, ds)

\* The drops that a list of clues names.
Ids(ms) == {ms[i].id : i \in DOMAIN ms} \ {NoId}

\* The drops that a hunt names.
IdsOf(v) == IF v.state = "json" THEN Ids(v.drops) ELSE {}

\* The participants of a hunt.
Names(v) == IF v.state = "json" THEN ToSet(v.participants) ELSE {}

\* What a command keeps of the file it will rewrite.
IsJob(j, ds) ==
  \/ j = Idle
  \/ j.pc = "load" /\ j = [pc |-> "load", name |-> j.name] /\ j.name \in Name
  \/ /\ j.pc = "seed"
     /\ j = [pc |-> "seed", read |-> j.read, value |-> j.value, at |-> j.at]
     /\ j.at \in Nat \ {0}
     /\ Sound(j.read, ds) /\ Sound(j.value, ds) /\ j.value.participants # <<>>
     /\ IdsOf(j.read) \subseteq IdsOf(j.value)
  \/ /\ j.pc \in {"write", "fill"} /\ j.file = "book"
     /\ j = [pc |-> j.pc, file |-> "book", read |-> j.read, new |-> j.new]
     /\ j.read \in Seq(Line) /\ j.new \in Seq(Line) /\ j.new # <<>>
  \/ /\ j.pc \in {"write", "fill"} /\ j.file = "hunt"
     /\ j = [pc |-> j.pc, file |-> "hunt", read |-> j.read, new |-> j.new]
     /\ IsHunt(j.read, ds) /\ Sound(j.new, ds)
     /\ IdsOf(j.read) \subseteq IdsOf(j.new)

\* The types, and that every copy of the hunt is true of the drops that exist.
Shape ==
  /\ book \in Seq(Line)
  /\ IsHunt(hunt, drops)
  /\ DOMAIN job = Proc /\ \A p \in Proc : IsJob(job[p], drops)
  /\ drops \in Seq(Drop)
  /\ added \subseteq Contact
  /\ calm \in BOOLEAN /\ mixed \in BOOLEAN /\ halted \in BOOLEAN
  /\ ops \in 0..MaxOps /\ faults \in 0..MaxFaults

\* As long as commands keep out of each other's way one at a time fills a file, which is
\* empty meanwhile.
Fills(p, file) == job[p].pc = "fill" /\ job[p].file = file

\* As long as no two commands overlap on a file, a file being filled is empty, and one
\* process fills it.
FillInv ==
  calm => \A p \in Proc, file \in {"book", "hunt"} :
            Fills(p, file) =>
              /\ Content(file) = Empty(file)
              /\ \A q \in Proc : Fills(q, file) => q = p

\* Names that are on the list, or about to be.
JobNames(j) ==
  CASE j.pc = "load" -> {j.name}
    [] j.pc = "seed" -> Names(j.value)
    [] j.pc \in {"write", "fill"} /\ j.file = "hunt" -> Names(j.new)
    [] OTHER -> {}

\* Participants of the hunt file or of a copy of it.
Listed == Names(hunt) \cup UNION {JobNames(job[p]) : p \in Proc}

\* A book of whole lines that has everybody it must have.
KnowsAll(b, all, names) ==
  /\ b \in Seq(Contact)
  /\ all \subseteq ToSet(b)
  /\ \A n \in names : \E c \in ToSet(b) : c.name = n

\* What add_contact writes is what it read and a line; it was the book's content if the book
\* is being filled.
BookCopy(j, all, names) ==
  j.pc \in {"write", "fill"} /\ j.file = "book" =>
    /\ j.read \in Seq(Contact)
    /\ \E c \in Contact : j.new = Append(j.read, c)
    /\ j.pc = "fill" => KnowsAll(j.new, all, names)

\* The book, or what will be in it when the command that fills it is done.
BookInv ==
  calm =>
    /\ ~Filling("book") => KnowsAll(book, added, Listed)
    /\ \A p \in Proc : BookCopy(job[p], added, Listed)

\* The drops named by the hunt that a command is about to write.
JobIds(j) ==
  CASE j.pc = "seed" -> IdsOf(j.value)
    [] j.pc \in {"write", "fill"} /\ j.file = "hunt" -> IdsOf(j.new)
    [] OTHER -> {}

\* Every drop's id is on file, or in the copy of a command that will write it.
SeedInv ==
  calm /\ ~halted =>
    \A d \in DOMAIN drops : d \in IdsOf(hunt) \/ \E p \in Proc : d \in JobIds(job[p])

\* A text of contacts that has no device twice.
Once(t) ==
  \A i, j \in DOMAIN t :
    Seen(t[i]) \in Contact /\ Seen(t[j]) \in Contact /\ SameDevice(Seen(t[i]), Seen(t[j])) => i = j

\* Until two commands write the book at once, neither it nor a text about to be written to it
\* has a device twice, and it is empty while it is filled, by one command.
OnceInv ==
  ~mixed =>
    /\ Once(book)
    /\ \A p \in Proc :
         job[p].pc \in {"write", "fill"} /\ job[p].file = "book" => Once(job[p].new)
    /\ \A p \in Proc :
         Fills(p, "book") => book = <<>> /\ \A q \in Proc : Fills(q, "book") => q = p

\* The inductive invariant.
IInv == Shape /\ FillInv /\ BookInv /\ SeedInv /\ OnceInv

-----------------------------------------------------------------------------
(* Contacts *)

\* A line add_contact writes is no remains of one.
LEMMA ContactsAreWhole ==
  ASSUME NEW c \in Contact
  PROVE  c \notin CutLine /\ c # Short /\ c # Bad /\ c \notin Remains /\ Seen(c) = c
<1>1. DOMAIN c = {"name", "dev", "hybrid"}
  BY Zenon, ContactAssumption
<1>2. \A r \in CutLine : DOMAIN r = {"cut"}
  BY Zenon DEF CutLine
<1>3. c \notin CutLine
  BY Zenon, <1>1, <1>2
<1>4. DOMAIN Short = {"name"} /\ DOMAIN Bad = {"name"} /\ Remains = {Short, Bad}
  BY Zenon DEF Short, Bad, Remains
<1> QED
  BY <1>1, <1>3, <1>4 DEF Seen

\* What a reader makes of a line.
LEMMA SeenIs ==
  ASSUME NEW l \in Line
  PROVE  Seen(l) \in Contact \cup Remains
<1>1. CASE l \in CutLine
  BY Zenon, <1>1 DEF Seen, CutLine
<1>2. CASE l \notin CutLine
  BY Zenon, <1>2 DEF Seen, Line
<1> QED
  BY Zenon, <1>1, <1>2

\* What add_contact is about to write.
LEMMA PushedIs ==
  ASSUME NEW b \in Seq(Line), NEW c \in Contact, NEW t \in Pushed(b, c)
  PROVE  /\ t \in Seq(Line) /\ t # <<>>
         /\ b \in Seq(Contact) => t = Append(b, c)
<1>1. c \in Line
  BY Zenon DEF Line
<1>2. CASE b = <<>> \/ Last(b) \notin CutLine
  <2>1. t = Append(b, c)
    BY Zenon, <1>2 DEF Pushed
  <2>2. Append(b, c) \in Seq(Line) /\ Len(Append(b, c)) = Len(b) + 1 /\ Len(b) \in Nat
    BY <1>1
  <2>3. t # <<>>
    BY <2>1, <2>2
  <2> QED
    BY Zenon, <2>1, <2>2, <2>3
<1>3. CASE b # <<>> /\ Last(b) \in CutLine
  <2>1. PICK r \in Remains : t = Append(Front(b), r)
    <3>1. t \in {Append(Front(b), r) : r \in IF Seen(Last(b)) = Short THEN Remains ELSE {Bad}}
      BY Zenon, <1>3 DEF Pushed
    <3> QED
      BY Zenon, <3>1 DEF Remains, Bad
  <2>2. Front(b) \in Seq(Line)
    BY <1>3 DEF Front
  <2>3. t \in Seq(Line) /\ t # <<>>
    <3>1. r \in Line
      BY Zenon DEF Line
    <3> QED
      BY <2>1, <2>2, <3>1
  <2>4. b \notin Seq(Contact)
    <3>1. Len(b) \in 1..Len(b)
      BY <1>3
    <3>2. b[Len(b)] \in CutLine
      BY Zenon, <1>3 DEF Last
    <3> QED
      BY <3>1, <3>2, ContactsAreWhole
  <2> QED
    BY Zenon, <2>3, <2>4
<1> QED
  BY Zenon, <1>2, <1>3

\* What a write that was cut short leaves.
LEMMA CutsAre ==
  ASSUME NEW b \in Seq(Line), NEW t \in Cuts(b)
  PROVE  t \in Seq(Line)
<1>1. ASSUME NEW n \in 0..Len(b) PROVE SubSeq(b, 1, n) \in Seq(Line)
  OBVIOUS
<1>2. ASSUME NEW n \in DOMAIN b, NEW c \in Remains \cup {Seen(b[n])},
             t = Append(SubSeq(b, 1, n - 1), [cut |-> c])
      PROVE  t \in Seq(Line)
  <2>1. [cut |-> c] \in Line
    <3>1. c \in Contact \cup Remains
      BY SeenIs
    <3> QED
      BY Zenon, <3>1 DEF Line, CutLine
  <2>2. SubSeq(b, 1, n - 1) \in Seq(Line)
    OBVIOUS
  <2> QED
    BY <1>2, <2>1, <2>2
<1> QED
  BY ZenonT(40), <1>1, <1>2 DEF Cuts

\* What may stick out of a file that was filled twice; of an empty file nothing does.
LEMMA LeftoversAre ==
  ASSUME NEW new \in Seq(Line), NEW old \in Seq(Line), NEW rest \in Leftovers(new, old)
  PROVE  rest \in Seq(Line) /\ (old = <<>> => rest = <<>>)
<1>1. CASE old = <<>>
  BY Zenon, <1>1 DEF Leftovers
<1>2. CASE old # <<>>
  <2>1. rest = <<>> \/ rest = <<Bad>> \/ rest = SubSeq(old, Len(new) + 1, Len(old))
    BY Zenon, <1>2 DEF Leftovers
  <2>2. Bad \in Line
    BY Zenon DEF Line, Remains, Bad
  <2>3. SubSeq(old, Len(new) + 1, Len(old)) \in Seq(Line)
    OBVIOUS
  <2>4. <<>> \in Seq(Line) /\ <<Bad>> \in Seq(Line)
    BY <2>2
  <2> QED
    BY Zenon, <1>2, <2>1, <2>3, <2>4
<1> QED
  BY Zenon, <1>1, <1>2

\* find_contact finds contacts, and in a whole file all those of the name.
LEMMA MatchingIs ==
  ASSUME NEW b, NEW n
  PROVE  /\ matching(b, n) \subseteq Contact
         /\ b \in Seq(Contact) =>
              (matching(b, n) # {} <=> \E c \in ToSet(b) : c.name = n)
<1>1. matching(b, n) \subseteq Contact
  BY Zenon DEF matching, contacts
<1>2. ASSUME b \in Seq(Contact) PROVE contacts(b) = ToSet(b)
  <2>1. \A i \in DOMAIN b : b[i] \in Contact /\ Seen(b[i]) = b[i]
    BY <1>2, ContactsAreWhole
  <2> QED
    BY Zenon, <2>1 DEF contacts, ToSet
<1> QED
  BY Zenon, <1>1, <1>2 DEF matching

-----------------------------------------------------------------------------
(* Values of the hunt file *)

\* The elements of a list with one more.
LEMMA ToSetAppend ==
  ASSUME NEW S, NEW s \in Seq(S), NEW n \in S
  PROVE  ToSet(Append(s, n)) = ToSet(s) \cup {n}
<1>1. PICK t, l : t = Append(s, n) /\ l = Len(s)
  BY Zenon
<1>2. DOMAIN t = 1..l + 1 /\ DOMAIN s = 1..l /\ l \in Nat
  BY <1>1
<1>3. t[l + 1] = n /\ \A i \in 1..l : t[i] = s[i]
  BY <1>1
<1>4. ToSet(t) = {t[i] : i \in 1..l + 1} /\ ToSet(s) = {s[i] : i \in 1..l}
  BY Zenon, <1>2 DEF ToSet
<1>5. 1..l + 1 = 1..l \cup {l + 1}
  BY <1>2
<1>6. {t[i] : i \in 1..l + 1} = {t[i] : i \in 1..l} \cup {n}
  BY Zenon, <1>3, <1>5
<1>7. {t[i] : i \in 1..l} = {s[i] : i \in 1..l}
  BY Zenon, <1>3
<1> QED
  BY Zenon, <1>1, <1>4, <1>6, <1>7

\* The parts of a hunt.
LEMMA JsonHas ==
  ASSUME NEW ps, NEW ms
  PROVE  /\ Json(ps, ms).state = "json" /\ Json(ps, ms).participants = ps /\ Json(ps, ms).drops = ms
         /\ Names(Json(ps, ms)) = ToSet(ps)
         /\ IdsOf(Json(ps, ms)) = Ids(ms)
<1>1. Json(ps, ms).state = "json" /\ Json(ps, ms).participants = ps /\ Json(ps, ms).drops = ms
  BY Zenon DEF Json
<1> QED
  BY Zenon, <1>1 DEF Names, IdsOf

\* A hunt made of good parts is good.
LEMMA SoundIs ==
  ASSUME NEW ps, NEW ms, NEW ds, Distinct(ps), Truthful(ms, ds)
  PROVE  Sound(Json(ps, ms), ds)
BY JsonHas DEF Sound

\* A missing or torn hunt file names nobody and nothing.
LEMMA NoHunt ==
  /\ Absent.state = "absent" /\ Torn.state = "torn" /\ Absent # Torn
  /\ Names(Absent) = {} /\ Names(Torn) = {} /\ IdsOf(Absent) = {} /\ IdsOf(Torn) = {}
BY Zenon DEF Absent, Torn, Names, IdsOf

\* What is true of a hunt value stays true when drops are created.
LEMMA SoundGrows ==
  ASSUME NEW v, NEW ds, NEW es, Sound(v, ds), Grows(ds, es)
  PROVE  Sound(v, es)
<1>1. PICK ms : ms = v.drops
  BY Zenon
<1>2. Len(ds) \in Nat /\ Len(es) \in Nat /\ Len(ds) <= Len(es)
      /\ DOMAIN ds = 1..Len(ds) /\ DOMAIN es = 1..Len(es)
  BY DEF Grows
<1>3. ms \in Seq(Item(ds)) /\ Truthful(ms, ds)
  BY Zenon, <1>1 DEF Sound, Truthful
<1>4. ms \in Seq(Item(es))
  <2>1. Item(ds) \subseteq Item(es)
    BY <1>2 DEF Item
  <2> QED
    BY <1>3, <2>1
<1>5. \A k \in DOMAIN ds : k \in DOMAIN es /\ es[k] = ds[k]
  BY <1>2 DEF Grows
<1>6. Truthful(ms, es)
  BY Zenon, <1>3, <1>4, <1>5 DEF Truthful
<1> QED
  BY Zenon, <1>1, <1>6 DEF Sound

\* The hunt that hunt create writes.
LEMMA SoundEmpty ==
  ASSUME NEW ds
  PROVE  Sound(Json(<<>>, <<>>), ds) /\ IdsOf(Json(<<>>, <<>>)) = {} /\ Names(Json(<<>>, <<>>)) = {}
<1>1. PICK e : e = <<>>
  BY Zenon
<1>2. e \in Seq(Name) /\ e \in Seq(Item(ds)) /\ DOMAIN e = {}
  BY <1>1
<1>3. Sound(Json(e, e), ds)
  BY Zenon, <1>2, SoundIs DEF Distinct, Truthful
<1>4. ToSet(e) = {} /\ Ids(e) = {}
  BY Zenon, <1>2 DEF ToSet, Ids
<1>5. IdsOf(Json(e, e)) = Ids(e) /\ Names(Json(e, e)) = ToSet(e)
  BY Zenon, JsonHas
<1> QED
  BY Zenon, <1>1, <1>3, <1>4, <1>5

\* hunt_join adds a participant who is not in the list yet.
LEMMA DistinctAppend ==
  ASSUME NEW qs, Distinct(qs), NEW n \in Name, n \notin ToSet(qs), NEW ps, ps = Append(qs, n)
  PROVE  Distinct(ps)
<1>1. qs \in Seq(Name) /\ \A i, j \in DOMAIN qs : qs[i] = qs[j] => i = j
  BY Zenon DEF Distinct
<1>2. DOMAIN ps = 1..Len(qs) + 1 /\ DOMAIN qs = 1..Len(qs) /\ Len(qs) \in Nat
  BY <1>1
<1>3. ps[Len(qs) + 1] = n /\ \A i \in 1..Len(qs) : ps[i] = qs[i]
  BY <1>1
<1>4. \A i \in 1..Len(qs) : qs[i] # n
  BY Zenon, <1>2 DEF ToSet
<1>5. \A i \in DOMAIN ps : i \in 1..Len(qs) \/ i = Len(qs) + 1
  BY <1>2
<1>6. \A i, j \in DOMAIN ps : ps[i] = ps[j] => i = j
  BY <1>1, <1>2, <1>3, <1>4, <1>5
<1> QED
  BY <1>1, <1>6 DEF Distinct

\* add-participant puts a name on the list.
LEMMA SoundParticipant ==
  ASSUME NEW v, NEW ds, Sound(v, ds), NEW n \in Name, NEW ps,
         ps = IF n \in ToSet(v.participants) THEN v.participants ELSE Append(v.participants, n)
  PROVE  /\ Sound(Json(ps, v.drops), ds)
         /\ IdsOf(Json(ps, v.drops)) = IdsOf(v)
         /\ Names(Json(ps, v.drops)) = Names(v) \cup {n}
<1>1. PICK qs, ms : qs = v.participants /\ ms = v.drops
  BY Zenon
<1>2. v = Json(qs, ms) /\ Distinct(qs) /\ Truthful(ms, ds)
  BY Zenon, <1>1 DEF Sound
<1>3. Distinct(ps) /\ ToSet(ps) = ToSet(qs) \cup {n}
  <2>1. CASE n \in ToSet(qs)
    <3>1. ps = qs
      BY Zenon, <1>1, <2>1
    <3> QED
      BY Zenon, <1>2, <2>1, <3>1
  <2>2. CASE n \notin ToSet(qs)
    <3>1. ps = Append(qs, n) /\ qs \in Seq(Name)
      BY Zenon, <1>1, <1>2, <2>2 DEF Distinct
    <3>2. Distinct(ps)
      BY Zenon, <1>2, <2>2, <3>1, DistinctAppend
    <3>3. ToSet(Append(qs, n)) = ToSet(qs) \cup {n}
      <4>1. qs \in Seq(Name)
        BY Zenon, <1>2 DEF Distinct
      <4> QED
        BY <4>1, ToSetAppend
    <3> QED
      BY Zenon, <3>1, <3>2, <3>3
  <2> QED
    BY Zenon, <2>1, <2>2
<1>5. Sound(Json(ps, ms), ds)
  BY Zenon, <1>2, <1>3, SoundIs
<1>6. Names(v) = ToSet(qs) /\ Names(Json(ps, ms)) = ToSet(ps) /\ IdsOf(Json(ps, ms)) = IdsOf(v)
  BY Zenon, <1>2, JsonHas
<1> QED
  BY Zenon, <1>1, <1>3, <1>5, <1>6

\* add-drop: a clue without an id at the end of the list.
LEMMA SoundClue ==
  ASSUME NEW v, NEW ds, Sound(v, ds), Len(ds) \in Nat, NEW m \in Clue, NEW t,
         t = Append(v.drops, [clue |-> m, id |-> NoId])
  PROVE  /\ Sound(Json(v.participants, t), ds)
         /\ IdsOf(Json(v.participants, t)) = IdsOf(v)
         /\ Names(Json(v.participants, t)) = Names(v)
<1>1. PICK ps, ms, e, l : /\ ps = v.participants /\ ms = v.drops
                          /\ e = [clue |-> m, id |-> NoId] /\ l = Len(v.drops)
  BY Zenon
<1>2. v = Json(ps, ms) /\ Distinct(ps) /\ Truthful(ms, ds)
  BY Zenon, <1>1 DEF Sound
<1>3. ms \in Seq(Item(ds)) /\ e \in Item(ds) /\ e.id = NoId
  <2>1. NoId \in 0..Len(ds)
    BY DEF NoId
  <2>2. e \in [clue : Clue, id : 0..Len(ds)] /\ e.id = NoId
    BY Zenon, <1>1, <2>1
  <2> QED
    BY Zenon, <1>2, <2>2 DEF Item, Truthful
<1>4. t \in Seq(Item(ds)) /\ DOMAIN t = 1..l + 1 /\ DOMAIN ms = 1..l /\ l \in Nat
  BY <1>1, <1>3
<1>5. t[l + 1] = e /\ \A i \in 1..l : t[i] = ms[i]
  BY <1>1, <1>3
<1>6. \A i \in 1..l + 1 : i \in 1..l \/ i = l + 1
  BY <1>4
<1>7. Truthful(t, ds)
  BY SMTT(30), <1>2, <1>3, <1>4, <1>5, <1>6 DEF Truthful
<1>8. Ids(t) = Ids(ms)
  <2>1. 1..l + 1 = 1..l \cup {l + 1}
    BY <1>4
  <2>2. \A x : x \in Ids(t) <=> x # NoId /\ \E i \in 1..l : t[i].id = x
    <3>1. \A x : x \in Ids(t) <=> x # NoId /\ \E i \in 1..l + 1 : t[i].id = x
      BY Zenon, <1>4 DEF Ids
    <3>2. t[l + 1].id = NoId
      BY Zenon, <1>3, <1>5
    <3> QED
      BY Zenon, <2>1, <3>1, <3>2
  <2>3. \A x : x \in Ids(ms) <=> x # NoId /\ \E i \in 1..l : ms[i].id = x
    BY Zenon, <1>4 DEF Ids
  <2>4. \A x : x \in Ids(t) <=> x \in Ids(ms)
    BY ZenonT(40), <1>5, <2>2, <2>3
  <2> QED
    BY Zenon, <2>4
<1>9. IdsOf(Json(ps, t)) = IdsOf(v) /\ Names(Json(ps, t)) = Names(v)
  <2>1. IdsOf(v) = Ids(ms) /\ Names(v) = ToSet(ps)
    BY Zenon, <1>2, JsonHas
  <2>2. IdsOf(Json(ps, t)) = Ids(t) /\ Names(Json(ps, t)) = ToSet(ps)
    BY Zenon, JsonHas
  <2> QED
    BY Zenon, <1>8, <2>1, <2>2
<1> QED
  BY Zenon, <1>1, <1>2, <1>7, <1>9, SoundIs

\* hunt_seed writes the id of the drop it created next to the clue.
LEMMA SoundSeeds ==
  ASSUME NEW v, NEW ds, NEW es, Sound(v, ds), NEW i \in DOMAIN v.drops, v.drops[i].id = NoId,
         Grows(ds, es), NEW k, k = Len(ds) + 1, Len(es) = k, es[k].clue = v.drops[i].clue,
         NEW w, w = [v EXCEPT !.drops[i].id = k]
  PROVE  /\ Sound(w, es) /\ w.participants = v.participants /\ Len(w.drops) = Len(v.drops)
         /\ IdsOf(w) = IdsOf(v) \cup {k}
         /\ Names(w) = Names(v)
<1>1. PICK ps, ms, t : /\ ps = v.participants /\ ms = v.drops
                       /\ t = [v.drops EXCEPT ![i] = [v.drops[i] EXCEPT !.id = k]]
  BY Zenon
<1>2. v = Json(ps, ms) /\ Distinct(ps) /\ Truthful(ms, ds) /\ Truthful(ms, es)
  BY Zenon, <1>1, SoundGrows DEF Sound
<1>3. w = Json(ps, t)
  BY <1>1, <1>2 DEF Json
<1>4. /\ ms \in Seq(Item(ds)) /\ ms \in Seq(Item(es)) /\ i \in DOMAIN ms
      /\ k \in 0..Len(es) /\ k # NoId /\ k \notin 0..Len(ds) /\ k \in DOMAIN es
  <2>1. ms \in Seq(Item(ds)) /\ ms \in Seq(Item(es)) /\ i \in DOMAIN ms
    BY Zenon, <1>1, <1>2 DEF Truthful
  <2>2. Len(ds) \in Nat /\ DOMAIN es = 1..k
    BY DEF Grows
  <2> QED
    BY SMTT(40), <2>1, <2>2 DEF NoId
<1>5. DOMAIN ms = 1..Len(ms) /\ Len(ms) \in Nat /\ ms[i] \in Item(es)
  BY <1>4
<1>6. /\ t[i] \in Item(es) /\ t[i].id = k /\ t[i].clue = ms[i].clue
      /\ \A j \in DOMAIN ms : j # i => t[j] = ms[j]
      /\ DOMAIN t = DOMAIN ms
  BY Zenon, <1>1, <1>4, <1>5 DEF Item
<1>7. t \in Seq(Item(es)) /\ Len(t) = Len(ms)
  BY <1>1, <1>4, <1>5, <1>6
<1>8. \A j \in DOMAIN ms : ms[j].id # k
  <2>1. \A j \in DOMAIN ms : ms[j] \in Item(ds)
    BY <1>4
  <2> QED
    BY Zenon, <1>4, <2>1 DEF Item
<1>9. Truthful(t, es)
  <2>1. SUFFICES ASSUME NEW a \in DOMAIN ms, t[a].id # NoId
                 PROVE  /\ t[a].id \in DOMAIN es /\ es[t[a].id].clue = t[a].clue
                        /\ \A j \in DOMAIN ms : t[j].id = t[a].id => j = a
    BY Zenon, <1>6, <1>7 DEF Truthful
  <2>2. CASE a = i
    BY <1>1, <1>4, <1>6, <1>8, <2>2
  <2>3. CASE a # i
    <3>1. t[a] = ms[a] /\ ms[a].id # NoId
      BY Zenon, <1>6, <2>1, <2>3
    <3>2. /\ ms[a].id \in DOMAIN es /\ es[ms[a].id].clue = ms[a].clue
          /\ \A j \in DOMAIN ms : ms[j].id = ms[a].id => j = a
      BY Zenon, <1>2, <3>1 DEF Truthful
    <3>3. \A j \in DOMAIN ms : t[j].id = t[a].id => j = a
      BY Zenon, <1>6, <1>8, <3>1, <3>2
    <3> QED
      BY Zenon, <3>1, <3>2, <3>3
  <2> QED
    BY Zenon, <2>2, <2>3
<1>10. Ids(t) = Ids(ms) \cup {k}
  <2>1. ms[i].id = NoId
    BY Zenon, <1>1
  <2> QED
    BY SMTT(30), <1>4, <1>6, <2>1 DEF Ids
<1>11. IdsOf(w) = IdsOf(v) \cup {k} /\ Names(w) = Names(v) /\ w.participants = ps /\ w.drops = t
  <2>1. IdsOf(v) = Ids(ms) /\ Names(v) = ToSet(ps)
    BY Zenon, <1>2, JsonHas
  <2>2. IdsOf(w) = Ids(t) /\ Names(w) = ToSet(ps) /\ w.participants = ps /\ w.drops = t
    <3>1. /\ IdsOf(Json(ps, t)) = Ids(t) /\ Names(Json(ps, t)) = ToSet(ps)
          /\ Json(ps, t).participants = ps /\ Json(ps, t).drops = t
      BY Zenon, JsonHas
    <3> QED
      BY Zenon, <1>3, <3>1
  <2> QED
    BY Zenon, <1>10, <2>1, <2>2
<1>12. Sound(w, es)
  <2>1. Sound(Json(ps, t), es)
    BY Zenon, <1>2, <1>9, SoundIs
  <2> QED
    BY Zenon, <1>3, <2>1
<1> QED
  BY Zenon, <1>1, <1>7, <1>11, <1>12

-----------------------------------------------------------------------------
(* Jobs *)

\* hunt_join after its check of the contacts.
LoadJob(n) == [pc |-> "load", name |-> n]

\* hunt_seed at its a-th clue.
SeedJob(r, v, a) == [pc |-> "seed", read |-> r, value |-> v, at |-> a]

\* A command that writes a file, or is filling it.
WriteJob(pc, file, r, v) == [pc |-> pc, file |-> file, read |-> r, new |-> v]

\* A job that does not write the book.
NoBook(j) == ~(j.pc \in {"write", "fill"} /\ j.file = "book")

\* What is known of a process that does nothing.
LEMMA IdleHas ==
  /\ Idle.pc = "idle" /\ JobIds(Idle) = {} /\ JobNames(Idle) = {} /\ NoBook(Idle)
  /\ \A ds : IsJob(Idle, ds)
BY Zenon DEF Idle, JobIds, JobNames, NoBook, IsJob

\* What is known of hunt_join before it loads the hunt.
LEMMA LoadHas ==
  ASSUME NEW n, NEW j, j = LoadJob(n)
  PROVE  /\ j.pc = "load" /\ JobIds(j) = {} /\ JobNames(j) = {n} /\ NoBook(j) /\ j # Idle
         /\ \A ds : n \in Name => IsJob(j, ds)
<1>1. j.pc = "load" /\ j.name = n /\ j = [pc |-> "load", name |-> j.name]
  BY Zenon DEF LoadJob
<1>2. j # Idle
  BY <1>1 DEF Idle
<1> QED
  BY Zenon, <1>1, <1>2 DEF JobIds, JobNames, NoBook, IsJob

\* What is known of hunt_seed in its loop.
LEMMA SeedHas ==
  ASSUME NEW r, NEW v, NEW a, NEW j, j = SeedJob(r, v, a)
  PROVE  /\ j.pc = "seed" /\ j.read = r /\ j.value = v /\ j.at = a /\ j # Idle
         /\ JobIds(j) = IdsOf(v) /\ JobNames(j) = Names(v) /\ NoBook(j)
         /\ \A ds : /\ a \in Nat \ {0} /\ Sound(r, ds) /\ Sound(v, ds) /\ v.participants # <<>>
                    /\ IdsOf(r) \subseteq IdsOf(v)
                    => IsJob(j, ds)
<1>1. /\ j.pc = "seed" /\ j.read = r /\ j.value = v /\ j.at = a
      /\ j = [pc |-> "seed", read |-> j.read, value |-> j.value, at |-> j.at]
  BY Zenon DEF SeedJob
<1>2. j # Idle
  BY <1>1 DEF Idle
<1> QED
  BY Zenon, <1>1, <1>2 DEF JobIds, JobNames, NoBook, IsJob

\* What is known of a command that writes the hunt file.
LEMMA HuntJobHas ==
  ASSUME NEW pc \in {"write", "fill"}, NEW r, NEW v, NEW j, j = WriteJob(pc, "hunt", r, v)
  PROVE  /\ j.pc = pc /\ j.file = "hunt" /\ j.read = r /\ j.new = v /\ j # Idle
         /\ JobIds(j) = IdsOf(v) /\ JobNames(j) = Names(v) /\ NoBook(j)
         /\ \A ds : IsHunt(r, ds) /\ Sound(v, ds) /\ IdsOf(r) \subseteq IdsOf(v) => IsJob(j, ds)
<1>1. /\ j.pc = pc /\ j.file = "hunt" /\ j.read = r /\ j.new = v
      /\ j = [pc |-> j.pc, file |-> "hunt", read |-> j.read, new |-> j.new]
  BY Zenon DEF WriteJob
<1>2. j # Idle
  BY <1>1 DEF Idle
<1> QED
  BY Zenon, <1>1, <1>2 DEF JobIds, JobNames, NoBook, IsJob

\* What is known of a command that writes the contacts.
LEMMA BookJobHas ==
  ASSUME NEW pc \in {"write", "fill"}, NEW r, NEW v, NEW j, j = WriteJob(pc, "book", r, v)
  PROVE  /\ j.pc = pc /\ j.file = "book" /\ j.read = r /\ j.new = v /\ j # Idle
         /\ JobIds(j) = {} /\ JobNames(j) = {}
         /\ \A ds : r \in Seq(Line) /\ v \in Seq(Line) /\ v # <<>> => IsJob(j, ds)
<1>1. /\ j.pc = pc /\ j.file = "book" /\ j.read = r /\ j.new = v
      /\ j = [pc |-> j.pc, file |-> "book", read |-> j.read, new |-> j.new]
  BY Zenon DEF WriteJob
<1>2. j # Idle
  BY <1>1 DEF Idle
<1> QED
  BY Zenon, <1>1, <1>2 DEF JobIds, JobNames, IsJob

\* The two halves of a rewrite are of the same names and ids.
LEMMA HuntWriteHas ==
  ASSUME NEW r, NEW v
  PROVE  /\ NoBook(WriteJob("write", "hunt", r, v)) /\ JobNames(WriteJob("write", "hunt", r, v)) = Names(v)
         /\ JobIds(WriteJob("write", "hunt", r, v)) = IdsOf(v)
         /\ WriteJob("write", "hunt", r, v).pc = "write" /\ WriteJob("write", "hunt", r, v).file = "hunt"
BY Zenon DEF WriteJob, NoBook, JobNames, JobIds

\* The hunt file is about to be filled.
LEMMA HuntFillHas ==
  ASSUME NEW r, NEW v
  PROVE  /\ NoBook(WriteJob("fill", "hunt", r, v)) /\ JobNames(WriteJob("fill", "hunt", r, v)) = Names(v)
         /\ JobIds(WriteJob("fill", "hunt", r, v)) = IdsOf(v)
         /\ WriteJob("fill", "hunt", r, v).pc = "fill" /\ WriteJob("fill", "hunt", r, v).file = "hunt"
BY Zenon DEF WriteJob, NoBook, JobNames, JobIds

\* The book is about to be truncated: no names or ids of the hunt are at stake.
LEMMA BookWriteHas ==
  ASSUME NEW r, NEW v
  PROVE  /\ JobNames(WriteJob("write", "book", r, v)) = {} /\ JobIds(WriteJob("write", "book", r, v)) = {}
         /\ WriteJob("write", "book", r, v).pc = "write" /\ WriteJob("write", "book", r, v).file = "book"
         /\ WriteJob("write", "book", r, v).read = r /\ WriteJob("write", "book", r, v).new = v
BY Zenon DEF WriteJob, NoBook, JobNames, JobIds

\* The book is about to be filled.
LEMMA BookFillHas ==
  ASSUME NEW r, NEW v
  PROVE  /\ JobNames(WriteJob("fill", "book", r, v)) = {} /\ JobIds(WriteJob("fill", "book", r, v)) = {}
         /\ WriteJob("fill", "book", r, v).pc = "fill" /\ WriteJob("fill", "book", r, v).file = "book"
         /\ WriteJob("fill", "book", r, v).read = r /\ WriteJob("fill", "book", r, v).new = v
BY Zenon DEF WriteJob, NoBook, JobNames, JobIds

\* The five kinds of job.
LEMMA JobKinds ==
  ASSUME NEW j, NEW ds, IsJob(j, ds)
  PROVE  \/ j = Idle
         \/ \E n \in Name : j = LoadJob(n)
         \/ \E r, v, a : /\ j = SeedJob(r, v, a) /\ a \in Nat \ {0} /\ Sound(r, ds) /\ Sound(v, ds)
                         /\ v.participants # <<>> /\ IdsOf(r) \subseteq IdsOf(v)
         \/ \E pc \in {"write", "fill"} : \E r, v :
              /\ j = WriteJob(pc, "book", r, v)
              /\ r \in Seq(Line) /\ v \in Seq(Line) /\ v # <<>>
         \/ \E pc \in {"write", "fill"} : \E r, v :
              /\ j = WriteJob(pc, "hunt", r, v)
              /\ IsHunt(r, ds) /\ Sound(v, ds) /\ IdsOf(r) \subseteq IdsOf(v)
BY Zenon DEF IsJob, LoadJob, SeedJob, WriteJob

\* A good job stays good when drops are created.
LEMMA JobGrows ==
  ASSUME NEW j, NEW ds, NEW es, IsJob(j, ds), Grows(ds, es)
  PROVE  IsJob(j, es)
<1>1. \A v : Sound(v, ds) => Sound(v, es)
  BY Zenon, SoundGrows
<1>2. \A v : IsHunt(v, ds) => IsHunt(v, es)
  BY Zenon, <1>1 DEF IsHunt
<1> QED
  BY Zenon, <1>1, <1>2 DEF IsJob

-----------------------------------------------------------------------------
(* Steps *)

\* A step of p, after which its job is j.
Does(p, j) ==
  /\ DOMAIN job' = Proc /\ job'[p] = j
  /\ \A q \in Proc : q # p => job'[q] = job[q]

\* A step that leaves both files as they are.
Reads(p) ==
  /\ Does(p, job'[p]) /\ IsJob(job'[p], drops')
  /\ UNCHANGED <<book, hunt, added>>
  /\ job[p].pc # "fill" /\ job'[p].pc # "fill"
  /\ calm' \in BOOLEAN /\ (calm' => calm)
  /\ halted' \in BOOLEAN /\ (halted => halted')
  /\ UNCHANGED mixed
  /\ ops' \in 0..MaxOps /\ faults' \in 0..MaxFaults

\* No id gets lost, unless a command ended early or commands got in each other's way.
IdsKept(p) ==
  calm' /\ ~halted' =>
    IdsOf(hunt) \cup JobIds(job[p]) \subseteq IdsOf(hunt') \cup JobIds(job'[p])

\* The step of p adds no participant.
NamesKept(p) ==
  Names(hunt') \cup JobNames(job'[p]) \subseteq Names(hunt) \cup JobNames(job[p])

\* A step of p moves p alone.
LEMMA GotoDoes ==
  ASSUME Shape, NEW p \in Proc, NEW j, Goto(p, j)
  PROVE  Does(p, j) /\ Does(p, job'[p])
BY Zenon DEF Shape, Goto, Does

\* A command that begins without a write changes nothing but its own state.
LEMMA BeginDoes ==
  ASSUME Shape, NEW p \in Proc, NEW file, Begin(p, file), NEW j, Goto(p, j),
         IsJob(j, drops), j.pc # "fill"
  PROVE  /\ Reads(p) /\ job'[p] = j /\ job[p] = Idle /\ UNCHANGED drops
         /\ calm' => ~Filling(file)
<1>1. Does(p, j) /\ Does(p, job'[p]) /\ job'[p] = j
  BY Zenon, GotoDoes DEF Does
<1>2. job[p] = Idle /\ job[p].pc # "fill"
  BY Zenon, IdleHas DEF Begin
<1>3. /\ UNCHANGED <<book, hunt, drops, added, mixed, halted, faults>>
      /\ calm' = (calm /\ ~Filling(file))
  BY Zenon DEF Begin
<1>4. calm' \in BOOLEAN /\ (calm' => calm) /\ (calm' => ~Filling(file))
  BY Zenon, <1>3
<1>5. ops' \in 0..MaxOps /\ faults' \in 0..MaxFaults
  BY <1>3, BoundAssumption DEF Begin, Shape
<1>6. halted' \in BOOLEAN /\ (halted => halted')
  BY Zenon, <1>3 DEF Shape
<1> QED
  BY Zenon, <1>1, <1>2, <1>3, <1>4, <1>5, <1>6 DEF Reads

\* add_contact reads the contacts and makes the text it will write.
LEMMA AddContactStep ==
  ASSUME Shape, NEW p \in Proc, NEW c \in Contact, AddContact(p, c)
  PROVE  /\ Reads(p) /\ IdsKept(p) /\ NamesKept(p) /\ UNCHANGED drops
         /\ calm' => ~Filling("book")
         /\ ~AlreadyHas(book, c)
         /\ \E t \in Pushed(book, c) : job'[p] = WriteJob("write", "book", book, t)
<1>1. PICK t \in Pushed(book, c) : Goto(p, Rewrite("book", t))
  BY Zenon DEF AddContact
<1>2. PICK b, j : b = book /\ j = WriteJob("write", "book", b, t)
  BY Zenon
<1>3. Goto(p, j)
  BY Zenon, <1>1, <1>2 DEF Rewrite, Content, WriteJob
<1>4. b \in Seq(Line) /\ t \in Pushed(b, c)
  BY Zenon, <1>1, <1>2 DEF Shape
<1>5. t \in Seq(Line) /\ t # <<>>
  BY Zenon, <1>4, PushedIs
<1>6. j.pc = "write" /\ JobIds(j) = {} /\ JobNames(j) = {} /\ IsJob(j, drops)
  BY <1>2, <1>4, <1>5, BookJobHas
<1>7. Begin(p, "book") /\ j.pc # "fill" /\ ~AlreadyHas(book, c)
  BY Zenon, <1>6 DEF AddContact
<1>8. /\ Reads(p) /\ job'[p] = j /\ job[p] = Idle /\ UNCHANGED drops
      /\ calm' => ~Filling("book")
  BY Zenon, <1>3, <1>6, <1>7, BeginDoes
<1>9. IdsKept(p) /\ NamesKept(p)
  BY Zenon, <1>6, <1>8, IdleHas DEF IdsKept, NamesKept, Reads
<1> QED
  BY Zenon, <1>1, <1>2, <1>7, <1>8, <1>9

\* add_contact cannot read the contacts: it will write one line.
LEMMA AddUnreadStep ==
  ASSUME Shape, NEW p \in Proc, NEW c \in Contact, AddContactUnread(p, c)
  PROVE  /\ Reads(p) /\ UNCHANGED drops /\ ~calm'
         /\ job'[p] = WriteJob("write", "book", book, <<c>>)
<1>0. PICK b, t : b = book /\ t = <<c>>
  BY Zenon
<1>1. PICK j : j = WriteJob("write", "book", b, t)
  BY Zenon
<1>2. Goto(p, j) /\ job[p] = Idle
  BY Zenon, <1>0, <1>1 DEF AddContactUnread, Rewrite, Content, WriteJob
<1>3. b \in Seq(Line) /\ t \in Seq(Line) /\ t # <<>>
  BY <1>0 DEF Shape, Line
<1>4. j.pc = "write" /\ IsJob(j, drops)
  BY <1>1, <1>3, BookJobHas
<1>5. Does(p, job'[p]) /\ job'[p] = j
  BY Zenon, <1>2, GotoDoes DEF Does
<1>6. UNCHANGED <<book, hunt, drops, added, mixed, halted>> /\ calm' = FALSE
  BY Zenon DEF AddContactUnread
<1>7. ops' \in 0..MaxOps /\ faults' \in 0..MaxFaults
  BY BoundAssumption DEF AddContactUnread, Shape
<1>8. halted' \in BOOLEAN /\ (halted => halted') /\ job[p].pc # "fill" /\ j.pc # "fill"
  BY Zenon, <1>2, <1>4, <1>6, IdleHas DEF Shape
<1>9. Reads(p)
  BY Zenon, <1>4, <1>5, <1>6, <1>7, <1>8 DEF Reads
<1> QED
  BY Zenon, <1>0, <1>1, <1>5, <1>6, <1>9

\* hunt_join checks that the participant is a contact.
LEMMA CheckContactStep ==
  ASSUME Shape, NEW p \in Proc, NEW n \in Name, CheckContact(p, n)
  PROVE  /\ Reads(p) /\ IdsKept(p) /\ UNCHANGED drops /\ NoBook(job'[p])
         /\ calm' => ~Filling("book")
         /\ matching(book, n) # {}
         /\ JobNames(job'[p]) = {n}
<1>1. PICK j : j = LoadJob(n)
  BY Zenon
<1>2. Goto(p, j) /\ Begin(p, "book") /\ matching(book, n) # {}
  BY Zenon, <1>1 DEF CheckContact, LoadJob
<1>3. j.pc # "fill" /\ JobIds(j) = {} /\ JobNames(j) = {n} /\ NoBook(j) /\ IsJob(j, drops)
  BY Zenon, <1>1, LoadHas
<1>4. /\ Reads(p) /\ job'[p] = j /\ job[p] = Idle /\ UNCHANGED drops
      /\ calm' => ~Filling("book")
  BY Zenon, <1>2, <1>3, BeginDoes
<1>5. IdsKept(p)
  BY Zenon, <1>3, <1>4, IdleHas DEF IdsKept, Reads
<1> QED
  BY Zenon, <1>2, <1>3, <1>4, <1>5

\* hunt create, add-drop and the start of hunt_seed.
LEMMA OpenStep ==
  ASSUME Shape, NEW p \in Proc, Create(p) \/ (\E m \in Clue : AddDrop(p, m)) \/ Seed(p)
  PROVE  Reads(p) /\ IdsKept(p) /\ NamesKept(p) /\ UNCHANGED drops /\ NoBook(job'[p])
<1>1. PICK h : h = hunt
  BY Zenon
<1>2. IsHunt(h, drops) /\ Len(drops) \in Nat
  BY <1>1 DEF Shape
<1>3. h.state = "json" => Sound(h, drops)
  BY Zenon, <1>2, NoHunt DEF IsHunt
<1>4. SUFFICES \E j : /\ Goto(p, j) /\ Begin(p, "hunt") /\ IsJob(j, drops) /\ j.pc # "fill"
                      /\ NoBook(j) /\ JobNames(j) \subseteq Names(hunt)
  <2>1. PICK j : /\ Goto(p, j) /\ Begin(p, "hunt") /\ IsJob(j, drops) /\ j.pc # "fill"
                 /\ NoBook(j) /\ JobNames(j) \subseteq Names(hunt)
    BY Zenon, <1>4
  <2>2. Reads(p) /\ job'[p] = j /\ job[p] = Idle /\ UNCHANGED drops
    BY Zenon, <2>1, BeginDoes
  <2>3. IdsKept(p) /\ NamesKept(p)
    BY Zenon, <2>1, <2>2, IdleHas DEF IdsKept, NamesKept, Reads
  <2> QED
    BY Zenon, <2>1, <2>2, <2>3
<1>5. CASE Create(p)
  <2>1. PICK v, j : v = Json(<<>>, <<>>) /\ j = WriteJob("write", "hunt", h, v)
    BY Zenon
  <2>2. Goto(p, j) /\ Begin(p, "hunt") /\ h = Absent
    BY Zenon, <1>1, <1>5, <2>1 DEF Create, Rewrite, Content, WriteJob
  <2>3. Sound(v, drops) /\ Names(v) = {} /\ IdsOf(h) = {}
    BY Zenon, <2>1, <2>2, SoundEmpty, NoHunt
  <2>4. j.pc # "fill" /\ NoBook(j) /\ JobNames(j) = Names(v) /\ IsJob(j, drops)
    BY <1>2, <2>1, <2>3, HuntJobHas
  <2> QED
    BY Zenon, <2>2, <2>3, <2>4
<1>6. CASE \E m \in Clue : AddDrop(p, m)
  <2>1. PICK m \in Clue : AddDrop(p, m)
    BY Zenon, <1>6
  <2>2. PICK t, v, j : /\ t = Append(h.drops, [clue |-> m, id |-> NoId])
                       /\ v = Json(h.participants, t) /\ j = WriteJob("write", "hunt", h, v)
    BY Zenon
  <2>3. Goto(p, j) /\ Begin(p, "hunt") /\ h.state = "json"
    BY Zenon, <1>1, <2>1, <2>2 DEF AddDrop, Rewrite, Content, WriteJob
  <2>4. Sound(v, drops) /\ IdsOf(v) = IdsOf(h) /\ Names(v) = Names(h)
    BY ZenonT(40), <1>2, <1>3, <2>2, <2>3, SoundClue
  <2>5. j.pc # "fill" /\ NoBook(j) /\ JobNames(j) = Names(v) /\ IsJob(j, drops)
    BY <1>2, <2>2, <2>4, HuntJobHas
  <2> QED
    BY Zenon, <1>1, <2>3, <2>4, <2>5
<1>7. CASE Seed(p)
  <2>1. PICK j : j = SeedJob(h, h, 1)
    BY Zenon
  <2>2. Goto(p, j) /\ Begin(p, "hunt") /\ h.state = "json" /\ h.participants # <<>>
    BY Zenon, <1>1, <1>7, <2>1 DEF Seed, SeedJob
  <2>3. j.pc # "fill" /\ NoBook(j) /\ JobNames(j) = Names(h) /\ IsJob(j, drops)
    BY <1>3, <2>1, <2>2, SeedHas
  <2> QED
    BY Zenon, <1>1, <2>2, <2>3
<1> QED
  BY Zenon, <1>5, <1>6, <1>7

\* hunt_join loads the hunt and adds the participant.
LEMMA LoadStep ==
  ASSUME Shape, NEW p \in Proc, LoadForParticipant(p)
  PROVE  Reads(p) /\ IdsKept(p) /\ NamesKept(p) /\ UNCHANGED drops /\ NoBook(job'[p])
<1>1. PICK h, k : h = hunt /\ k = job[p]
  BY Zenon
<1>2. IsHunt(h, drops) /\ IsJob(k, drops) /\ k.pc = "load"
  BY Zenon, <1>1 DEF Shape, LoadForParticipant
<1>3. PICK n \in Name : k = LoadJob(n)
  BY <1>2, JobKinds, IdleHas, SeedHas, HuntJobHas, BookJobHas
<1>4. JobIds(k) = {} /\ JobNames(k) = {n} /\ k.name = n
  BY Zenon, <1>3, LoadHas DEF LoadJob
<1>5. /\ UNCHANGED <<book, hunt, drops, added, mixed, halted, ops, faults>>
      /\ calm' = (calm /\ ~Filling("hunt"))
  BY Zenon DEF LoadForParticipant
<1>6. calm' \in BOOLEAN /\ (calm' => calm) /\ halted' \in BOOLEAN /\ (halted => halted')
  BY Zenon, <1>5 DEF Shape
<1>7. ops' \in 0..MaxOps /\ faults' \in 0..MaxFaults
  BY Zenon, <1>5 DEF Shape
<1>8. SUFFICES \E j : /\ Goto(p, j) /\ IsJob(j, drops) /\ j.pc # "fill" /\ NoBook(j)
                      /\ JobNames(j) \subseteq Names(hunt) \cup {n}
  <2>1. PICK j : /\ Goto(p, j) /\ IsJob(j, drops) /\ j.pc # "fill" /\ NoBook(j)
                 /\ JobNames(j) \subseteq Names(hunt) \cup {n}
    BY Zenon, <1>8
  <2>2. Does(p, job'[p]) /\ job'[p] = j
    BY Zenon, <2>1, GotoDoes DEF Does
  <2>3. Reads(p)
    BY Zenon, <1>1, <1>2, <1>5, <1>6, <1>7, <2>1, <2>2 DEF Reads
  <2>4. IdsKept(p) /\ NamesKept(p)
    BY Zenon, <1>1, <1>4, <1>5, <2>1, <2>2 DEF IdsKept, NamesKept
  <2> QED
    BY Zenon, <1>5, <2>1, <2>2, <2>3, <2>4
<1>9. CASE h.state # "json"
  <2>1. Goto(p, Idle)
    BY Zenon, <1>1, <1>9 DEF LoadForParticipant
  <2> QED
    BY Zenon, <2>1, IdleHas
<1>10. CASE h.state = "json"
  <2>1. PICK ps, v, j :
          /\ ps = IF n \in ToSet(h.participants) THEN h.participants ELSE Append(h.participants, n)
          /\ v = Json(ps, h.drops) /\ j = WriteJob("write", "hunt", h, v)
    BY Zenon
  <2>2. Goto(p, j)
    BY Zenon, <1>1, <1>4, <1>10, <2>1 DEF LoadForParticipant, Rewrite, Content, WriteJob
  <2>3. Sound(h, drops)
    BY Zenon, <1>2, <1>10, NoHunt DEF IsHunt
  <2>4. Sound(v, drops) /\ IdsOf(v) = IdsOf(h) /\ Names(v) = Names(h) \cup {n}
    BY ZenonT(40), <2>1, <2>3, SoundParticipant
  <2>5. j.pc # "fill" /\ NoBook(j) /\ JobNames(j) = Names(v) /\ IsJob(j, drops)
    BY SMTT(40), <1>2, <2>1, <2>4, HuntJobHas
  <2> QED
    BY Zenon, <1>1, <2>2, <2>4, <2>5
<1> QED
  BY Zenon, <1>9, <1>10

\* The job of hunt_seed in its loop.
LEMMA SeedKind ==
  ASSUME Shape, NEW p \in Proc, job[p].pc = "seed"
  PROVE  \E r, v, a : /\ job[p] = SeedJob(r, v, a) /\ a \in Nat \ {0} /\ Sound(r, drops)
                      /\ Sound(v, drops) /\ v.participants # <<>> /\ IdsOf(r) \subseteq IdsOf(v)
<1>1. PICK k : k = job[p]
  BY Zenon
<1>2. IsJob(k, drops) /\ k.pc = "seed"
  BY Zenon, <1>1 DEF Shape
<1> QED
  BY <1>1, <1>2, JobKinds, IdleHas, LoadHas, HuntJobHas, BookJobHas

\* hunt_seed has been through all clues and goes on to save the hunt.
LEMMA SeedSaveStep ==
  ASSUME Shape, NEW p \in Proc, SeedSave(p)
  PROVE  Reads(p) /\ IdsKept(p) /\ NamesKept(p) /\ UNCHANGED drops /\ NoBook(job'[p])
<1>1. /\ UNCHANGED <<book, hunt, drops, added, calm, mixed, halted, ops, faults>> /\ job[p].pc = "seed"
      /\ Goto(p, [pc |-> "write", file |-> "hunt", read |-> job[p].read, new |-> job[p].value])
  BY Zenon DEF SeedSave
<1>2. PICK r, v, a : /\ job[p] = SeedJob(r, v, a) /\ a \in Nat \ {0} /\ Sound(r, drops)
                     /\ Sound(v, drops) /\ v.participants # <<>> /\ IdsOf(r) \subseteq IdsOf(v)
  BY Zenon, <1>1, SeedKind
<1>3. PICK k, j : k = job[p] /\ j = WriteJob("write", "hunt", r, v)
  BY Zenon
<1>4. k.read = r /\ k.value = v /\ JobIds(k) = IdsOf(v) /\ JobNames(k) = Names(v)
  BY <1>2, <1>3, SeedHas
<1>5. Goto(p, j)
  BY Zenon, <1>1, <1>3, <1>4 DEF WriteJob
<1>6. /\ j.pc # "fill" /\ NoBook(j) /\ JobNames(j) = Names(v) /\ JobIds(j) = IdsOf(v)
      /\ IsJob(j, drops)
  BY <1>2, <1>3, HuntJobHas DEF IsHunt
<1>7. Does(p, job'[p]) /\ job'[p] = j
  BY Zenon, <1>5, GotoDoes DEF Does
<1>8. Reads(p)
  BY Zenon, <1>1, <1>6, <1>7 DEF Reads, Shape
<1>9. IdsKept(p) /\ NamesKept(p)
  BY Zenon, <1>1, <1>3, <1>4, <1>6, <1>7 DEF IdsKept, NamesKept
<1> QED
  BY Zenon, <1>1, <1>6, <1>7, <1>8, <1>9

\* Created drops are kept; a new one's id is in p's copy of the hunt.
DropsKept(p) ==
  /\ Grows(drops, drops')
  /\ \A d \in DOMAIN drops' : d \in DOMAIN drops \/ d \in JobIds(job'[p])

\* A step that creates no drop keeps what was known of them.
LEMMA SameDrops ==
  ASSUME Shape, UNCHANGED drops, NEW p
  PROVE  DropsKept(p)
BY DEF Shape, DropsKept, Grows

\* create_drop has recipients when it does not refuse.
LEMMA RecipientsAre ==
  ASSUME NEW ns, ns # {}, NEW m, ~Refused(ns, m)
  PROVE  Recipients(ns) \in (SUBSET Contact) \ {{}}
<1>1. \A n \in ns : matching(book, n) # {} /\ matching(book, n) \subseteq Contact
  BY Zenon, MatchingIs DEF Refused
<1> QED
  BY <1>1 DEF Recipients

\* create_drop adds one drop.
LEMMA NewDrop ==
  ASSUME NEW ds \in Seq(Drop), NEW d \in Drop, NEW es, es = Append(ds, d), NEW k, k = Len(ds) + 1
  PROVE  /\ Grows(ds, es) /\ Len(es) = k /\ es[k] = d
         /\ \A i \in DOMAIN es : i \in DOMAIN ds \/ i = k
<1>1. /\ es \in Seq(Drop) /\ Len(ds) \in Nat /\ Len(es) = Len(ds) + 1 /\ es[k] = d
      /\ DOMAIN ds = 1..Len(ds) /\ DOMAIN es = 1..Len(ds) + 1
  OBVIOUS
<1>2. \A i \in 1..Len(ds) : es[i] = ds[i]
  OBVIOUS
<1> QED
  BY <1>1, <1>2 DEF Grows

\* hunt_seed skips a clue that has a drop, or creates one and notes its id.
LEMMA SeedNextStep ==
  ASSUME Shape, NEW p \in Proc, SeedNext(p)
  PROVE  Reads(p) /\ IdsKept(p) /\ NamesKept(p) /\ DropsKept(p) /\ NoBook(job'[p])
<1>1. /\ UNCHANGED <<book, hunt, added, mixed, ops, faults>> /\ calm' = (calm /\ ~Filling("book"))
      /\ job[p].pc = "seed" /\ job[p].at <= Len(job[p].value.drops)
  BY Zenon DEF SeedNext
<1>2. PICK r, v, a : /\ job[p] = SeedJob(r, v, a) /\ a \in Nat \ {0} /\ Sound(r, drops)
                     /\ Sound(v, drops) /\ v.participants # <<>> /\ IdsOf(r) \subseteq IdsOf(v)
  BY Zenon, <1>1, SeedKind
<1>3. PICK jp, ns, m, k : /\ jp = job[p] /\ ns = ToSet(v.participants) /\ m = v.drops[a].clue
                          /\ k = Len(drops) + 1
  BY Zenon
<1>4. /\ jp.pc = "seed" /\ jp.read = r /\ jp.value = v /\ jp.at = a
      /\ JobIds(jp) = IdsOf(v) /\ JobNames(jp) = Names(v)
  BY <1>2, <1>3, SeedHas
<1>5. a \in DOMAIN v.drops /\ v.drops[a] \in Item(drops) /\ m \in Clue
  <2>1. v.drops \in Seq(Item(drops)) /\ a <= Len(v.drops)
    BY Zenon, <1>1, <1>2, <1>3, <1>4 DEF Sound, Truthful
  <2>2. a \in DOMAIN v.drops /\ v.drops[a] \in Item(drops)
    BY <1>2, <2>1
  <2> QED
    BY Zenon, <1>3, <2>2 DEF Item
<1>6. ns # {}
  <2>1. v.participants \in Seq(Name)
    BY Zenon, <1>2 DEF Sound, Distinct
  <2>2. 1 \in DOMAIN v.participants
    BY <1>2, <2>1
  <2> QED
    BY Zenon, <1>3, <2>2 DEF ToSet
<1>7. calm' \in BOOLEAN /\ (calm' => calm)
  BY Zenon, <1>1
<1>8. ops' \in 0..MaxOps /\ faults' \in 0..MaxFaults
  BY Zenon, <1>1 DEF Shape
<1>9. DOMAIN job = Proc /\ drops \in Seq(Drop) /\ halted \in BOOLEAN
  BY Zenon DEF Shape
<1>10. \/ /\ job' = [job EXCEPT ![p].at = @ + 1] /\ UNCHANGED <<drops, halted>>
       \/ /\ v.drops[a].id = NoId /\ ~Refused(ns, m) /\ UNCHANGED halted
          /\ drops' = Append(drops, [clue |-> m, to |-> Recipients(ns)])
          /\ job' = [job EXCEPT ![p].value.drops[a].id = k, ![p].at = @ + 1]
       \/ Goto(p, Idle) /\ halted' = TRUE /\ UNCHANGED drops
  <2>1. job[p].at = a /\ job[p].value = v
    BY Zenon, <1>3, <1>4
  <2> QED
    BY Zenon, <2>1, <1>3 DEF SeedNext
<1>11. CASE job' = [job EXCEPT ![p].at = @ + 1] /\ UNCHANGED <<drops, halted>>
  <2>1. PICK j : j = SeedJob(r, v, a + 1)
    BY Zenon
  <2>2. job' = [job EXCEPT ![p] = j]
    <3>1. [jp EXCEPT !.at = jp.at + 1] = j
      BY <1>2, <1>3, <2>1 DEF SeedJob
    <3> QED
      BY Zenon, <1>3, <1>11, <3>1
  <2>3. Does(p, job'[p]) /\ job'[p] = j
    BY ZenonT(40), <2>2, GotoDoes DEF Goto, Does
  <2>4. /\ j.pc # "fill" /\ NoBook(j) /\ JobNames(j) = Names(v) /\ JobIds(j) = IdsOf(v)
        /\ IsJob(j, drops)
    <3>1. a + 1 \in Nat \ {0}
      BY <1>2
    <3> QED
      BY <1>2, <2>1, <3>1, SeedHas
  <2>5. Reads(p)
    BY Zenon, <1>1, <1>3, <1>4, <1>7, <1>8, <1>9, <1>11, <2>3, <2>4 DEF Reads
  <2>6. IdsKept(p) /\ NamesKept(p)
    BY Zenon, <1>1, <1>3, <1>4, <2>3, <2>4 DEF IdsKept, NamesKept
  <2>7. DropsKept(p)
    BY Zenon, <1>11, SameDrops
  <2> QED
    BY Zenon, <2>3, <2>4, <2>5, <2>6, <2>7
<1>12. CASE Goto(p, Idle) /\ halted' = TRUE /\ UNCHANGED drops
  <2>1. Does(p, job'[p]) /\ job'[p] = Idle
    BY Zenon, <1>12, GotoDoes DEF Does
  <2>2. Reads(p)
    BY Zenon, <1>1, <1>3, <1>4, <1>7, <1>8, <1>12, <2>1, IdleHas DEF Reads
  <2>3. IdsKept(p) /\ NamesKept(p)
    BY Zenon, <1>1, <1>12, <2>1, IdleHas DEF IdsKept, NamesKept
  <2> QED
    BY Zenon, <1>12, <2>1, <2>2, <2>3, IdleHas, SameDrops
<1>13. CASE /\ v.drops[a].id = NoId /\ ~Refused(ns, m) /\ UNCHANGED halted
            /\ drops' = Append(drops, [clue |-> m, to |-> Recipients(ns)])
            /\ job' = [job EXCEPT ![p].value.drops[a].id = k, ![p].at = @ + 1]
  <2>1. PICK to, d, w, j : /\ to = Recipients(ns) /\ d = [clue |-> m, to |-> to]
                           /\ w = [v EXCEPT !.drops[a].id = k] /\ j = SeedJob(r, w, a + 1)
    BY Zenon
  <2>2. PICK ds, es : ds = drops /\ es = drops'
    BY Zenon
  <2>3. to \in (SUBSET Contact) \ {{}}
    BY Zenon, <1>6, <1>13, <2>1, RecipientsAre
  <2>4. ds \in Seq(Drop) /\ d \in Drop /\ d.clue = m /\ es = Append(ds, d) /\ k = Len(ds) + 1
    BY Zenon, <1>3, <1>5, <1>9, <1>13, <2>1, <2>2, <2>3 DEF Drop
  <2>5. /\ Grows(ds, es) /\ Len(es) = k /\ es[k] = d
        /\ \A i \in DOMAIN es : i \in DOMAIN ds \/ i = k
    BY ZenonT(40), <2>4, NewDrop
  <2>6. Sound(r, ds) /\ Sound(v, ds) /\ es[k].clue = v.drops[a].clue
    BY Zenon, <1>2, <1>3, <2>2, <2>4, <2>5
  <2>7. Sound(w, es) /\ w.participants = v.participants /\ IdsOf(w) = IdsOf(v) \cup {k} /\ Names(w) = Names(v)
    <3>1. /\ a \in DOMAIN v.drops /\ v.drops[a].id = NoId
          /\ w = [v EXCEPT !.drops[a].id = k] /\ k = Len(ds) + 1
      BY Zenon, <1>5, <1>13, <2>1, <2>4
    <3> QED
      BY SMTT(30), <2>5, <2>6, <3>1, SoundSeeds
  <2>8. Sound(r, es)
    BY Zenon, <2>5, <2>6, SoundGrows
  <2>9. job' = [job EXCEPT ![p] = j]
    BY SMTT(30), <1>2, <1>9, <1>13, <2>1 DEF SeedJob
  <2>10. Does(p, job'[p]) /\ job'[p] = j
    BY Zenon, <2>9, GotoDoes DEF Goto, Does
  <2>11. /\ j.pc # "fill" /\ NoBook(j) /\ JobNames(j) = Names(w) /\ JobIds(j) = IdsOf(w)
         /\ IsJob(j, es)
    <3>1. a + 1 \in Nat \ {0} /\ IdsOf(r) \subseteq IdsOf(w) /\ w.participants # <<>>
      BY <1>2, <2>7
    <3>2. j = SeedJob(r, w, a + 1) /\ Sound(w, es)
      BY Zenon, <2>1, <2>7
    <3> QED
      BY <2>8, <3>1, <3>2, SeedHas
  <2>12. Reads(p)
    BY Zenon, <1>1, <1>3, <1>4, <1>7, <1>8, <1>9, <1>13, <2>2, <2>10, <2>11 DEF Reads
  <2>13. IdsKept(p) /\ NamesKept(p)
    BY SMTT(40), <1>1, <1>3, <1>4, <2>7, <2>10, <2>11 DEF IdsKept, NamesKept
  <2>14. DropsKept(p)
    <3>1. k \in JobIds(job'[p])
      BY Zenon, <2>7, <2>10, <2>11
    <3> QED
      BY Zenon, <2>2, <2>5, <3>1 DEF DropsKept
  <2> QED
    BY Zenon, <2>10, <2>11, <2>12, <2>13, <2>14
<1> QED
  BY Zenon, <1>10, <1>11, <1>12, <1>13

\* The job of a command that writes a file.
LEMMA WriteKind ==
  ASSUME Shape, NEW p \in Proc, job[p].pc \in {"write", "fill"}
  PROVE  \E file \in {"book", "hunt"} : \E r, v :
           /\ job[p] = WriteJob(job[p].pc, file, r, v)
           /\ file = "book" => r \in Seq(Line) /\ v \in Seq(Line) /\ v # <<>>
           /\ file = "hunt" => IsHunt(r, drops) /\ Sound(v, drops) /\ IdsOf(r) \subseteq IdsOf(v)
<1>1. PICK k : k = job[p]
  BY Zenon
<1>2. IsJob(k, drops) /\ k.pc \in {"write", "fill"}
  BY Zenon, <1>1 DEF Shape
<1>3. \/ \E pc \in {"write", "fill"} : \E r, v :
           /\ k = WriteJob(pc, "book", r, v)
           /\ r \in Seq(Line) /\ v \in Seq(Line) /\ v # <<>>
      \/ \E pc \in {"write", "fill"} : \E r, v :
           /\ k = WriteJob(pc, "hunt", r, v)
           /\ IsHunt(r, drops) /\ Sound(v, drops) /\ IdsOf(r) \subseteq IdsOf(v)
  BY SMTT(40), <1>2, JobKinds, IdleHas, LoadHas, SeedHas
<1>4. CASE \E pc \in {"write", "fill"} : \E r, v :
             /\ k = WriteJob(pc, "book", r, v)
             /\ r \in Seq(Line) /\ v \in Seq(Line) /\ v # <<>>
  <2>1. PICK pc, r, v :
          /\ pc \in {"write", "fill"}
          /\ k = WriteJob(pc, "book", r, v) /\ r \in Seq(Line) /\ v \in Seq(Line) /\ v # <<>>
    BY <1>4
  <2>2. k.pc = pc
    BY <2>1, BookJobHas
  <2> QED
    BY Zenon, <1>1, <2>1, <2>2
<1>5. CASE \E pc \in {"write", "fill"} : \E r, v :
             /\ k = WriteJob(pc, "hunt", r, v)
             /\ IsHunt(r, drops) /\ Sound(v, drops) /\ IdsOf(r) \subseteq IdsOf(v)
  <2>1. PICK pc, r, v :
          /\ pc \in {"write", "fill"}
          /\ k = WriteJob(pc, "hunt", r, v)
          /\ IsHunt(r, drops) /\ Sound(v, drops) /\ IdsOf(r) \subseteq IdsOf(v)
    BY <1>5
  <2>2. k.pc = pc
    BY <2>1, HuntJobHas
  <2> QED
    BY Zenon, <1>1, <2>1, <2>2
<1> QED
  BY Zenon, <1>3, <1>4, <1>5

\* What is true of what a writer read and will write.
Copies(file, r, v) ==
  /\ file \in {"book", "hunt"}
  /\ file = "book" => r \in Seq(Line) /\ v \in Seq(Line) /\ v # <<>>
  /\ file = "hunt" => IsHunt(r, drops) /\ Sound(v, drops) /\ IdsOf(r) \subseteq IdsOf(v)

\* fs::write empties the file.
Truncates(p, file, r, v) ==
  /\ Copies(file, r, v)
  /\ job[p] = WriteJob("write", file, r, v) /\ Does(p, WriteJob("fill", file, r, v))
  /\ file = "book" => book' = <<>> /\ UNCHANGED hunt
  /\ file = "hunt" => hunt' = Torn /\ UNCHANGED book
  /\ UNCHANGED <<drops, added, halted, ops, faults>>
  /\ calm' \in BOOLEAN
  /\ calm' => calm /\ ~Filling(file) /\ r = Content(file)
  /\ mixed' = (mixed \/ (file = "book" /\ Filling("book")))

\* fs::write fills the file, and the command is done.
Finishes(p, file, r, v) ==
  /\ Copies(file, r, v)
  /\ job[p] = WriteJob("fill", file, r, v) /\ Does(p, Idle)
  /\ file = "book" =>
       /\ UNCHANGED hunt
       /\ \E rest \in Leftovers(v, book) : book' = v \o rest
       /\ added' = IF Last(v) \in Contact THEN added \cup {Last(v)} ELSE added
  /\ file = "hunt" =>
       /\ UNCHANGED <<book, added>>
       /\ hunt' \in {v, Torn} /\ (hunt = Torn => hunt' = v)
  /\ UNCHANGED <<drops, calm, mixed, halted, ops, faults>>

\* fs::write is cut short.
Breaks(p, file, r, v) ==
  /\ Copies(file, r, v)
  /\ job[p] = WriteJob("fill", file, r, v) /\ Does(p, Idle)
  /\ file = "book" => book' \in Cuts(v) /\ UNCHANGED hunt
  /\ file = "hunt" => hunt' \in {Torn, v} /\ UNCHANGED book
  /\ calm' = FALSE /\ halted' = halted /\ faults' \in 0..MaxFaults
  /\ UNCHANGED <<drops, added, mixed, ops>>

\* The parts of such a job.
LEMMA WriteJobHas ==
  ASSUME NEW pc, NEW file, NEW r, NEW v, NEW j, j = WriteJob(pc, file, r, v)
  PROVE  j.pc = pc /\ j.file = file /\ j.read = r /\ j.new = v
BY Zenon DEF WriteJob

\* fs::write, first half.
LEMMA TruncateStep ==
  ASSUME Shape, NEW p \in Proc, Truncate(p)
  PROVE  \E file, r, v : Truncates(p, file, r, v)
<1>1. job[p].pc = "write"
  BY Zenon DEF Truncate
<1>2. PICK file, r, v : job[p] = WriteJob("write", file, r, v) /\ Copies(file, r, v)
  BY Zenon, <1>1, WriteKind DEF Copies
<1>3. PICK k, j : k = job[p] /\ j = WriteJob("fill", file, r, v)
  BY Zenon
<1>4. k.file = file /\ k.read = r /\ [k EXCEPT !.pc = "fill"] = j
  BY <1>2, <1>3 DEF WriteJob
<1>5. Does(p, j)
  <2>1. Goto(p, j)
    BY Zenon, <1>3, <1>4 DEF Truncate
  <2> QED
    BY Zenon, <2>1, GotoDoes
<1>6. /\ Store(file, Empty(file)) /\ calm' = (calm /\ Content(file) = r /\ ~Filling(file))
      /\ mixed' = (mixed \/ (file = "book" /\ Filling("book")))
      /\ UNCHANGED <<drops, added, halted, ops, faults>>
  BY Zenon, <1>3, <1>4 DEF Truncate
<1>7. calm' \in BOOLEAN /\ (calm' => calm /\ ~Filling(file) /\ r = Content(file))
  BY Zenon, <1>6
<1>8. /\ file = "book" => book' = <<>> /\ UNCHANGED hunt
      /\ file = "hunt" => hunt' = Torn /\ UNCHANGED book
  BY Zenon, <1>6 DEF Store, Empty
<1>9. Truncates(p, file, r, v)
  BY Zenon, <1>2, <1>3, <1>5, <1>6, <1>7, <1>8 DEF Truncates
<1> QED
  BY Zenon, <1>9

\* fs::write, second half.
LEMMA FillStep ==
  ASSUME Shape, NEW p \in Proc, Fill(p)
  PROVE  \E file, r, v : Finishes(p, file, r, v)
<1>1. job[p].pc = "fill" /\ Goto(p, Idle) /\ UNCHANGED <<drops, calm, mixed, halted, ops, faults>>
  BY Zenon DEF Fill
<1>2. PICK file, r, v : job[p] = WriteJob("fill", file, r, v) /\ Copies(file, r, v)
  BY Zenon, <1>1, WriteKind DEF Copies
<1>3. job[p].file = file /\ job[p].new = v
  BY <1>2, WriteJobHas
<1>4. Does(p, Idle)
  BY Zenon, <1>1, GotoDoes
<1>5. /\ file = "book" =>
           /\ UNCHANGED hunt
           /\ \E rest \in Leftovers(v, book) : book' = v \o rest
           /\ added' = IF Last(v) \in Contact THEN added \cup {Last(v)} ELSE added
      /\ file = "hunt" =>
           /\ UNCHANGED <<book, added>>
           /\ hunt' \in IF hunt = Torn THEN {v} ELSE {v, Torn}
  BY Zenon, <1>3 DEF Fill
<1>6. Finishes(p, file, r, v)
  BY Zenon, <1>1, <1>2, <1>4, <1>5 DEF Finishes
<1> QED
  BY Zenon, <1>6

\* A command is cut short: in memory, or with its file torn.
LEMMA CrashStep ==
  ASSUME Shape, NEW p \in Proc, Crash(p)
  PROVE  \/ Reads(p) /\ IdsKept(p) /\ NamesKept(p) /\ UNCHANGED drops /\ NoBook(job'[p])
         \/ \E file, r, v : Breaks(p, file, r, v)
<1>1. /\ Goto(p, Idle) /\ UNCHANGED <<drops, added, mixed, ops>>
      /\ faults < MaxFaults /\ faults' = faults + 1
      /\ halted' = (halted \/ job[p].pc \in {"seed", "write"})
  BY Zenon DEF Crash
<1>2. Does(p, Idle) /\ Does(p, job'[p]) /\ job'[p] = Idle
  BY Zenon, <1>1, GotoDoes DEF Does
<1>3. faults' \in 0..MaxFaults /\ ops' \in 0..MaxOps
  BY <1>1, BoundAssumption DEF Shape
<1>4. halted' \in BOOLEAN /\ (halted => halted') /\ (job[p].pc \in {"seed", "write"} => halted')
  BY Zenon, <1>1
<1>5. CASE job[p].pc # "fill"
  <2>1. UNCHANGED <<book, hunt, calm>>
    BY Zenon, <1>5 DEF Crash
  <2>2. Reads(p)
    BY Zenon, <1>1, <1>2, <1>3, <1>4, <1>5, <2>1, IdleHas DEF Reads, Shape
  <2>3. ASSUME ~halted' PROVE JobIds(job[p]) = {}
    <3>1. job[p].pc # "seed" /\ job[p].pc \notin {"write", "fill"}
      BY Zenon, <1>4, <1>5, <2>3
    <3> QED
      BY Zenon, <3>1 DEF JobIds
  <2>4. IdsKept(p) /\ NamesKept(p)
    BY Zenon, <1>2, <2>1, <2>3, IdleHas DEF IdsKept, NamesKept
  <2> QED
    BY Zenon, <1>1, <1>2, <2>2, <2>4, IdleHas
<1>6. CASE job[p].pc = "fill"
  <2>1. PICK file, r, v : job[p] = WriteJob("fill", file, r, v) /\ Copies(file, r, v)
    BY Zenon, <1>6, WriteKind DEF Copies
  <2>2. job[p].file = file /\ job[p].new = v
    BY <2>1, WriteJobHas
  <2>3. /\ calm' = FALSE
        /\ file = "book" => book' \in Cuts(v) /\ UNCHANGED hunt
        /\ file = "hunt" => hunt' \in {Torn, v} /\ UNCHANGED book
    BY Zenon, <1>6, <2>2 DEF Crash
  <2>4. halted' = halted
    <3>1. job[p].pc \notin {"seed", "write"} /\ halted \in BOOLEAN
      BY Zenon, <1>6 DEF Shape
    <3> QED
      BY Zenon, <1>1, <3>1
  <2>5. Breaks(p, file, r, v)
    BY Zenon, <1>1, <1>2, <1>3, <2>1, <2>3, <2>4 DEF Breaks
  <2> QED
    BY Zenon, <2>5
<1> QED
  BY Zenon, <1>5, <1>6

\* The kinds of steps there are.
StepKind(p) ==
  \/ Reads(p) /\ IdsKept(p) /\ NamesKept(p) /\ DropsKept(p) /\ NoBook(job'[p])
  \/ \E c \in Contact : AddContact(p, c) \/ AddContactUnread(p, c)
  \/ \E n \in Name : CheckContact(p, n)
  \/ \E file, r, v : Truncates(p, file, r, v) \/ Finishes(p, file, r, v) \/ Breaks(p, file, r, v)

\* Every step is one of these.
LEMMA StepKinds ==
  ASSUME Shape, Next
  PROVE  \E p \in Proc : StepKind(p)
<1>1. PICK p \in Proc : \/ \E c \in Contact : AddContact(p, c) \/ AddContactUnread(p, c)
                        \/ Create(p)
                        \/ \E n \in Name : CheckContact(p, n)
                        \/ \E m \in Clue : AddDrop(p, m)
                        \/ Seed(p)
                        \/ Step(p)
  BY Zenon DEF Next
<1>2. SUFFICES StepKind(p)
  BY Zenon
<1>3. CASE \/ \E c \in Contact : AddContact(p, c) \/ AddContactUnread(p, c)
           \/ \E n \in Name : CheckContact(p, n)
  BY Zenon, <1>3 DEF StepKind
<1>4. CASE Create(p) \/ (\E m \in Clue : AddDrop(p, m)) \/ Seed(p)
  BY Zenon, <1>4, OpenStep, SameDrops DEF StepKind
<1>5. CASE LoadForParticipant(p)
  BY Zenon, <1>5, LoadStep, SameDrops DEF StepKind
<1>6. CASE SeedNext(p)
  BY Zenon, <1>6, SeedNextStep DEF StepKind
<1>7. CASE SeedSave(p)
  BY Zenon, <1>7, SeedSaveStep, SameDrops DEF StepKind
<1>8. CASE Truncate(p)
  BY Zenon, <1>8, TruncateStep DEF StepKind
<1>9. CASE Fill(p)
  BY Zenon, <1>9, FillStep DEF StepKind
<1>10. CASE Crash(p)
  BY Zenon, <1>10, CrashStep, SameDrops DEF StepKind
<1> QED
  BY Zenon, <1>1, <1>3, <1>4, <1>5, <1>6, <1>7, <1>8, <1>9, <1>10 DEF Step

\* What a step of p has to show to keep the types.
LEMMA ShapeFrom ==
  ASSUME Shape, NEW p \in Proc, Does(p, job'[p]), IsJob(job'[p], drops'), DropsKept(p),
         book' \in Seq(Line), IsHunt(hunt', drops'), added' \subseteq Contact,
         calm' \in BOOLEAN, mixed' \in BOOLEAN, halted' \in BOOLEAN,
         ops' \in 0..MaxOps, faults' \in 0..MaxFaults
  PROVE  Shape'
<1>1. ASSUME NEW q \in Proc PROVE IsJob(job'[q], drops')
  <2>1. CASE q = p
    BY Zenon, <2>1
  <2>2. CASE q # p
    <3>1. PICK k : k = job[q]
      BY Zenon
    <3>2. IsJob(k, drops) /\ job'[q] = k
      BY Zenon, <2>2, <3>1 DEF Shape, Does
    <3>3. PICK ds, es : ds = drops /\ es = drops'
      BY Zenon
    <3>4. Grows(ds, es)
      BY Zenon, <3>3 DEF DropsKept
    <3>5. IsJob(k, es)
      BY Zenon, <3>2, <3>3, <3>4, JobGrows
    <3> QED
      BY Zenon, <3>2, <3>3, <3>5
  <2> QED
    BY Zenon, <2>1, <2>2
<1>2. DOMAIN job' = Proc
  BY Zenon DEF Does
<1>3. drops' \in Seq(Drop)
  BY Zenon DEF DropsKept, Grows
<1> QED
  BY Zenon, <1>1, <1>2, <1>3 DEF Shape

\* A step that writes no file keeps the types.
LEMMA ShapeReads ==
  ASSUME Shape, NEW p \in Proc, Reads(p), DropsKept(p)
  PROVE  Shape'
<1>1. PICK h, ds, es : h = hunt /\ ds = drops /\ es = drops'
  BY Zenon
<1>2. Grows(ds, es)
  BY Zenon, <1>1 DEF DropsKept
<1>3. IsHunt(h, ds)
  BY Zenon, <1>1 DEF Shape
<1>4. IsHunt(h, es)
  BY Zenon, <1>2, <1>3, SoundGrows DEF IsHunt
<1>5. hunt' = h /\ book' \in Seq(Line) /\ added' \subseteq Contact /\ mixed' \in BOOLEAN
  BY Zenon, <1>1 DEF Reads, Shape
<1>6. IsHunt(hunt', drops')
  BY Zenon, <1>1, <1>4, <1>5
<1> QED
  BY Zenon, <1>5, <1>6, ShapeFrom DEF Reads

\* Every step keeps the types, and the hunt true.
LEMMA ShapeStep ==
  ASSUME Shape, [Next]_vars
  PROVE  Shape'
<1>1. CASE UNCHANGED vars
  BY Zenon, <1>1 DEF vars, Shape
<1>2. CASE Next
  <2>1. PICK p \in Proc : StepKind(p)
    BY Zenon, <1>2, StepKinds
  <2>2. CASE Reads(p) /\ DropsKept(p)
    BY Zenon, <2>2, ShapeReads
  <2>3. CASE \E c \in Contact : AddContact(p, c) \/ AddContactUnread(p, c)
    BY Zenon, <2>3, AddContactStep, AddUnreadStep, SameDrops, ShapeReads
  <2>4. CASE \E n \in Name : CheckContact(p, n)
    BY Zenon, <2>4, CheckContactStep, SameDrops, ShapeReads
  <2>5. ASSUME NEW file, NEW r, NEW v, Truncates(p, file, r, v) PROVE Shape'
    <3>1. PICK j : j = WriteJob("fill", file, r, v)
      BY Zenon
    <3>2. UNCHANGED <<drops, added, halted, ops, faults>> /\ calm' \in BOOLEAN /\ Copies(file, r, v)
      BY Zenon, <2>5 DEF Truncates
    <3>3. Does(p, job'[p]) /\ job'[p] = j
      BY Zenon, <2>5, <3>1 DEF Truncates, Does
    <3>4. IsJob(j, drops)
      BY <3>1, <3>2, HuntJobHas, BookJobHas DEF Copies
    <3>5. book' \in Seq(Line) /\ IsHunt(hunt', drops)
      <4>1. CASE file = "book"
        BY <2>5, <4>1 DEF Shape, Truncates
      <4>2. CASE file = "hunt"
        BY Zenon, <2>5, <4>2 DEF Shape, Truncates, IsHunt
      <4> QED
        BY Zenon, <3>2, <4>1, <4>2 DEF Copies
    <3>6. DropsKept(p)
      BY Zenon, <3>2, SameDrops
    <3>7. /\ IsJob(job'[p], drops') /\ IsHunt(hunt', drops')
          /\ added' \subseteq Contact /\ halted' \in BOOLEAN
          /\ ops' \in 0..MaxOps /\ faults' \in 0..MaxFaults
      BY Zenon, <3>2, <3>3, <3>4, <3>5 DEF Shape
    <3>8. mixed' \in BOOLEAN
      BY Zenon, <2>5 DEF Truncates
    <3> QED
      BY Zenon, <3>2, <3>3, <3>5, <3>6, <3>7, <3>8, ShapeFrom
  <2>6. ASSUME NEW file, NEW r, NEW v, Finishes(p, file, r, v) PROVE Shape'
    <3>1. UNCHANGED <<drops, calm, mixed, halted, ops, faults>> /\ Copies(file, r, v)
      BY Zenon, <2>6 DEF Finishes
    <3>2. Does(p, job'[p]) /\ job'[p] = Idle
      BY Zenon, <2>6 DEF Finishes, Does
    <3>3. book' \in Seq(Line) /\ IsHunt(hunt', drops) /\ added' \subseteq Contact
      <4>1. CASE file = "book"
        <5>1. PICK rest \in Leftovers(v, book) : book' = v \o rest
          BY Zenon, <2>6, <4>1 DEF Finishes
        <5>2. v \in Seq(Line) /\ rest \in Seq(Line)
          BY Zenon, <3>1, <4>1, LeftoversAre DEF Copies, Shape
        <5>3. book' \in Seq(Line)
          BY <5>1, <5>2
        <5> QED
          BY Zenon, <2>6, <4>1, <5>3 DEF Finishes, Shape
      <4>2. CASE file = "hunt"
        BY Zenon, <2>6, <3>1, <4>2 DEF Finishes, Shape, Copies, IsHunt
      <4> QED
        BY Zenon, <3>1, <4>1, <4>2 DEF Copies
    <3>4. DropsKept(p)
      BY Zenon, <3>1, SameDrops
    <3>5. /\ IsJob(job'[p], drops') /\ IsHunt(hunt', drops')
          /\ calm' \in BOOLEAN /\ mixed' \in BOOLEAN /\ halted' \in BOOLEAN
          /\ ops' \in 0..MaxOps /\ faults' \in 0..MaxFaults
      BY Zenon, <3>1, <3>2, <3>3, IdleHas DEF Shape
    <3> QED
      BY Zenon, <3>2, <3>3, <3>4, <3>5, ShapeFrom
  <2>7. ASSUME NEW file, NEW r, NEW v, Breaks(p, file, r, v) PROVE Shape'
    <3>1. /\ UNCHANGED <<drops, added, mixed, ops>> /\ calm' = FALSE /\ halted' = halted
          /\ faults' \in 0..MaxFaults /\ Copies(file, r, v)
      BY Zenon, <2>7 DEF Breaks
    <3>2. Does(p, job'[p]) /\ job'[p] = Idle
      BY Zenon, <2>7 DEF Breaks, Does
    <3>3. book' \in Seq(Line) /\ IsHunt(hunt', drops)
      <4>1. CASE file = "book"
        BY Zenon, <2>7, <3>1, <4>1, CutsAre DEF Breaks, Shape, Copies
      <4>2. CASE file = "hunt"
        BY Zenon, <2>7, <3>1, <4>2 DEF Breaks, Shape, Copies, IsHunt
      <4> QED
        BY Zenon, <3>1, <4>1, <4>2 DEF Copies
    <3>4. DropsKept(p)
      BY Zenon, <3>1, SameDrops
    <3>5. /\ IsJob(job'[p], drops') /\ IsHunt(hunt', drops') /\ added' \subseteq Contact
          /\ calm' \in BOOLEAN /\ mixed' \in BOOLEAN /\ halted' \in BOOLEAN /\ ops' \in 0..MaxOps
      BY Zenon, <3>1, <3>2, <3>3, IdleHas DEF Shape
    <3> QED
      BY Zenon, <3>1, <3>2, <3>3, <3>4, <3>5, ShapeFrom
  <2> QED
    BY Zenon, <2>1, <2>2, <2>3, <2>4, <2>5, <2>6, <2>7 DEF StepKind
<1> QED
  BY Zenon, <1>1, <1>2

-----------------------------------------------------------------------------
(* The files *)

\* One command at a time fills a file.
LEMMA FillInvStep ==
  ASSUME Shape, FillInv, [Next]_vars
  PROVE  FillInv'
<1>1. SUFFICES ASSUME calm', NEW x \in Proc, NEW f \in {"book", "hunt"}, Fills(x, f)'
               PROVE  Content(f)' = Empty(f) /\ \A y \in Proc : Fills(y, f)' => y = x
  BY Zenon DEF FillInv, Empty
<1>2. ASSUME calm
      PROVE  \A q \in Proc, g \in {"book", "hunt"} :
               Fills(q, g) => Content(g) = Empty(g) /\ \A y \in Proc : Fills(y, g) => y = q
  BY Zenon, <1>2 DEF FillInv
<1>3. CASE UNCHANGED vars
  BY Zenon, <1>1, <1>2, <1>3 DEF vars, Fills, Content
<1>4. CASE Next
  <2>1. PICK p \in Proc : StepKind(p)
    BY Zenon, <1>4, StepKinds
  <2>2. CASE Reads(p)
    <3>1. calm /\ UNCHANGED <<book, hunt>>
      BY Zenon, <1>1, <2>2 DEF Reads
    <3>2. \A q \in Proc : Fills(q, f)' <=> Fills(q, f)
      BY Zenon, <2>2 DEF Reads, Does, Fills
    <3>3. Content(f)' = Content(f)
      BY Zenon, <3>1 DEF Content
    <3> QED
      BY Zenon, <1>1, <1>2, <3>1, <3>2, <3>3
  <2>3. CASE \/ \E c \in Contact : AddContact(p, c) \/ AddContactUnread(p, c)
             \/ \E n \in Name : CheckContact(p, n)
    BY Zenon, <2>2, <2>3, AddContactStep, AddUnreadStep, CheckContactStep
  <2>4. ASSUME NEW g, NEW r, NEW v, Truncates(p, g, r, v)
        PROVE  Content(f)' = Empty(f) /\ \A y \in Proc : Fills(y, f)' => y = x
    <3>1. calm /\ ~Filling(g) /\ g \in {"book", "hunt"}
      BY Zenon, <1>1, <2>4 DEF Truncates, Copies
    <3>2. /\ Fills(p, f)' <=> f = g
          /\ ~Fills(p, f)
          /\ \A q \in Proc : q # p => (Fills(q, f)' <=> Fills(q, f))
      BY <2>4, WriteJobHas DEF Truncates, Does, Fills
    <3>3. CASE f = g
      <4>1. \A q \in Proc : ~Fills(q, f)
        BY Zenon, <3>1, <3>3 DEF Filling, Fills
      <4>2. Content(f)' = Empty(f)
        BY Zenon, <2>4, <3>1, <3>3 DEF Truncates, Content, Empty
      <4> QED
        BY Zenon, <1>1, <3>2, <4>1, <4>2
    <3>4. CASE f # g
      <4>1. Content(f)' = Content(f)
        BY <2>4, <3>1, <3>4 DEF Truncates, Content
      <4> QED
        BY Zenon, <1>1, <1>2, <3>1, <3>2, <3>4, <4>1
    <3> QED
      BY Zenon, <3>3, <3>4
  <2>5. ASSUME NEW g, NEW r, NEW v, Finishes(p, g, r, v)
        PROVE  Content(f)' = Empty(f) /\ \A y \in Proc : Fills(y, f)' => y = x
    <3>1. calm /\ g \in {"book", "hunt"}
      BY Zenon, <1>1, <2>5 DEF Finishes, Copies
    <3>2. /\ Fills(p, f)' = FALSE
          /\ Fills(p, g)
          /\ \A q \in Proc : q # p => (Fills(q, f)' <=> Fills(q, f))
      BY <2>5, WriteJobHas, IdleHas DEF Finishes, Does, Fills
    <3>3. f # g
      BY Zenon, <1>1, <1>2, <3>1, <3>2
    <3>4. Content(f)' = Content(f)
      BY <2>5, <3>1, <3>3 DEF Finishes, Content
    <3> QED
      BY Zenon, <1>1, <1>2, <3>1, <3>2, <3>4
  <2>6. ASSUME NEW g, NEW r, NEW v, Breaks(p, g, r, v) PROVE FALSE
    BY Zenon, <1>1, <2>6 DEF Breaks
  <2> QED
    BY Zenon, <2>1, <2>2, <2>3, <2>4, <2>5, <2>6 DEF StepKind
<1> QED
  BY Zenon, <1>3, <1>4

\* How the participants change.
LEMMA ListedStep ==
  ASSUME NEW p \in Proc, NEW ns, Does(p, job'[p]),
         Names(hunt') \cup JobNames(job'[p]) \subseteq Names(hunt) \cup JobNames(job[p]) \cup ns
  PROVE  Listed' \subseteq Listed \cup ns
<1>1. SUFFICES ASSUME NEW n, n \in Names(hunt') \/ \E q \in Proc : n \in JobNames(job'[q])
               PROVE  n \in Names(hunt) \cup ns \/ \E q \in Proc : n \in JobNames(job[q])
  BY Zenon DEF Listed
<1>2. CASE n \in Names(hunt')
  BY Zenon, <1>2
<1>3. ASSUME NEW q \in Proc, n \in JobNames(job'[q])
      PROVE  n \in Names(hunt) \cup ns \/ \E y \in Proc : n \in JobNames(job[y])
  <2>1. CASE q = p
    BY Zenon, <1>3, <2>1
  <2>2. CASE q # p
    <3>1. job'[q] = job[q]
      BY Zenon, <2>2 DEF Does
    <3> QED
      BY Zenon, <1>3, <3>1
  <2> QED
    BY Zenon, <2>1, <2>2
<1> QED
  BY Zenon, <1>1, <1>2, <1>3

\* Whoever knows all contacts knows some of them.
LEMMA KnowsLess ==
  ASSUME NEW b, NEW all, NEW names, KnowsAll(b, all, names), NEW less, NEW few,
         less \subseteq all, few \subseteq names
  PROVE  KnowsAll(b, less, few)
BY Zenon DEF KnowsAll

\* What the contacts file holds after one more line.
LEMMA KnowsAppend ==
  ASSUME NEW b, NEW all, NEW names, KnowsAll(b, all, names), NEW c \in Contact, NEW t, t = Append(b, c)
  PROVE  KnowsAll(t, all \cup {c}, names) /\ KnowsAll(t, all, names) /\ Last(t) = c
<1>1. b \in Seq(Contact) /\ all \subseteq ToSet(b) /\ \A n \in names : \E k \in ToSet(b) : k.name = n
  BY Zenon DEF KnowsAll
<1>2. ToSet(t) = ToSet(b) \cup {c}
  BY <1>1, ToSetAppend
<1>3. t \in Seq(Contact) /\ Last(t) = c
  BY <1>1 DEF Last
<1> QED
  BY Zenon, <1>1, <1>2, <1>3 DEF KnowsAll

\* The same for a copy in memory.
LEMMA CopyKnowsLess ==
  ASSUME NEW j, NEW all, NEW names, BookCopy(j, all, names), NEW less, NEW few,
         less \subseteq all, few \subseteq names
  PROVE  BookCopy(j, less, few)
BY Zenon, KnowsLess DEF BookCopy

\* Steps that leave the book alone and put no name on the list.
LEMMA BookStays ==
  ASSUME NEW p \in Proc, BookInv, Does(p, job'[p]), UNCHANGED <<book, added>>, calm' => calm,
         NamesKept(p), NoBook(job[p]) \/ job[p].pc # "fill", NoBook(job'[p])
  PROVE  BookInv'
<1>1. SUFFICES ASSUME calm'
               PROVE  /\ ~Filling("book")' => KnowsAll(book, added, Listed')
                      /\ \A q \in Proc : BookCopy(job'[q], added, Listed')
  BY Zenon DEF BookInv
<1>2. /\ ~Filling("book") => KnowsAll(book, added, Listed)
      /\ \A q \in Proc : BookCopy(job[q], added, Listed)
  BY Zenon, <1>1 DEF BookInv
<1>3. Listed' \subseteq Listed
  <2>1. Names(hunt') \cup JobNames(job'[p]) \subseteq Names(hunt) \cup JobNames(job[p]) \cup {}
    BY Zenon DEF NamesKept
  <2> QED
    BY Zenon, <2>1, ListedStep
<1>4. \A q \in Proc : q # p => job'[q] = job[q]
  BY Zenon DEF Does
<1>5. Filling("book")' <=> Filling("book")
  BY Zenon, <1>4 DEF Filling, NoBook
<1>6. ASSUME NEW q \in Proc PROVE BookCopy(job'[q], added, Listed')
  <2>1. CASE q = p
    BY Zenon, <2>1 DEF BookCopy, NoBook
  <2>2. CASE q # p
    <3>1. job'[q] = job[q] /\ BookCopy(job[q], added, Listed)
      BY Zenon, <1>2, <1>4, <2>2
    <3> QED
      BY Zenon, <1>3, <3>1, CopyKnowsLess
  <2> QED
    BY Zenon, <2>1, <2>2
<1> QED
  BY Zenon, <1>2, <1>3, <1>5, <1>6, KnowsLess

\* fs::write on the hunt file.
LEMMA HuntWrites ==
  ASSUME NEW p \in Proc, NEW r, NEW v,
         Truncates(p, "hunt", r, v) \/ Finishes(p, "hunt", r, v)
  PROVE  /\ Does(p, job'[p]) /\ UNCHANGED <<book, added, drops>> /\ (calm' => calm) /\ UNCHANGED halted
         /\ NoBook(job[p]) /\ NoBook(job'[p]) /\ NamesKept(p)
         /\ Truncates(p, "hunt", r, v) => IdsKept(p)
         /\ Finishes(p, "hunt", r, v) /\ hunt = Torn => IdsKept(p)
<1>1. CASE Truncates(p, "hunt", r, v)
  <2>1. PICK k, j : k = WriteJob("write", "hunt", r, v) /\ j = WriteJob("fill", "hunt", r, v)
    BY Zenon
  <2>2. /\ job[p] = k /\ job'[p] = j /\ Does(p, job'[p]) /\ hunt' = Torn
        /\ UNCHANGED <<book, added, drops, halted>> /\ (calm' => calm /\ r = hunt)
        /\ IdsOf(r) \subseteq IdsOf(v)
    BY Zenon, <1>1, <2>1 DEF Truncates, Does, Copies, Content
  <2>3. /\ NoBook(k) /\ NoBook(j) /\ JobNames(k) = Names(v) /\ JobNames(j) = Names(v)
        /\ JobIds(k) = IdsOf(v) /\ JobIds(j) = IdsOf(v) /\ j.pc = "fill" /\ k.pc = "write"
    BY Zenon, <2>1, HuntWriteHas, HuntFillHas
  <2>4. NamesKept(p) /\ IdsKept(p)
    BY Zenon, <2>2, <2>3, NoHunt DEF NamesKept, IdsKept
  <2> QED
    BY Zenon, <2>2, <2>3, <2>4
<1>2. CASE Finishes(p, "hunt", r, v)
  <2>1. PICK k : k = WriteJob("fill", "hunt", r, v)
    BY Zenon
  <2>2. /\ job[p] = k /\ job'[p] = Idle /\ Does(p, job'[p]) /\ (hunt' = v \/ hunt' = Torn)
        /\ UNCHANGED <<book, added, drops, halted, calm>> /\ (hunt = Torn => hunt' = v)
    BY ZenonT(40), <1>2, <2>1 DEF Finishes, Does
  <2>3. NoBook(k) /\ JobNames(k) = Names(v) /\ JobIds(k) = IdsOf(v) /\ k.pc = "fill"
    BY Zenon, <2>1, HuntFillHas
  <2>4. NamesKept(p)
    BY Zenon, <2>2, <2>3, NoHunt, IdleHas DEF NamesKept
  <2>5. hunt = Torn => IdsKept(p)
    BY ZenonT(40), <2>2, <2>3, NoHunt, IdleHas DEF IdsKept
  <2>6. ~Truncates(p, "hunt", r, v)
    <3>1. k # WriteJob("write", "hunt", r, v)
      <4>1. "fill" # "write"
        BY Zenon
      <4> QED
        BY Zenon, <2>3, <4>1, HuntWriteHas
    <3> QED
      BY Zenon, <2>2, <3>1 DEF Truncates
  <2> QED
    BY Zenon, <2>2, <2>3, <2>4, <2>5, <2>6, IdleHas
<1> QED
  BY Zenon, <1>1, <1>2

\* No device and no name the book must have gets lost.
LEMMA BookInvStep ==
  ASSUME Shape, FillInv, BookInv, [Next]_vars
  PROVE  BookInv'
<1>1. CASE UNCHANGED vars
  BY Zenon, <1>1 DEF vars, BookInv, Filling, Listed
<1>2. ASSUME NEW p \in Proc, StepKind(p) PROVE BookInv'
  <2>1. CASE Reads(p) /\ NamesKept(p) /\ NoBook(job'[p])
    BY Zenon, <2>1, BookStays DEF Reads
  <2>2. SUFFICES ASSUME calm', ~(Reads(p) /\ NamesKept(p) /\ NoBook(job'[p]))
                 PROVE  /\ ~Filling("book")' => KnowsAll(book', added', Listed')
                        /\ \A q \in Proc : BookCopy(job'[q], added', Listed')
    BY Zenon, <2>1 DEF BookInv
  <2>3. ASSUME calm
        PROVE  /\ ~Filling("book") => KnowsAll(book, added, Listed)
               /\ \A q \in Proc : BookCopy(job[q], added, Listed)
    BY Zenon, <2>3 DEF BookInv
  <2>4. ASSUME NEW c \in Contact, AddContact(p, c) PROVE BookInv'
    <3>1. /\ Reads(p) /\ NamesKept(p) /\ calm /\ ~Filling("book") /\ UNCHANGED <<book, added>>
          /\ \A q \in Proc : q # p => job'[q] = job[q]
      BY ZenonT(40), <2>2, <2>4, AddContactStep DEF Reads, Does
    <3>2. PICK t \in Pushed(book, c) : job'[p] = WriteJob("write", "book", book, t)
      BY Zenon, <2>4, AddContactStep
    <3>3. Listed' \subseteq Listed
      <4>1. Names(hunt') \cup JobNames(job'[p]) \subseteq Names(hunt) \cup JobNames(job[p]) \cup {}
        BY Zenon, <3>1 DEF NamesKept
      <4> QED
        BY ZenonT(40), <3>1, <4>1, ListedStep DEF Reads
    <3>4. KnowsAll(book, added, Listed) /\ \A q \in Proc : BookCopy(job[q], added, Listed)
      BY Zenon, <2>3, <3>1
    <3>5. book \in Seq(Contact) /\ t = Append(book, c)
      <4>1. book \in Seq(Contact) /\ book \in Seq(Line)
        BY Zenon, <3>4 DEF KnowsAll, Shape
      <4> QED
        BY Zenon, <4>1, <3>2, PushedIs
    <3>6. ASSUME NEW q \in Proc PROVE BookCopy(job'[q], added, Listed')
      <4>1. CASE q = p
        <5>1. PICK b, j : b = book /\ j = WriteJob("write", "book", b, t)
          BY Zenon
        <5>2. j.pc = "write" /\ j.read = b /\ j.new = t
          BY <5>1, BookJobHas
        <5>3. job'[q] = j /\ b \in Seq(Contact) /\ t = Append(b, c)
          BY Zenon, <3>2, <3>5, <4>1, <5>1
        <5> QED
          BY Zenon, <5>2, <5>3 DEF BookCopy
      <4>2. CASE q # p
        BY Zenon, <3>1, <3>3, <3>4, <4>2, CopyKnowsLess
      <4> QED
        BY Zenon, <4>1, <4>2
    <3> QED
      BY Zenon, <3>1, <3>3, <3>4, <3>6, KnowsLess DEF BookInv
  <2>5. ASSUME NEW n \in Name, CheckContact(p, n) PROVE BookInv'
    <3>1. /\ Reads(p) /\ NoBook(job'[p]) /\ calm /\ ~Filling("book") /\ UNCHANGED <<book, hunt, added>>
          /\ \A q \in Proc : q # p => job'[q] = job[q]
          /\ matching(book, n) # {} /\ JobNames(job'[p]) = {n}
      BY ZenonT(40), <2>2, <2>5, CheckContactStep DEF Reads, Does
    <3>2. Listed' \subseteq Listed \cup {n}
      <4>1. Names(hunt') \cup JobNames(job'[p]) \subseteq Names(hunt) \cup JobNames(job[p]) \cup {n}
        BY ZenonT(40), <3>1
      <4> QED
        BY ZenonT(40), <3>1, <4>1, ListedStep DEF Reads
    <3>3. KnowsAll(book, added, Listed) /\ \A q \in Proc : BookCopy(job[q], added, Listed)
      BY Zenon, <2>3, <3>1
    <3>4. KnowsAll(book, added, Listed')
      <4>1. \E c \in ToSet(book) : c.name = n
        BY Zenon, <3>1, <3>3, MatchingIs DEF KnowsAll
      <4> QED
        BY Zenon, <3>2, <3>3, <4>1 DEF KnowsAll
    <3>5. ASSUME NEW q \in Proc PROVE BookCopy(job'[q], added, Listed')
      <4>1. CASE q = p
        BY ZenonT(40), <3>1, <4>1 DEF BookCopy, NoBook
      <4>2. CASE q # p
        <5>1. ~(job[q].pc = "fill" /\ job[q].file = "book")
          BY Zenon, <3>1 DEF Filling
        <5>2. job'[q] = job[q] /\ BookCopy(job[q], added, Listed)
          BY Zenon, <3>1, <3>3, <4>2
        <5> QED
          BY Zenon, <5>1, <5>2 DEF BookCopy
      <4> QED
        BY Zenon, <4>1, <4>2
    <3> QED
      BY ZenonT(40), <3>1, <3>4, <3>5 DEF BookInv
  <2>6. ASSUME NEW r, NEW v, Truncates(p, "hunt", r, v) \/ Finishes(p, "hunt", r, v) PROVE BookInv'
    BY Zenon, <2>6, HuntWrites, BookStays
  <2>7. ASSUME NEW r, NEW v, Truncates(p, "book", r, v) PROVE BookInv'
    <3>1. PICK k, j : k = WriteJob("write", "book", r, v) /\ j = WriteJob("fill", "book", r, v)
      BY Zenon
    <3>2. /\ job[p] = k /\ job'[p] = j /\ Does(p, job'[p]) /\ UNCHANGED <<hunt, added>>
          /\ calm /\ ~Filling("book") /\ r = book
          /\ \A q \in Proc : q # p => job'[q] = job[q]
      BY ZenonT(40), <2>2, <2>7, <3>1 DEF Truncates, Does, Content
    <3>3. /\ JobNames(k) = {} /\ JobNames(j) = {} /\ k.pc = "write" /\ j.pc = "fill"
          /\ k.file = "book" /\ j.file = "book"
          /\ k.read = r /\ k.new = v /\ j.read = r /\ j.new = v
      BY <3>1, BookWriteHas, BookFillHas
    <3>4. Listed' \subseteq Listed
      <4>1. Names(hunt') \cup JobNames(job'[p]) \subseteq Names(hunt) \cup JobNames(job[p]) \cup {}
        BY Zenon, <3>2, <3>3
      <4> QED
        BY Zenon, <3>2, <4>1, ListedStep
    <3>5. KnowsAll(book, added, Listed) /\ \A q \in Proc : BookCopy(job[q], added, Listed)
      BY Zenon, <2>3, <3>2
    <3>6. PICK c \in Contact : r \in Seq(Contact) /\ v = Append(r, c)
      <4>1. BookCopy(k, added, Listed)
        BY Zenon, <3>2, <3>5
      <4> QED
        BY Zenon, <3>3, <4>1 DEF BookCopy
    <3>7. KnowsAll(v, added, Listed)
      BY ZenonT(40), <3>2, <3>5, <3>6, KnowsAppend
    <3>8. ASSUME NEW q \in Proc PROVE BookCopy(job'[q], added, Listed')
      <4>1. CASE q = p
        <5>1. BookCopy(j, added, Listed)
          BY Zenon, <3>3, <3>6, <3>7 DEF BookCopy
        <5> QED
          BY Zenon, <3>2, <3>4, <4>1, <5>1, CopyKnowsLess
      <4>2. CASE q # p
        BY Zenon, <3>2, <3>4, <3>5, <4>2, CopyKnowsLess
      <4> QED
        BY Zenon, <4>1, <4>2
    <3>9. Filling("book")'
      BY Zenon, <3>2, <3>3 DEF Filling
    <3> QED
      BY ZenonT(40), <3>2, <3>8, <3>9 DEF BookInv
  <2>8. ASSUME NEW r, NEW v, Finishes(p, "book", r, v) PROVE BookInv'
    <3>1. PICK k : k = WriteJob("fill", "book", r, v)
      BY Zenon
    <3>2. /\ job[p] = k /\ job'[p] = Idle /\ Does(p, job'[p]) /\ UNCHANGED <<hunt, calm>> /\ calm
          /\ \A q \in Proc : q # p => job'[q] = job[q]
      BY ZenonT(40), <2>2, <2>8, <3>1 DEF Finishes, Does
    <3>3. /\ JobNames(k) = {} /\ k.pc = "fill" /\ k.file = "book" /\ k.read = r /\ k.new = v
      BY <3>1, BookJobHas
    <3>4. Listed' \subseteq Listed
      <4>1. Names(hunt') \cup JobNames(job'[p]) \subseteq Names(hunt) \cup JobNames(job[p]) \cup {}
        BY Zenon, <3>2, <3>3, IdleHas
      <4> QED
        BY Zenon, <3>2, <4>1, ListedStep
    <3>5. \A q \in Proc : BookCopy(job[q], added, Listed)
      BY Zenon, <2>3, <3>2
    <3>6. Fills(p, "book")
      BY Zenon, <3>2, <3>3 DEF Fills
    <3>7. book = <<>> /\ \A q \in Proc : Fills(q, "book") => q = p
      BY Zenon, <3>2, <3>6 DEF FillInv, Content, Empty
    <3>8. PICK c \in Contact : r \in Seq(Contact) /\ v = Append(r, c) /\ KnowsAll(v, added, Listed)
      <4>1. BookCopy(k, added, Listed)
        BY Zenon, <3>2, <3>5
      <4> QED
        BY Zenon, <3>3, <4>1 DEF BookCopy
    <3>9. v \in Seq(Contact) /\ Last(v) = c /\ c \in ToSet(v)
      <4>1. v \in Seq(Contact) /\ Last(v) = c
        BY <3>8 DEF Last
      <4>2. ToSet(v) = ToSet(r) \cup {c}
        BY <3>8, ToSetAppend
      <4> QED
        BY Zenon, <4>1, <4>2
    <3>10. book' = v
      <4>1. PICK rest \in Leftovers(v, book) : book' = v \o rest
        BY Zenon, <2>8 DEF Finishes
      <4>2. rest = <<>>
        BY Zenon, <3>7, <4>1 DEF Leftovers
      <4> QED
        BY <3>9, <4>1, <4>2
    <3>11. added' = added \cup {c}
      BY Zenon, <2>8, <3>9 DEF Finishes
    <3>12. KnowsAll(book', added', Listed')
      BY Zenon, <3>4, <3>8, <3>9, <3>10, <3>11 DEF KnowsAll
    <3>13. ASSUME NEW q \in Proc PROVE BookCopy(job'[q], added', Listed')
      <4>1. CASE q = p
        BY ZenonT(40), <3>2, <4>1, IdleHas DEF BookCopy
      <4>2. CASE q # p
        <5>1. ~(job[q].pc = "fill" /\ job[q].file = "book")
          BY Zenon, <3>7, <4>2 DEF Fills
        <5>2. job'[q] = job[q] /\ BookCopy(job[q], added, Listed)
          BY Zenon, <3>2, <3>5, <4>2
        <5> QED
          BY Zenon, <5>1, <5>2 DEF BookCopy
      <4> QED
        BY Zenon, <4>1, <4>2
    <3> QED
      BY Zenon, <3>12, <3>13 DEF BookInv
  <2>9. ASSUME NEW file, NEW r, NEW v, Breaks(p, file, r, v) PROVE FALSE
    BY Zenon, <2>2, <2>9 DEF Breaks
  <2>10. ASSUME NEW file, NEW r, NEW v, Truncates(p, file, r, v) \/ Finishes(p, file, r, v)
         PROVE  BookInv'
    <3>1. file = "book" \/ file = "hunt"
      BY Zenon, <2>10 DEF Truncates, Finishes, Copies
    <3> QED
      BY Zenon, <2>6, <2>7, <2>8, <2>10, <3>1
  <2>11. ASSUME NEW c \in Contact, AddContactUnread(p, c) PROVE FALSE
    BY Zenon, <2>2, <2>11, AddUnreadStep
  <2>12. BookInv'
    BY Zenon, <1>2, <2>2, <2>4, <2>5, <2>9, <2>10, <2>11 DEF StepKind
  <2> QED
    BY Zenon, <2>2, <2>12 DEF BookInv
<1> QED
  BY Zenon, <1>1, <1>2, StepKinds

-----------------------------------------------------------------------------
(* The drops *)

\* A step that loses no id keeps every drop on file or about to be.
LEMMA IdsStay ==
  ASSUME NEW p \in Proc, SeedInv, Does(p, job'[p]), IdsKept(p), DropsKept(p),
         calm' => calm, halted => halted'
  PROVE  SeedInv'
<1>1. SUFFICES ASSUME calm', ~halted', NEW d \in DOMAIN drops'
               PROVE  d \in IdsOf(hunt') \/ \E q \in Proc : d \in JobIds(job'[q])
  BY Zenon DEF SeedInv
<1>2. IdsOf(hunt) \cup JobIds(job[p]) \subseteq IdsOf(hunt') \cup JobIds(job'[p])
  BY Zenon, <1>1 DEF IdsKept
<1>3. d \in DOMAIN drops \/ d \in JobIds(job'[p])
  BY Zenon DEF DropsKept
<1>4. ASSUME d \in DOMAIN drops
      PROVE  d \in IdsOf(hunt) \/ \E q \in Proc : d \in JobIds(job[q])
  BY Zenon, <1>1, <1>4 DEF SeedInv
<1>5. ASSUME NEW q \in Proc, d \in JobIds(job[q])
      PROVE  d \in IdsOf(hunt') \/ \E y \in Proc : d \in JobIds(job'[y])
  <2>1. CASE q = p
    BY Zenon, <1>2, <1>5, <2>1
  <2>2. CASE q # p
    <3>1. job'[q] = job[q]
      BY Zenon, <2>2 DEF Does
    <3> QED
      BY Zenon, <1>5, <3>1
  <2> QED
    BY Zenon, <2>1, <2>2
<1> QED
  BY ZenonT(40), <1>2, <1>3, <1>4, <1>5

\* No drop's id gets lost.
LEMMA SeedInvStep ==
  ASSUME Shape, FillInv, SeedInv, [Next]_vars
  PROVE  SeedInv'
<1>1. CASE UNCHANGED vars
  BY Zenon, <1>1 DEF vars, SeedInv
<1>2. ASSUME NEW p \in Proc, StepKind(p) PROVE SeedInv'
  <2>1. CASE Reads(p) /\ IdsKept(p) /\ DropsKept(p)
    BY Zenon, <2>1, IdsStay DEF Reads
  <2>2. ASSUME NEW c \in Contact, AddContact(p, c) PROVE SeedInv'
    BY Zenon, <2>1, <2>2, AddContactStep, SameDrops
  <2>3. ASSUME NEW n \in Name, CheckContact(p, n) PROVE SeedInv'
    BY Zenon, <2>1, <2>3, CheckContactStep, SameDrops
  <2>4. ASSUME NEW r, NEW v, Truncates(p, "hunt", r, v) PROVE SeedInv'
    <3>1. Does(p, job'[p]) /\ IdsKept(p) /\ UNCHANGED drops /\ (calm' => calm) /\ (halted => halted')
      BY Zenon, <2>4, HuntWrites
    <3> QED
      BY Zenon, <3>1, SameDrops, IdsStay
  <2>5. ASSUME NEW r, NEW v, Finishes(p, "hunt", r, v) PROVE SeedInv'
    <3>1. CASE calm
      <4>1. Fills(p, "hunt")
        BY Zenon, <2>5, HuntFillHas DEF Finishes, Fills
      <4>2. hunt = Torn
        BY Zenon, <3>1, <4>1 DEF FillInv, Content, Empty
      <4>3. Does(p, job'[p]) /\ IdsKept(p) /\ UNCHANGED drops /\ (calm' => calm) /\ (halted => halted')
        BY Zenon, <2>5, <4>2, HuntWrites
      <4> QED
        BY Zenon, <4>3, SameDrops, IdsStay
    <3>2. CASE ~calm
      <4>1. ~calm'
        BY Zenon, <2>5, <3>2 DEF Finishes
      <4> QED
        BY Zenon, <4>1 DEF SeedInv
    <3> QED
      BY Zenon, <3>1, <3>2
  <2>6. ASSUME NEW r, NEW v, Truncates(p, "book", r, v) \/ Finishes(p, "book", r, v) PROVE SeedInv'
    <3>1. /\ Does(p, job'[p]) /\ UNCHANGED <<hunt, drops, halted>> /\ (calm' => calm)
      BY SMTT(40), <2>6 DEF Truncates, Finishes, Does
    <3>2. JobIds(job[p]) = {}
      <4>1. job[p] = WriteJob("write", "book", r, v) \/ job[p] = WriteJob("fill", "book", r, v)
        BY Zenon, <2>6 DEF Truncates, Finishes
      <4> QED
        BY <4>1, BookWriteHas, BookFillHas
    <3>3. IdsKept(p)
      BY Zenon, <3>1, <3>2 DEF IdsKept
    <3> QED
      BY Zenon, <3>1, <3>3, SameDrops, IdsStay
  <2>7. ASSUME NEW file, NEW r, NEW v, Breaks(p, file, r, v) PROVE SeedInv'
    <3>1. ~calm'
      BY Zenon, <2>7 DEF Breaks
    <3> QED
      BY Zenon, <3>1 DEF SeedInv
  <2>8. ASSUME NEW file, NEW r, NEW v, Truncates(p, file, r, v) \/ Finishes(p, file, r, v)
        PROVE  SeedInv'
    <3>1. file = "book" \/ file = "hunt"
      BY Zenon, <2>8 DEF Truncates, Finishes, Copies
    <3> QED
      BY Zenon, <2>4, <2>5, <2>6, <2>8, <3>1
  <2>9. ASSUME NEW c \in Contact, AddContactUnread(p, c) PROVE SeedInv'
    <3>1. ~calm'
      BY Zenon, <2>9, AddUnreadStep
    <3> QED
      BY Zenon, <3>1 DEF SeedInv
  <2> QED
    BY Zenon, <1>2, <2>1, <2>2, <2>3, <2>7, <2>8, <2>9 DEF StepKind
<1> QED
  BY Zenon, <1>1, <1>2, StepKinds

-----------------------------------------------------------------------------
(* The devices *)

\* A text whose lines are read as those of another, or as no device.
LEMMA OnceLike ==
  ASSUME NEW b, Once(b), NEW t, DOMAIN t \subseteq DOMAIN b,
         \A i \in DOMAIN t : Seen(t[i]) \in Contact => Seen(t[i]) = Seen(b[i])
  PROVE  Once(t)
<1>1. SUFFICES ASSUME NEW i \in DOMAIN t, NEW j \in DOMAIN t, Seen(t[i]) \in Contact,
                      Seen(t[j]) \in Contact, SameDevice(Seen(t[i]), Seen(t[j]))
               PROVE  i = j
  BY Zenon DEF Once
<1>2. i \in DOMAIN b /\ j \in DOMAIN b /\ Seen(t[i]) = Seen(b[i]) /\ Seen(t[j]) = Seen(b[j])
  BY Zenon, <1>1
<1> QED
  BY Zenon, <1>1, <1>2 DEF Once

\* What is left of a line is no device.
LEMMA RemainsAreNone ==
  ASSUME NEW m \in Remains
  PROVE  Seen(m) \notin Contact
<1>1. DOMAIN m = {"name"}
  BY Zenon DEF Remains
<1>2. \A l \in CutLine : DOMAIN l = {"cut"}
  BY Zenon DEF CutLine
<1>3. m \notin CutLine
  <2>1. {"name"} # {"cut"}
    OBVIOUS
  <2> QED
    BY Zenon, <1>1, <1>2, <2>1
<1> QED
  BY Zenon, <1>3, ContactsAreWhole DEF Seen

\* add_contact adds a line for a device that has none.
LEMMA OncePushed ==
  ASSUME NEW b \in Seq(Line), Once(b), NEW c \in Contact, ~AlreadyHas(b, c), NEW t \in Pushed(b, c)
  PROVE  Once(t)
<1>1. CASE b = <<>> \/ Last(b) \notin CutLine
  <2>1. PICK l : l = Len(b) /\ t = Append(b, c)
    BY Zenon, <1>1 DEF Pushed
  <2>2. l \in Nat /\ DOMAIN b = 1..l /\ DOMAIN t = 1..l + 1
    BY <2>1
  <2>3. t[l + 1] = c /\ \A i \in 1..l : t[i] = b[i]
    BY <2>1
  <2>4. 1..l + 1 = 1..l \cup {l + 1}
    BY <2>2
  <2>5. Seen(c) = c
    BY Zenon, ContactsAreWhole
  <2>6. ASSUME NEW i \in 1..l, Seen(b[i]) \in Contact PROVE ~SameDevice(Seen(b[i]), c) /\ ~SameDevice(c, Seen(b[i]))
    <3>1. Seen(b[i]) \in contacts(b)
      BY Zenon, <2>2, <2>6 DEF contacts
    <3> QED
      BY Zenon, <3>1 DEF AlreadyHas, matching, SameDevice
  <2>7. SUFFICES ASSUME NEW i \in DOMAIN t, NEW j \in DOMAIN t, Seen(t[i]) \in Contact,
                        Seen(t[j]) \in Contact, SameDevice(Seen(t[i]), Seen(t[j]))
                 PROVE  i = j
    BY Zenon DEF Once
  <2>8. CASE i \in 1..l /\ j \in 1..l
    BY Zenon, <2>2, <2>3, <2>7, <2>8 DEF Once
  <2>9. CASE i = l + 1 /\ j \in 1..l
    BY Zenon, <2>3, <2>5, <2>6, <2>7, <2>9
  <2>10. CASE i \in 1..l /\ j = l + 1
    BY Zenon, <2>3, <2>5, <2>6, <2>7, <2>10
  <2> QED
    BY <2>2, <2>8, <2>9, <2>10
<1>2. CASE b # <<>> /\ Last(b) \in CutLine
  <2>1. PICK m \in Remains : t = Append(Front(b), m)
    <3>1. t \in {Append(Front(b), m) : m \in IF Seen(Last(b)) = Short THEN Remains ELSE {Bad}}
      BY Zenon, <1>2 DEF Pushed
    <3> QED
      BY Zenon, <3>1 DEF Remains, Bad
  <2>2. PICK f, l : f = Front(b) /\ l = Len(b)
    BY Zenon
  <2>3. l \in Nat /\ l # 0 /\ DOMAIN b = 1..l
    BY <1>2, <2>2
  <2>4. f \in Seq(Line) /\ Len(f) = l - 1 /\ \A i \in 1..l - 1 : f[i] = b[i]
    BY <2>2, <2>3 DEF Front
  <2>5. DOMAIN t = 1..l /\ t[l] = m /\ \A i \in 1..l - 1 : t[i] = b[i]
    <3>1. m \in Line
      BY Zenon DEF Line
    <3> QED
      BY <2>1, <2>2, <2>3, <2>4, <3>1
  <2>6. \A i \in 1..l : i \in 1..l - 1 \/ i = l
    BY <2>3
  <2>7. \A i \in DOMAIN t : Seen(t[i]) \in Contact => Seen(t[i]) = Seen(b[i])
    BY Zenon, <2>5, <2>6, RemainsAreNone
  <2> QED
    BY Zenon, <2>3, <2>5, <2>7, OnceLike
<1> QED
  BY Zenon, <1>1, <1>2

\* A write that is cut short leaves no device twice.
LEMMA OnceCuts ==
  ASSUME NEW b \in Seq(Line), Once(b), NEW t \in Cuts(b)
  PROVE  Once(t)
<1>1. Len(b) \in Nat /\ DOMAIN b = 1..Len(b)
  OBVIOUS
<1>2. ASSUME NEW n \in 0..Len(b), t = SubSeq(b, 1, n) PROVE Once(t)
  <2>1. DOMAIN t \subseteq DOMAIN b /\ \A i \in DOMAIN t : t[i] = b[i]
    BY <1>1, <1>2
  <2> QED
    BY Zenon, <2>1, OnceLike
<1>3. ASSUME NEW n \in DOMAIN b, NEW c \in Remains \cup {Seen(b[n])},
             t = Append(SubSeq(b, 1, n - 1), [cut |-> c])
      PROVE  Once(t)
  <2>1. PICK f, e : f = SubSeq(b, 1, n - 1) /\ e = [cut |-> c]
    BY Zenon
  <2>2. f \in Seq(Line) /\ Len(f) = n - 1 /\ \A i \in 1..n - 1 : f[i] = b[i]
    BY <1>1, <2>1
  <2>3. e \in CutLine /\ e.cut = c
    <3>1. c \in Contact \cup Remains
      BY SeenIs
    <3> QED
      BY Zenon, <2>1, <3>1 DEF CutLine
  <2>4. Seen(e) \in Contact => Seen(e) = Seen(b[n])
    <3>1. Seen(e) = c
      BY Zenon, <2>3 DEF Seen
    <3>2. c \in Remains => c \notin Contact
      BY Zenon, ContactsAreWhole
    <3> QED
      BY Zenon, <3>1, <3>2
  <2>5. DOMAIN t = 1..n /\ t[n] = e /\ \A i \in 1..n - 1 : t[i] = b[i]
    <3>1. e \in Line /\ t = Append(f, e)
      BY Zenon, <1>3, <2>1, <2>3 DEF Line
    <3> QED
      BY <1>1, <2>2, <3>1
  <2>6. 1..n \subseteq 1..Len(b) /\ \A i \in 1..n : i \in 1..n - 1 \/ i = n
    BY <1>1
  <2>7. \A i \in DOMAIN t : Seen(t[i]) \in Contact => Seen(t[i]) = Seen(b[i])
    BY Zenon, <2>4, <2>5, <2>6
  <2>8. DOMAIN t \subseteq DOMAIN b
    BY Zenon, <1>1, <2>5, <2>6
  <2> QED
    BY Zenon, <2>7, <2>8, OnceLike
<1> QED
  BY ZenonT(40), <1>2, <1>3 DEF Cuts

\* Texts of at most one line.
LEMMA OnceShort ==
  ASSUME NEW c
  PROVE  Once(<<>>) /\ Once(<<c>>)
<1>1. PICK e, t : e = <<>> /\ t = <<c>>
  BY Zenon
<1>2. DOMAIN e = {} /\ DOMAIN t = {1}
  BY <1>1
<1>3. Once(e) /\ Once(t)
  BY Zenon, <1>2 DEF Once
<1> QED
  BY Zenon, <1>1, <1>3

\* A step after which p fills no book, and the book is a good text, or as it was.
LEMMA OnceFrom ==
  ASSUME NEW p \in Proc, OnceInv, Does(p, job'[p]), UNCHANGED mixed, ~Fills(p, "book")',
         UNCHANGED book \/ (~mixed => Fills(p, "book") /\ Once(book')),
         ~mixed => NoBook(job'[p]) \/ Once(job'[p].new)
  PROVE  OnceInv'
<1>1. SUFFICES ASSUME ~mixed
               PROVE  /\ Once(book')
                      /\ \A q \in Proc :
                           job'[q].pc \in {"write", "fill"} /\ job'[q].file = "book" => Once(job'[q].new)
                      /\ \A q \in Proc :
                           Fills(q, "book")' =>
                             book' = <<>> /\ \A x \in Proc : Fills(x, "book")' => x = q
  BY Zenon DEF OnceInv, Once, Seen, SameDevice
<1>2. /\ Once(book)
      /\ \A q \in Proc :
           job[q].pc \in {"write", "fill"} /\ job[q].file = "book" => Once(job[q].new)
      /\ \A q \in Proc :
           Fills(q, "book") => book = <<>> /\ \A x \in Proc : Fills(x, "book") => x = q
  BY Zenon, <1>1 DEF OnceInv
<1>3. \A q \in Proc : q # p => job'[q] = job[q] /\ (Fills(q, "book")' <=> Fills(q, "book"))
  BY Zenon DEF Does, Fills
<1>4. Once(book')
  BY Zenon, <1>1, <1>2
<1>5. ASSUME NEW q \in Proc, job'[q].pc \in {"write", "fill"}, job'[q].file = "book"
      PROVE  Once(job'[q].new)
  BY Zenon, <1>1, <1>2, <1>3, <1>5 DEF NoBook
<1>6. ASSUME NEW q \in Proc, Fills(q, "book")'
      PROVE  book' = <<>> /\ \A x \in Proc : Fills(x, "book")' => x = q
  <2>1. q # p /\ Fills(q, "book")
    BY Zenon, <1>3, <1>6
  <2>2. UNCHANGED book
    BY Zenon, <1>1, <1>2, <2>1
  <2>3. \A x \in Proc : Fills(x, "book")' => x # p /\ Fills(x, "book")
    BY Zenon, <1>3
  <2> QED
    BY Zenon, <1>2, <2>1, <2>2, <2>3
<1> QED
  BY Zenon, <1>4, <1>5, <1>6

\* No step lists a device twice.
LEMMA OnceInvStep ==
  ASSUME Shape, OnceInv, [Next]_vars
  PROVE  OnceInv'
<1>1. CASE UNCHANGED vars
  BY Zenon, <1>1 DEF vars, OnceInv, Fills
<1>2. ASSUME NEW p \in Proc, StepKind(p) PROVE OnceInv'
  <2>1. ASSUME Reads(p), ~mixed => NoBook(job'[p]) \/ Once(job'[p].new) PROVE OnceInv'
    <3>1. Does(p, job'[p]) /\ UNCHANGED <<book, mixed>> /\ ~Fills(p, "book")'
      BY Zenon, <2>1 DEF Reads, Fills
    <3> QED
      BY Zenon, <2>1, <3>1, OnceFrom
  <2>2. ASSUME NEW c \in Contact, AddContact(p, c) PROVE OnceInv'
    <3>1. Reads(p) /\ ~AlreadyHas(book, c)
      BY Zenon, <2>2, AddContactStep
    <3>2. PICK t \in Pushed(book, c) : job'[p] = WriteJob("write", "book", book, t)
      BY Zenon, <2>2, AddContactStep
    <3>3. job'[p].new = t
      BY <3>2, WriteJobHas
    <3>4. ~mixed => Once(t)
      <4>1. book \in Seq(Line)
        BY Zenon DEF Shape
      <4> QED
        BY Zenon, <3>1, <3>2, <4>1, OncePushed DEF OnceInv
    <3> QED
      BY Zenon, <2>1, <3>1, <3>3, <3>4
  <2>3. ASSUME NEW c \in Contact, AddContactUnread(p, c) PROVE OnceInv'
    <3>1. PICK t : t = <<c>>
      BY Zenon
    <3>2. Reads(p) /\ job'[p] = WriteJob("write", "book", book, t)
      BY Zenon, <2>3, <3>1, AddUnreadStep
    <3>3. job'[p].new = t
      BY <3>2, WriteJobHas
    <3> QED
      BY Zenon, <2>1, <3>1, <3>2, <3>3, OnceShort
  <2>4. ASSUME NEW n \in Name, CheckContact(p, n) PROVE OnceInv'
    BY Zenon, <2>1, <2>4, CheckContactStep
  <2>5. ASSUME NEW r, NEW v, Truncates(p, "book", r, v) PROVE OnceInv'
    <3>1. PICK k, j : k = WriteJob("write", "book", r, v) /\ j = WriteJob("fill", "book", r, v)
      BY Zenon
    <3>2. /\ job[p] = k /\ job'[p] = j /\ book' = <<>>
          /\ \A q \in Proc : q # p => job'[q] = job[q]
          /\ mixed' = (mixed \/ Filling("book"))
      BY Zenon, <2>5, <3>1 DEF Truncates, Does
    <3>3. k.pc = "write" /\ k.file = "book" /\ k.new = v /\ j.new = v
      BY <3>1, WriteJobHas
    <3>4. SUFFICES ASSUME ~mixed'
                   PROVE  /\ Once(book')
                          /\ \A q \in Proc :
                               job'[q].pc \in {"write", "fill"} /\ job'[q].file = "book" => Once(job'[q].new)
                          /\ \A q \in Proc :
                               Fills(q, "book")' =>
                                 book' = <<>> /\ \A x \in Proc : Fills(x, "book")' => x = q
      BY Zenon DEF OnceInv, Once, Seen, SameDevice
    <3>5. ~mixed /\ \A q \in Proc : ~Fills(q, "book")
      BY Zenon, <3>2, <3>4 DEF Filling, Fills
    <3>6. \A q \in Proc : job[q].pc \in {"write", "fill"} /\ job[q].file = "book" => Once(job[q].new)
      BY Zenon, <3>5 DEF OnceInv
    <3>7. Once(v)
      BY Zenon, <3>2, <3>3, <3>6
    <3>8. \A q \in Proc : Fills(q, "book")' => q = p
      BY Zenon, <3>2, <3>5 DEF Fills
    <3>9. Once(book')
      BY Zenon, <3>2, OnceShort
    <3>10. ASSUME NEW q \in Proc, job'[q].pc \in {"write", "fill"}, job'[q].file = "book"
           PROVE  Once(job'[q].new)
      BY Zenon, <3>2, <3>3, <3>6, <3>7, <3>10
    <3> QED
      BY Zenon, <3>2, <3>8, <3>9, <3>10
  <2>6. ASSUME NEW r, NEW v, Finishes(p, "book", r, v) \/ Breaks(p, "book", r, v) PROVE OnceInv'
    <3>1. /\ job[p] = WriteJob("fill", "book", r, v) /\ job'[p] = Idle /\ Does(p, job'[p])
          /\ UNCHANGED mixed /\ v \in Seq(Line)
      BY Zenon, <2>6 DEF Finishes, Breaks, Does, Copies
    <3>2. job[p].pc = "fill" /\ job[p].file = "book" /\ job[p].new = v
      BY <3>1, WriteJobHas
    <3>3. Fills(p, "book") /\ ~Fills(p, "book")' /\ NoBook(job'[p])
      BY Zenon, <3>1, <3>2, IdleHas DEF Fills
    <3>4. ASSUME ~mixed PROVE Once(book')
      <4>1. Once(v) /\ book = <<>>
        BY Zenon, <3>2, <3>3, <3>4 DEF OnceInv
      <4>2. CASE Finishes(p, "book", r, v)
        <5>1. PICK rest \in Leftovers(v, book) : book' = v \o rest
          BY Zenon, <4>2 DEF Finishes
        <5>2. rest = <<>>
          BY Zenon, <4>1, <5>1 DEF Leftovers
        <5>3. book' = v
          BY <3>1, <5>1, <5>2
        <5> QED
          BY Zenon, <4>1, <5>3
      <4>3. CASE Breaks(p, "book", r, v)
        BY Zenon, <3>1, <4>1, <4>3, OnceCuts DEF Breaks
      <4> QED
        BY Zenon, <2>6, <4>2, <4>3
    <3> QED
      BY Zenon, <3>1, <3>3, <3>4, OnceFrom
  <2>7. ASSUME NEW r, NEW v,
               Truncates(p, "hunt", r, v) \/ Finishes(p, "hunt", r, v) \/ Breaks(p, "hunt", r, v)
        PROVE  OnceInv'
    <3>1. Does(p, job'[p]) /\ UNCHANGED book /\ NoBook(job'[p])
      <4>1. CASE Truncates(p, "hunt", r, v) \/ Finishes(p, "hunt", r, v)
        BY Zenon, <4>1, HuntWrites
      <4>2. CASE Breaks(p, "hunt", r, v)
        BY Zenon, <4>2, IdleHas DEF Breaks, Does
      <4> QED
        BY Zenon, <2>7, <4>1, <4>2
    <3>2. UNCHANGED mixed
      <4>1. "hunt" # "book" /\ mixed \in BOOLEAN
        BY DEF Shape
      <4> QED
        BY Zenon, <2>7, <4>1 DEF Truncates, Finishes, Breaks
    <3>3. ~Fills(p, "book")'
      BY Zenon, <3>1 DEF Fills, NoBook
    <3> QED
      BY Zenon, <3>1, <3>2, <3>3, OnceFrom
  <2>8. ASSUME NEW file, NEW r, NEW v,
               Truncates(p, file, r, v) \/ Finishes(p, file, r, v) \/ Breaks(p, file, r, v)
        PROVE  OnceInv'
    <3>1. file = "book" \/ file = "hunt"
      BY Zenon, <2>8 DEF Truncates, Finishes, Breaks, Copies
    <3> QED
      BY Zenon, <2>5, <2>6, <2>7, <2>8, <3>1
  <2> QED
    BY Zenon, <1>2, <2>1, <2>2, <2>3, <2>4, <2>8 DEF StepKind
<1> QED
  BY Zenon, <1>1, <1>2, StepKinds

\* The initial states satisfy the inductive invariant.
LEMMA InitHas ==
  ASSUME Init
  PROVE  IInv
<1>1. \A p \in Proc : job[p] = Idle
  BY Zenon DEF Init
<1>2. Shape
  <2>1. \A p \in Proc : IsJob(job[p], drops)
    BY Zenon, <1>1, IdleHas
  <2>2. drops \in Seq(Drop)
    BY DEF Init
  <2>3. book \in Seq(Line) /\ IsHunt(hunt, drops)
    BY DEF Init, IsHunt
  <2>4. DOMAIN job = Proc /\ added = {} /\ calm = TRUE /\ mixed = FALSE /\ halted = FALSE
    BY Zenon DEF Init
  <2>5. ops \in 0..MaxOps /\ faults \in 0..MaxFaults
    BY BoundAssumption DEF Init
  <2> QED
    BY Zenon, <2>1, <2>2, <2>3, <2>4, <2>5 DEF Shape
<1>3. FillInv
  BY Zenon, <1>1, IdleHas DEF FillInv, Fills
<1>4. Listed = {}
  <2>1. Names(hunt) = {} /\ \A p \in Proc : JobNames(job[p]) = {}
    BY Zenon, <1>1, NoHunt, IdleHas DEF Init
  <2> QED
    BY Zenon, <2>1 DEF Listed
<1>5. BookInv
  <2>1. KnowsAll(book, added, Listed)
    BY SMTT(40), <1>4 DEF Init, KnowsAll
  <2>2. \A p \in Proc : BookCopy(job[p], added, Listed)
    BY Zenon, <1>1, IdleHas DEF BookCopy
  <2> QED
    BY Zenon, <2>1, <2>2 DEF BookInv
<1>6. SeedInv
  BY DEF Init, SeedInv
<1>7. OnceInv
  <2>1. Once(book)
    BY Zenon, OnceShort DEF Init
  <2>2. \A p \in Proc : job[p].pc = "idle"
    BY Zenon, <1>1, IdleHas
  <2> QED
    BY <2>1, <2>2 DEF OnceInv, Fills
<1> QED
  BY Zenon, <1>2, <1>3, <1>5, <1>6, <1>7 DEF IInv

-----------------------------------------------------------------------------
(* Theorems *)

\* The inductive invariant of the organizer's files.
THEOREM HuntInvariant == Spec => []IInv
<1>1. Init => IInv
  BY Zenon, InitHas
<1>2. IInv /\ [Next]_vars => IInv'
  BY Zenon, ShapeStep, FillInvStep, BookInvStep, SeedInvStep, OnceInvStep DEF IInv
<1> QED
  BY <1>1, <1>2, PTL DEF Spec

\* What the hunt file says is true whatever commands overlap or stop: ids of drops that were
\* created for these clues, each once, participants listed once, and each a known contact as
\* long as no command got in another's way.
THEOREM HuntFileIsTrue == Spec => []HuntInv
<1>1. IInv => HuntInv
  <2>1. SUFFICES ASSUME Shape, BookInv PROVE HuntInv
    BY Zenon DEF IInv
  <2>2. PICK h : h = hunt
    BY Zenon
  <2>3. IsHunt(h, drops)
    BY ZenonT(40), <2>1, <2>2 DEF Shape
  <2>4. \/ h.state \in {"absent", "torn"} /\ Items = <<>>
        \/ h.state = "json" /\ Sound(h, drops) /\ Items = h.drops
    BY Zenon, <2>2, <2>3, NoHunt DEF IsHunt, Items, Sound
  <2>5. Truthful(Items, drops)
    <3>1. CASE Items = <<>>
      <4>1. Items \in Seq(Item(drops)) /\ DOMAIN Items = {}
        BY <3>1
      <4> QED
        BY Zenon, <4>1 DEF Truthful
    <3> QED
      BY Zenon, <2>4, <3>1 DEF Sound
  <2>6. TypeOK
    <3>1. \A i \in DOMAIN Items : Items[i].clue \in Clue /\ Items[i].id \in 0..Len(drops)
      <4>1. \A i \in DOMAIN Items : Items[i] \in Item(drops)
        BY <2>5 DEF Truthful
      <4> QED
        BY Zenon, <4>1 DEF Item
    <3>2. hunt.state \in {"absent", "torn", "json"}
      BY Zenon, <2>2, <2>4
    <3> QED
      BY Zenon, <2>1, <3>1, <3>2 DEF Shape, TypeOK, Line, Drop
  <2>7. RecordedIsCreated
    BY Zenon, <2>5 DEF Truthful, RecordedIsCreated
  <2>8. ParticipantsDistinct
    BY Zenon, <2>2, <2>4 DEF Sound, Distinct, ParticipantsDistinct
  <2>9. ParticipantsKnown
    <3>1. SUFFICES ASSUME calm, ~Filling("book"), hunt.state = "json", NEW n \in ToSet(hunt.participants)
                   PROVE  matching(book, n) # {}
      BY Zenon DEF ParticipantsKnown
    <3>2. n \in Listed
      BY Zenon, <3>1 DEF Listed, Names
    <3> QED
      BY Zenon, <2>1, <3>1, <3>2, MatchingIs DEF BookInv, KnowsAll
  <2> QED
    BY Zenon, <2>6, <2>7, <2>8, <2>9 DEF HuntInv
<1> QED
  BY <1>1, HuntInvariant, PTL

\* hunt_seed creates one drop per clue: while no seed ended early and no commands got in each
\* other's way every drop is on file or about to be.
THEOREM SeedsOnce == Spec => []SeededOnce
<1>1. IInv => SeededOnce
  <2>1. SUFFICES ASSUME Shape, SeedInv, calm, ~halted, NEW d \in DOMAIN drops
                 PROVE  Recorded(d) \/ Held(d)
    BY Zenon DEF IInv, SeededOnce
  <2>2. d \in IdsOf(hunt) \/ \E p \in Proc : d \in JobIds(job[p])
    BY Zenon, <2>1 DEF SeedInv
  <2>3. CASE d \in IdsOf(hunt)
    <3>1. Recorded(d)
      BY Zenon, <2>3 DEF IdsOf, Ids, Recorded, Items
    <3> QED
      BY Zenon, <3>1
  <2>4. ASSUME NEW p \in Proc, d \in JobIds(job[p]) PROVE Held(d)
    <3>1. \/ job[p].pc = "seed" /\ d \in IdsOf(job[p].value)
          \/ job[p].pc \in {"write", "fill"} /\ job[p].file = "hunt" /\ d \in IdsOf(job[p].new)
      BY Zenon, <2>4 DEF JobIds
    <3>2. \A v : d \in IdsOf(v) => \E i \in DOMAIN v.drops : v.drops[i].id = d
      BY Zenon DEF IdsOf, Ids
    <3> QED
      BY Zenon, <3>1, <3>2 DEF Held
  <2> QED
    BY Zenon, <2>2, <2>3, <2>4
<1> QED
  BY <1>1, HuntInvariant, PTL

\* However add_contact commands overlap, stop or fail to read the file: unless one opened the
\* book while another was writing it, no device of a contact is on file twice.
THEOREM NoDeviceTwice == Spec => []DevicesListedOnce
<1>1. IInv => DevicesListedOnce
  BY Zenon DEF IInv, OnceInv, Once, DevicesListedOnce
<1> QED
  BY <1>1, HuntInvariant, PTL

================================================================================
