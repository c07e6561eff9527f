-------------------------------- MODULE Hunt --------------------------------
(***************************************************************************)
(* The organizer's files: contacts.txt (add_contact, crates/store) and a   *)
(* hunt's json file (the hunt commands, crates/cli/src/main.rs), and the   *)
(* drops that hunt_seed creates from both.  Every command reads a file,    *)
(* works on its copy and rewrites the file with fs::write: truncate, then  *)
(* fill.  Commands and daemon requests overlap and may stop anywhere.      *)
(***************************************************************************)
EXTENDS Contacts

CONSTANTS
  Proc,      \* processes: CLI commands and request tasks of the daemon
  Clue,      \* what a clue says
  Suite,     \* Suite[clue]: "classical" or "hybrid"
  MaxOps,    \* bound: commands started
  MaxFaults  \* bound: commands killed, or met by an I/O error

ASSUME BoundAssumption == MaxOps \in Nat /\ MaxFaults \in Nat

VARIABLES
  book,    \* lines of contacts.txt
  hunt,    \* the hunt file: absent, torn (no json), or its value
  drops,   \* drops that were created, in order; a drop's id is its place here
  job,     \* what each process is doing
  added,   \* contacts whose add_contact reported success
  calm,    \* no command has used a file that another was changing or that it could not
           \* read, and no write was cut
  mixed,   \* a command opened contacts.txt while another was writing it
  halted,  \* some command ended early, before it saved
  ops, faults

vars == <<book, hunt, drops, job, added, calm, mixed, halted, ops, faults>>

Name == {c.name : c \in Contact}

NoId == 0

Idle == [pc |-> "idle"]

Absent == [state |-> "absent"]

Torn == [state |-> "torn"]

Json(participants, clues) == [state |-> "json", participants |-> participants, drops |-> clues]

Init ==
  /\ book = <<>>
  /\ hunt = Absent
  /\ drops = <<>>
  /\ job = [p \in Proc |-> Idle]
  /\ added = {}
  /\ calm = TRUE
  /\ mixed = FALSE
  /\ halted = FALSE
  /\ ops = 0
  /\ faults = 0

Filling(file) == \E q \in Proc : job[q].pc = "fill" /\ job[q].file = file

Content(file) == IF file = "book" THEN book ELSE hunt

Goto(p, j) == job' = [job EXCEPT ![p] = j]

\* A command about to rewrite a file it has read.
Rewrite(file, new) == [pc |-> "write", file |-> file, read |-> Content(file), new |-> new]

Begin(p, file) ==
  /\ job[p] = Idle
  /\ ops < MaxOps
  /\ ops' = ops + 1
  /\ calm' = (calm /\ ~Filling(file))
  /\ UNCHANGED <<book, hunt, drops, added, mixed, halted, faults>>

AddContact_again(p, c) ==
  /\ Begin(p, "book")
  /\ \E text \in Pushed(book, c) : Goto(p, Rewrite("book", text))

\* add_contact up to its write: the device is new.
AddContact(p, c) ==
  /\ ~AlreadyHas(book, c)
  /\ Begin(p, "book")
  /\ \E text \in Pushed(book, c) : Goto(p, Rewrite("book", text))

\* add_contact takes a contacts.txt that it cannot read for an empty one, and will write
\* the new line over all others.
AddContactUnread(p, c) ==
  /\ job[p] = Idle
  /\ ops < MaxOps
  /\ ops' = ops + 1
  /\ faults < MaxFaults
  /\ faults' = faults + 1
  /\ calm' = FALSE
  /\ Goto(p, Rewrite("book", <<c>>))
  /\ UNCHANGED <<book, hunt, drops, added, mixed, halted>>

\* hunt create: there is no such file.
Create(p) ==
  /\ hunt = Absent
  /\ Begin(p, "hunt")
  /\ Goto(p, Rewrite("hunt", Json(<<>>, <<>>)))

\* hunt add-participant, first half: the contact is known.
CheckContact(p, name) ==
  /\ ~Unreadable(book)
  /\ matching(book, name) # {}
  /\ Begin(p, "book")
  /\ Goto(p, [pc |-> "load", name |-> name])

\* hunt add-participant, second half: the hunt is loaded, and the name is put on
\* the list if it is not there yet.
LoadForParticipant(p) ==
  /\ job[p].pc = "load"
  /\ calm' = (calm /\ ~Filling("hunt"))
  /\ \/ /\ hunt.state = "json"
        /\ Goto(p, Rewrite("hunt",
             Json(IF job[p].name \in ToSet(hunt.participants) THEN hunt.participants
                  ELSE Append(hunt.participants, job[p].name), hunt.drops)))
     \/ hunt.state # "json" /\ Goto(p, Idle)
  /\ UNCHANGED <<book, hunt, drops, added, mixed, halted, ops, faults>>

\* hunt add-drop: a clue without an id.
AddDrop(p, clue) ==
  /\ hunt.state = "json"
  /\ Begin(p, "hunt")
  /\ Goto(p, Rewrite("hunt",
       Json(hunt.participants, Append(hunt.drops, [clue |-> clue, id |-> NoId]))))

\* hunt_seed up to its loop.
Seed(p) ==
  /\ hunt.state = "json"
  /\ hunt.participants # <<>>
  /\ Begin(p, "hunt")
  /\ Goto(p, [pc |-> "seed", read |-> hunt, value |-> hunt, at |-> 1])

\* create_drop's recipients: every device of every named contact.
Recipients(names) == UNION {matching(book, n) : n \in names}

\* create_drop refuses: the contacts cannot be read, a name has no device, or a
\* device has no hybrid key for a hybrid drop.
Refused(names, clue) ==
  \/ Unreadable(book)
  \/ \E n \in names : matching(book, n) = {}
  \/ Suite[clue] = "hybrid" /\ \E c \in Recipients(names) : ~c.hybrid

SeedNext_again(p) ==
  /\ job[p].pc = "seed"
  /\ job[p].at <= Len(job[p].value.drops)
  /\ LET item == job[p].value.drops[job[p].at]
         names == ToSet(job[p].value.participants)
         id == Len(drops) + 1
     IN  \/ /\ ~Refused(names, item.clue)
            /\ drops' = Append(drops, [clue |-> item.clue, to |-> Recipients(names)])
            /\ job' = [job EXCEPT ![p].value.drops[job[p].at].id = id, ![p].at = @ + 1]
            /\ UNCHANGED halted
         \/ /\ Refused(names, item.clue)
            /\ Goto(p, Idle)
            /\ halted' = TRUE
            /\ UNCHANGED drops
  /\ calm' = (calm /\ ~Filling("book"))
  /\ UNCHANGED <<book, hunt, added, mixed, ops, faults>>

SeedNext_error_ignored(p) ==
  /\ job[p].pc = "seed"
  /\ job[p].at <= Len(job[p].value.drops)
  /\ LET item == job[p].value.drops[job[p].at]
         names == ToSet(job[p].value.participants)
         id == Len(drops) + 1
     IN  \/ /\ item.id # NoId
            /\ job' = [job EXCEPT ![p].at = @ + 1]
            /\ UNCHANGED drops
         \/ /\ item.id = NoId
            /\ job' = [job EXCEPT ![p].value.drops[job[p].at].id = id, ![p].at = @ + 1]
            /\ drops' = IF Refused(names, item.clue) THEN drops
                        ELSE Append(drops, [clue |-> item.clue, to |-> Recipients(names)])
  /\ calm' = (calm /\ ~Filling("book"))
  /\ UNCHANGED <<book, hunt, added, mixed, halted, ops, faults>>

\* One turn of hunt_seed's loop: a clue that has an id is skipped; for another one
\* create_drop is called, and an error ends the command without saving.
SeedNext(p) ==
  /\ job[p].pc = "seed"
  /\ job[p].at <= Len(job[p].value.drops)
  /\ LET item == job[p].value.drops[job[p].at]
         names == ToSet(job[p].value.participants)
         id == Len(drops) + 1
     IN  \/ /\ item.id # NoId
            /\ job' = [job EXCEPT ![p].at = @ + 1]
            /\ UNCHANGED <<drops, halted>>
         \/ /\ item.id = NoId
            /\ ~Refused(names, item.clue)
            /\ drops' = Append(drops, [clue |-> item.clue, to |-> Recipients(names)])
            /\ job' = [job EXCEPT ![p].value.drops[job[p].at].id = id, ![p].at = @ + 1]
            /\ UNCHANGED halted
         \/ /\ item.id = NoId
            /\ Refused(names, item.clue)
            /\ Goto(p, Idle)
            /\ halted' = TRUE
            /\ UNCHANGED drops
  /\ calm' = (calm /\ ~Filling("book"))
  /\ UNCHANGED <<book, hunt, added, mixed, ops, faults>>

\* The loop is over: save_hunt.
SeedSave(p) ==
  /\ job[p].pc = "seed"
  /\ job[p].at > Len(job[p].value.drops)
  /\ Goto(p, [pc |-> "write", file |-> "hunt", read |-> job[p].read, new |-> job[p].value])
  /\ UNCHANGED <<book, hunt, drops, added, calm, mixed, halted, ops, faults>>

Store(file, content) ==
  IF file = "book" THEN book' = content /\ UNCHANGED hunt
  ELSE hunt' = content /\ UNCHANGED book

Empty(file) == IF file = "book" THEN <<>> ELSE Torn

\* fs::write, first half.
Truncate(p) ==
  /\ job[p].pc = "write"
  /\ Store(job[p].file, Empty(job[p].file))
  /\ calm' = (calm /\ Content(job[p].file) = job[p].read /\ ~Filling(job[p].file))
  /\ mixed' = (mixed \/ (job[p].file = "book" /\ Filling("book")))
  /\ Goto(p, [job[p] EXCEPT !.pc = "fill"])
  /\ UNCHANGED <<drops, added, halted, ops, faults>>

\* fs::write, second half, and the end of the command.  If another command filled
\* the file in between, what it wrote is written over, and may stick out.
Fill(p) ==
  /\ job[p].pc = "fill"
  /\ \/ /\ job[p].file = "book"
        /\ \E rest \in Leftovers(job[p].new, book) : book' = job[p].new \o rest
        /\ added' = IF Last(job[p].new) \in Contact THEN added \cup {Last(job[p].new)} ELSE added
        /\ UNCHANGED hunt
     \/ /\ job[p].file = "hunt"
        /\ hunt' \in IF hunt = Torn THEN {job[p].new} ELSE {job[p].new, Torn}
        /\ UNCHANGED <<book, added>>
  /\ Goto(p, Idle)
  /\ UNCHANGED <<drops, calm, mixed, halted, ops, faults>>

\* The process is killed, or a file operation fails; a create_drop that cannot read
\* contacts.txt finds no recipient.
Crash(p) ==
  /\ job[p] # Idle
  /\ faults < MaxFaults
  /\ faults' = faults + 1
  /\ Goto(p, Idle)
  /\ \/ /\ job[p].pc = "fill"
        /\ calm' = FALSE
        /\ \/ job[p].file = "book" /\ book' \in Cuts(job[p].new) /\ UNCHANGED hunt
           \/ job[p].file = "hunt" /\ hunt' \in {Torn, job[p].new} /\ UNCHANGED book
     \/ job[p].pc # "fill" /\ UNCHANGED <<book, hunt, calm>>
  /\ halted' = (halted \/ job[p].pc \in {"seed", "write"})
  /\ UNCHANGED <<drops, added, mixed, ops>>

Step(p) ==
  \/ LoadForParticipant(p)
  \/ SeedNext(p) \/ SeedSave(p)
  \/ Truncate(p) \/ Fill(p)
  \/ Crash(p)

Next ==
  \E p \in Proc :
    \/ \E c \in Contact : AddContact(p, c) \/ AddContactUnread(p, c)
    \/ Create(p)
    \/ \E n \in Name : CheckContact(p, n)
    \/ \E m \in Clue : AddDrop(p, m)
    \/ Seed(p)
    \/ Step(p)

Spec == Init /\ [][Next]_vars

-----------------------------------------------------------------------------
Items == IF hunt.state = "json" THEN hunt.drops ELSE <<>>

Recorded(id) == \E i \in DOMAIN Items : Items[i].id = id

\* A drop's id is in the copy of a seed that has not saved it yet.
Held(id) ==
  \E p \in Proc :
    \/ job[p].pc = "seed" /\ \E i \in DOMAIN job[p].value.drops : job[p].value.drops[i].id = id
    \/ /\ job[p].pc \in {"write", "fill"}
       /\ job[p].file = "hunt"
       /\ \E i \in DOMAIN job[p].new.drops : job[p].new.drops[i].id = id

\* The hunt and contact files, the created drops and the flags keep their types.
TypeOK ==
  /\ book \in Seq(Contact \cup Remains \cup CutLine)
  /\ hunt.state \in {"absent", "torn", "json"}
  /\ \A i \in DOMAIN Items : Items[i].clue \in Clue /\ Items[i].id \in 0..Len(drops)
  /\ drops \in Seq([clue : Clue, to : (SUBSET Contact) \ {{}}])
  /\ added \subseteq Contact
  /\ calm \in BOOLEAN /\ mixed \in BOOLEAN /\ halted \in BOOLEAN
  /\ ops \in 0..MaxOps /\ faults \in 0..MaxFaults

\* Whatever hunt commands overlap or stop, the hunt file is about real drops: an id
\* in it is that of a drop hunt_seed created for this very clue, and no two clues
\* have the same id.
RecordedIsCreated ==
  \A i \in DOMAIN Items :
    Items[i].id # NoId =>
      /\ Items[i].id \in DOMAIN drops /\ drops[Items[i].id].clue = Items[i].clue
      /\ \A j \in DOMAIN Items : Items[j].id = Items[i].id => j = i

\* add-participant puts a name on the list once, however its commands overlap.
ParticipantsDistinct ==
  hunt.state = "json" =>
    \A i, j \in DOMAIN hunt.participants :
      hunt.participants[i] = hunt.participants[j] => i = j

\* hunt_seed creates one drop per clue: as long as no seed ended early and no
\* commands got in each other's way, every drop it created is on file, or about to be.
SeededOnce == calm /\ ~halted => \A id \in DOMAIN drops : Recorded(id) \/ Held(id)

\* What the command's help says of seeding, also after a seed that ended early.
CreatedIsRecorded == calm => \A id \in DOMAIN drops : Recorded(id) \/ Held(id)

SameDevice(c, k) == c.name = k.name /\ c.dev = k.dev

\* add_contact lists a device once: commands may overlap, lose each other's lines, stop
\* anywhere and fail to read the file, but no device of a contact is on file twice -
\* create_drop would seal for it twice - unless one command opened the file while
\* another was writing it.
DevicesListedOnce ==
  ~mixed =>
    \A i, j \in DOMAIN book :
      /\ Seen(book[i]) \in Contact /\ Seen(book[j]) \in Contact
      /\ SameDevice(Seen(book[i]), Seen(book[j]))
      => i = j

\* A device that was reported as added stays on file.
AddedStays == ~Filling("book") => added \subseteq ToSet(book)

\* A participant was a contact when it was added and contacts are never removed, so
\* no seed meets a participant without a device.
ParticipantsKnown ==
  calm /\ ~Filling("book") /\ hunt.state = "json" =>
    \A n \in ToSet(hunt.participants) : matching(book, n) # {}

\* What the hunt file says is true, whatever overlaps or stops, and it is well formed:
\* its types, ids of real drops, participants that are distinct and known.
HuntInv == TypeOK /\ RecordedIsCreated /\ ParticipantsDistinct /\ ParticipantsKnown

=============================================================================
