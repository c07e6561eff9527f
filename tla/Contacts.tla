------------------------------ MODULE Contacts ------------------------------
(***************************************************************************)
(* contacts.txt and what Store makes of it (crates/store/src/lib.rs).      *)
(* The file is a sequence of lines.  A line is a device of a contact, or   *)
(* what a write that was cut short or overlapped another one left of it.   *)
(***************************************************************************)
EXTENDS Lists

CONSTANTS
  Contact  \* lines add_contact may write: [name, dev, hybrid : BOOLEAN]

\* The name, the device's keys and its hybrid key or a dash.
ASSUME ContactAssumption == \A c \in Contact : DOMAIN c = {"name", "dev", "hybrid"}

\* Remains of a line: fewer than three words, or words that are no hex.
Remains == {[name |-> "short"], [name |-> "bad"]}

Short == [name |-> "short"]

Bad == [name |-> "bad"]

\* A last line without its newline, and what a reader takes it for.
CutLine == [cut : Contact \cup Remains]

Seen(line) == IF line \in CutLine THEN line.cut ELSE line

\* contacts() refuses the file because of one word that is no hex.
Unreadable(text) == \E i \in DOMAIN text : Seen(text[i]) = Bad

\* contacts(): the devices of the file; short lines are skipped.
contacts(text) == {Seen(text[i]) : i \in DOMAIN text} \cap Contact

matching(text, name) == {c \in contacts(text) : c.name = name}

\* add_contact compares the first three words of a line, and not the hybrid key.
AlreadyHas(text, c) == \E k \in matching(text, c.name) : k.dev = c.dev

\* existing.push_str(line): the new line, or one that runs on from a cut line.
Pushed(text, c) ==
  IF text = <<>> \/ Last(text) \notin CutLine THEN {Append(text, c)}
  ELSE {Append(Front(text), r) : r \in IF Seen(Last(text)) = Short THEN Remains ELSE {Bad}}

\* What fs::write may leave when it is cut short: some lines and perhaps a part
\* of the next one.
Cuts(text) ==
  {SubSeq(text, 1, n) : n \in 0..Len(text)} \cup
  UNION {{Append(SubSeq(text, 1, n - 1), [cut |-> c]) : c \in Remains \cup {Seen(text[n])}} :
           n \in DOMAIN text}

\* What is left of a text when a new one is written over it from the start.
Leftovers(new, old) ==
  IF old = <<>> THEN {<<>>}
  ELSE {<<>>, <<Bad>>, SubSeq(old, Len(new) + 1, Len(old))}

=============================================================================
