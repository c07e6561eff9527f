------------------------------- MODULE LogFile -------------------------------
(***************************************************************************)
(* The transparency log's file, log/entries.bin, and the parser that turns *)
(* it into the list of log entries (crates/store/src/lib.rs, log_entries). *)
(*                                                                         *)
(* The file is a sequence of bytes: for each entry a length header, big    *)
(* endian, and then the bytes of an envelope.  Bytes of an envelope that   *)
(* the parser meets where it expects a header are read as a header.        *)
(***************************************************************************)
EXTENDS Integers, Sequences, Prefixes

CONSTANTS
  Base,      \* number of byte values: 256 in the code
  HeaderLen  \* bytes of a length header: 4 in the code

ASSUME FormatAssumption == Base \in Nat \ {0} /\ HeaderLen \in Nat \ {0}

Byte == 0..(Base - 1)

\* u32::from_be_bytes: each digit shifts the ones before it.
from_be_bytes(h) ==
  LET value[n \in 0..HeaderLen] == IF n = 0 THEN 0 ELSE Base * value[n - 1] + h[n]
  IN value[HeaderLen]

\* u32::to_be_bytes, for a length that fits.
to_be_bytes(len) == CHOOSE h \in [1..HeaderLen -> Byte] : from_be_bytes(h) = len

\* u32::try_from(len) succeeds.
Fits(len) == \E h \in [1..HeaderLen -> Byte] : from_be_bytes(h) = len

\* The length that a header at offset c announces.
LengthAt(f, c) == from_be_bytes(SubSeq(f, c + 1, c + HeaderLen))

\* The loop condition of the parser at offset c: a whole header is there, and
\* the entry it announces ends inside the file.
CanRead(f, c) == c + HeaderLen <= Len(f) /\ c + HeaderLen + LengthAt(f, c) <= Len(f)

\* One turn of the loop takes the cursor behind the entry whose header is at offset
\* c; once the loop has ended the cursor stays where it stopped.
Turn(f, c) == IF CanRead(f, c) THEN c + HeaderLen + LengthAt(f, c) ELSE c

\* Cursors(f)[n] is the parser's cursor after n turns.
Cursors(f) ==
  LET turn == [c \in 0..Len(f) |-> Turn(f, c)]
      cursor[n \in 0..Len(f)] == IF n = 0 THEN 0 ELSE turn[cursor[n - 1]]
  IN cursor

\* The number of turns after which the loop ends.
Turns(f) ==
  LET cursor == Cursors(f)
  IN CHOOSE k \in 0..Len(f) :
       ~CanRead(f, cursor[k]) /\ \A j \in 0..(k - 1) : CanRead(f, cursor[j])

log_entries_truncating(f) ==
  LET cursor == Cursors(f)
      whole == [i \in 1..Turns(f) |-> SubSeq(f, cursor[i - 1] + HeaderLen + 1, cursor[i])]
      rest == SubSeq(f, cursor[Turns(f)] + HeaderLen + 1, Len(f))
  IN IF rest = <<>> THEN whole ELSE Append(whole, rest)

\* The log's entries: what every reader of the log is given.
log_entries(f) ==
  LET cursor == Cursors(f)
  IN [i \in 1..Turns(f) |-> SubSeq(f, cursor[i - 1] + HeaderLen + 1, cursor[i])]

==============================================================================
