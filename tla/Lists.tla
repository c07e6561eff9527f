-------------------------------- MODULE Lists --------------------------------
(* Three operators on sequences.  (The community modules have them too; they  *)
(* are stated on their own here to keep what the prover has to read small.)   *)
EXTENDS Integers, Sequences

\* The elements of a sequence.
ToSet(s) == {s[i] : i \in DOMAIN s}

Last(s) == s[Len(s)]

\* All but the last element.
Front(s) == SubSeq(s, 1, Len(s) - 1)

==============================================================================
