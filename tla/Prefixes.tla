------------------------------- MODULE Prefixes -------------------------------
(* The prefix order on sequences.  (The community modules have it too; it is  *)
(* stated on its own here to keep what the prover has to read small.)         *)
EXTENDS Integers, Sequences

IsPrefix(s, t) == Len(s) <= Len(t) /\ \A i \in 1..Len(s) : s[i] = t[i]

==============================================================================
