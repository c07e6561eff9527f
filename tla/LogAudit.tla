------------------------------- MODULE LogAudit -------------------------------
(***************************************************************************)
(* An auditor following a node's log with the proofs of Merkle.  The node  *)
(* shows its log, which normally grows but may also come back with another *)
(* history (a directory restored from a copy, a second log under the same  *)
(* name); the auditor keeps the last tree head it accepted and moves to a  *)
(* newer one only with a consistency proof.  The library has no caller of  *)
(* verify_consistency outside its tests: the auditor is what the proofs    *)
(* are for.                                                                *)
(***************************************************************************)
EXTENDS Merkle, Prefixes

CONSTANTS
  Entry,      \* what may be logged
  MaxLeaves   \* bound: entries of a log

VARIABLES
  log,   \* the entries of the log the node shows
  seen   \* the entries under the last head the auditor accepted

vars == <<log, seen>>

Logs == UNION {[1..n -> Entry] : n \in 0..MaxLeaves}

Leaves(entries) == [i \in DOMAIN entries |-> leaf_hash(entries[i])]

mth_data(entries) == mth(Leaves(entries))

\* What the auditor is shown, and whether it accepts.
Accepts(old, new) ==
  LET m == Len(old)
      proof == consistency_proof(Leaves(new), m)
  IN m <= Len(new) /\ verify_consistency(m, Len(new), mth_data(old), mth_data(new), proof)

\* Store::verify, as far as the log is concerned: the first entry with the drop's hash
\* is looked up and its inclusion proved.  An entry may be there several times, once for
\* each fetch.
store_verify(entries, x) ==
  LET At == {i \in 0..(Len(entries) - 1) : entries[i + 1] = x}
      index == CHOOSE i \in At : \A j \in At : i <= j
  IN  IF At = {} THEN [found |-> FALSE]
      ELSE [found |-> TRUE, leaf_index |-> index, tree_size |-> Len(entries),
            inclusion |-> verify_inclusion(leaf_hash(x), index, Len(entries),
                            inclusion_proof(Leaves(entries), index), mth_data(entries))]

Init == log = <<>> /\ seen = <<>>

AppendEntry(x) ==
  /\ Len(log) < MaxLeaves
  /\ log' = Append(log, x)
  /\ UNCHANGED seen

OtherHistory(other) == log' = other /\ UNCHANGED seen

Audit == Accepts(seen, log) /\ seen' = log /\ UNCHANGED log

Next ==
  \/ \E x \in Entry : AppendEntry(x)
  \/ \E other \in Logs : OtherHistory(other)
  \/ Audit

Spec == Init /\ [][Next]_vars

\* detect_equivocation on the heads of two logs.
detect_equivocation(a, b) == Len(a) = Len(b) /\ mth_data(a) # mth_data(b)

------------------------------------------------------------------------------
\* The auditor follows one history: what it has accepted is never rewritten,
\* whatever log it is shown and whatever proof that log yields.
SeenOnlyGrows == [][IsPrefix(seen, seen')]_vars

\* A log that has only been appended to is always accepted, at every pair of sizes.
GrowthAccepted == IsPrefix(seen, log) => Accepts(seen, log)

\* Tree heads commit to the log: two logs with one root are the same log, so two
\* heads of one size equivocate exactly when the histories differ.
RootsCommit ==
  /\ mth_data(seen) = mth_data(log) => seen = log
  /\ detect_equivocation(seen, log) <=> Len(seen) = Len(log) /\ seen # log

\* Inclusion is exact.  Verifying a drop succeeds while the drop is in the log, and the
\* leaf index it reports stays the drop's index however the log grows, repeated entries
\* included; a proof taken from any log, for any index, verifies for nothing that is not
\* there.
InclusionExact ==
  LET n == Len(log)
      root == mth_data(log)
  IN
  /\ \A x \in Entry :
       LET now == store_verify(log, x)
           before == store_verify(seen, x)
       IN  /\ now.found <=> \E i \in DOMAIN log : log[i] = x
           /\ now.found => now.inclusion
           /\ IsPrefix(seen, log) /\ before.found => now.found /\ now.leaf_index = before.leaf_index
  /\ \A i \in 0..(n - 1) :
       verify_inclusion(leaf_hash(log[i + 1]), i, n, inclusion_proof(Leaves(log), i), root)
  /\ \A from \in {log, seen} : \A i \in 0..(Len(from) - 1) :
       LET proof == inclusion_proof(Leaves(from), i)
       IN  \A j \in 0..(n - 1), x \in Entry :
             verify_inclusion(leaf_hash(x), j, n, proof, root) => log[j + 1] = x

==============================================================================
