------------------------------- MODULE MCHunt -------------------------------
(* Small instances of Hunt: one contact with a hybrid key, one without; one  *)
(* clue of each suite.                                                       *)
EXTENDS Hunt, TLC

CONSTANTS anna, ben

MCContact == {[name |-> anna, dev |-> 1, hybrid |-> TRUE], [name |-> ben, dev |-> 2, hybrid |-> FALSE]}

MCClue == {"near", "far"}

MCSuite == [m \in MCClue |-> IF m = "near" THEN "classical" ELSE "hybrid"]

Symmetry == Permutations(Proc)

=============================================================================
