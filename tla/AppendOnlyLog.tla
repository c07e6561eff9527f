---------------------------- MODULE AppendOnlyLog ----------------------------
(***************************************************************************)
(* What a node's transparency log promises its auditors, whatever happens  *)
(* underneath: the list of entries is only ever extended, and every tree   *)
(* head the node signs commits to the entries of that moment, or to none   *)
(* if the log could not be read.                                           *)
(***************************************************************************)
EXTENDS Prefixes

VARIABLES
  log,    \* the entries a reader of the log is given
  heads   \* the lists of entries that signed tree heads commit to

Init == log = <<>> /\ heads = {}

Extend == UNCHANGED heads /\ IsPrefix(log, log')

Publish == (\E entries \in {log, <<>>} : heads' = heads \cup {entries}) /\ UNCHANGED log

Next == Extend \/ Publish

Spec == Init /\ [][Next]_<<log, heads>>

==============================================================================
