-------------------------------- MODULE Merkle --------------------------------
(***************************************************************************)
(* The Merkle tree of crates/log/src/merkle.rs: tree hash, inclusion and   *)
(* consistency proofs and their verifiers.  A hash is a term: SHA-256 is   *)
(* taken to be injective on what is hashed, and the tag keeps leaves,      *)
(* inner nodes and the empty tree apart as the prefix bytes do.  A tree is *)
(* the sequence of its leaf hashes; None stands for Rust's None and Some   *)
(* results are non-empty tuples.                                           *)
(*                                                                         *)
(* The code's recursions all split n leaves at largest_power_of_two_less.  *)
(* Each is a recursive function of n here.  F_body is the body of the      *)
(* code's F with a recursive call F(k, ...) written f[k]...; a sub-slice   *)
(* of the leaves is given by its length n and its offset lo, and arguments *)
(* that every recursive call hands on unchanged are parameters.            *)
(***************************************************************************)
EXTENDS Integers, Sequences

\* No result: compute_root and verify_subproof return None.
None == <<>>

leaf_hash(data) == <<"leaf", data>>

node_hash(left, right) == <<"node", left, right>>

\* The root of the empty tree: the digest of the empty string.
EmptyHash == <<"empty">>

\* The loop that doubles k while the double is less than n: k after each of n turns,
\* which are more than it takes.
largest_power_of_two_less(n) ==
  LET k[i \in 0..n] == IF i = 0 THEN 1
                       ELSE IF k[i - 1] * 2 < n THEN k[i - 1] * 2
                       ELSE k[i - 1]
  IN k[n]

mth_body_pads_odd(h, leaves, n, lo) ==
  LET k == largest_power_of_two_less(n)
  IN CASE n = 0 -> EmptyHash
       [] n = 1 -> leaves[lo + 1]
       [] n = 3 -> node_hash(h[2][lo], node_hash(leaves[lo + 3], leaves[lo + 3]))
       [] OTHER -> node_hash(h[k][lo], h[n - k][lo + k])

mth_body(h, leaves, n, lo) ==
  LET k == largest_power_of_two_less(n)
  IN CASE n = 0 -> EmptyHash
       [] n = 1 -> leaves[lo + 1]
       [] OTHER -> node_hash(h[k][lo], h[n - k][lo + k])

\* The Merkle tree hash of every slice of the leaves.
slice_hashes(leaves) ==
  LET h[n \in 0..Len(leaves)] ==
        [lo \in 0..(Len(leaves) - n) |-> mth_body(h, leaves, n, lo)]
  IN h

mth(leaves) == slice_hashes(leaves)[Len(leaves)][0]

\* Without the shift the index is behind the right part, and the path that of its last leaf.
path_body_unshifted(p, h, n, lo, index) ==
  LET k == largest_power_of_two_less(n)
  IN IF n <= 1 THEN <<>>
     ELSE IF index < k THEN Append(p[k][lo][index], h[n - k][lo + k])
     ELSE Append(p[n - k][lo + k][n - k - 1], h[k][lo])

path_body(p, h, n, lo, index) ==
  LET k == largest_power_of_two_less(n)
  IN IF n <= 1 THEN <<>>
     ELSE IF index < k THEN Append(p[k][lo][index], h[n - k][lo + k])
     ELSE Append(p[n - k][lo + k][index - k], h[k][lo])

slice_paths(leaves) ==
  LET h == slice_hashes(leaves)
      p[n \in 0..Len(leaves)] ==
        [lo \in 0..(Len(leaves) - n) |->
          [index \in 0..(n - 1) |-> path_body(p, h, n, lo, index)]]
  IN p

\* inclusion_proof for an index inside the tree (it returns Err for any other).
inclusion_proof(leaves, index) == slice_paths(leaves)[Len(leaves)][0][index]

\* Some((root, next position in the proof)) or None; pos is 0 in every call.
compute_root_body(c, leaf, proof, n, index) ==
  LET k == largest_power_of_two_less(n)
      sub == IF index < k THEN c[k][index] ELSE c[n - k][index - k]
  IN IF n = 1 THEN <<leaf, 0>>
     ELSE IF sub = None THEN None
     ELSE IF sub[2] >= Len(proof) THEN None
     ELSE LET sibling == proof[sub[2] + 1]
          IN <<IF index < k THEN node_hash(sub[1], sibling) ELSE node_hash(sibling, sub[1]),
               sub[2] + 1>>

computed_roots(leaf, tree_size, proof) ==
  LET c[n \in 0..tree_size] ==
        [index \in 0..(n - 1) |-> compute_root_body(c, leaf, proof, n, index)]
  IN c

verify_inclusion(leaf, index, tree_size, proof, root) ==
  /\ index < tree_size
  /\ LET r == computed_roots(leaf, tree_size, proof)[tree_size][index]
     IN r # None /\ r[2] = Len(proof) /\ r[1] = root

subproof_body_old_known(s, h, n, lo, m, old_known) ==
  LET k == largest_power_of_two_less(n)
  IN IF m = n THEN IF old_known THEN <<>> ELSE <<h[n][lo]>>
     ELSE IF m <= k THEN Append(s[k][lo][m][old_known], h[n - k][lo + k])
     ELSE Append(s[n - k][lo + k][m - k][old_known], h[k][lo])

subproof_body(s, h, n, lo, m, old_known) ==
  LET k == largest_power_of_two_less(n)
  IN IF m = n THEN IF old_known THEN <<>> ELSE <<h[n][lo]>>
     ELSE IF m <= k THEN Append(s[k][lo][m][old_known], h[n - k][lo + k])
     ELSE Append(s[n - k][lo + k][m - k][FALSE], h[k][lo])

slice_subproofs(leaves) ==
  LET h == slice_hashes(leaves)
      s[n \in 0..Len(leaves)] ==
        [lo \in 0..(Len(leaves) - n) |->
          [m \in 1..n |->
            [old_known \in BOOLEAN |-> subproof_body(s, h, n, lo, m, old_known)]]]
  IN s

\* consistency_proof for m <= Len(leaves) (it returns Err for any other).
consistency_proof(leaves, m) ==
  IF m = 0 \/ m = Len(leaves) THEN <<>>
  ELSE slice_subproofs(leaves)[Len(leaves)][0][m][TRUE]

\* Some((old root, new root, next position in the proof)) or None; pos is 0 in every call.
verify_subproof_body(v, old_root, proof, n, m, old_known) ==
  IF m = n
  THEN IF old_known THEN <<old_root, old_root, 0>>
       ELSE IF Len(proof) = 0 THEN None
       ELSE <<proof[1], proof[1], 1>>
  ELSE LET k == largest_power_of_two_less(n)
           sub == IF m <= k THEN v[k][m][old_known] ELSE v[n - k][m - k][FALSE]
       IN IF sub = None THEN None
          ELSE IF sub[3] >= Len(proof) THEN None
          ELSE LET sibling == proof[sub[3] + 1]
               IN IF m <= k
                  THEN <<sub[1], node_hash(sub[2], sibling), sub[3] + 1>>
                  ELSE <<node_hash(sibling, sub[1]), node_hash(sibling, sub[2]), sub[3] + 1>>

verified_subproofs(old_root, tree_size, proof) ==
  LET v[n \in 0..tree_size] ==
        [m \in 1..n |->
          [old_known \in BOOLEAN |-> verify_subproof_body(v, old_root, proof, n, m, old_known)]]
  IN v

verify_consistency_new_only(m, n, old_root, new_root, proof) ==
  /\ m <= n
  /\ IF m = 0 THEN proof = <<>> /\ old_root = EmptyHash
     ELSE IF m = n THEN proof = <<>> /\ old_root = new_root
     ELSE LET r == verified_subproofs(old_root, n, proof)[n][m][TRUE]
          IN r # None /\ r[3] = Len(proof) /\ r[2] = new_root

verify_consistency(m, n, old_root, new_root, proof) ==
  /\ m <= n
  /\ IF m = 0 THEN proof = <<>> /\ old_root = EmptyHash
     ELSE IF m = n THEN proof = <<>> /\ old_root = new_root
     ELSE LET r == verified_subproofs(old_root, n, proof)[n][m][TRUE]
          IN r # None /\ r[3] = Len(proof) /\ r[1] = old_root /\ r[2] = new_root

==============================================================================
