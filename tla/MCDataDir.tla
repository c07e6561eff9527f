------------------------------ MODULE MCDataDir ------------------------------
(* Small instances of DataDir.  Envelopes are distinct and their bytes, read *)
(* as headers, announce lengths inside and outside the file.                 *)
EXTENDS DataDir, TLC

CONSTANTS d1, d2, r1

MCEnvelope == (d1 :> <<2>>) @@ (d2 :> <<0, 1>>) @@ (r1 :> <<1, 0>>)

MCChunkCount == (d1 :> 1) @@ (d2 :> 2) @@ (r1 :> 1)

\* The processes are interchangeable.
Symmetry == Permutations(Proc)

==============================================================================
