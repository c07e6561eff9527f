------------------------------ MODULE Presence ------------------------------
(***************************************************************************)
(* Presence certificates (crates/core/src/presence.rs) and the witness     *)
(* that attests (witness_respond and request_presence, node/src/net.rs).   *)
(* A claimant asks witnesses one after the other and puts the attestations *)
(* it gets into a certificate, as the repository's tests do.               *)
(***************************************************************************)
EXTENDS Sequences, Naturals

\* A request: cell, nonce, claimant, expiry; expiry 0 is none.
\* PresenceAttestation::sign: what the witness signs is everything but the expiry.
attest(witness, request) ==
  [cell |-> request.cell, nonce |-> request.nonce, claimant |-> request.claimant,
   witness |-> witness, signed |-> <<witness, request.cell, request.nonce, request.claimant>>]

attestation_verify(a) == a.signed = <<a.witness, a.cell, a.nonce, a.claimant>>

\* witness_respond at a witness of cell home, as request_presence sees it: the
\* attestations it returns, one or none.
request_presence(witness, home, request) ==
  IF request.cell = home THEN <<attest(witness, request)>> ELSE <<>>

Matches(a, request) ==
  a.cell = request.cell /\ a.nonce = request.nonce /\ a.claimant = request.claimant

cert_verify_repeats(request, attestations, threshold) ==
  /\ threshold # 0 /\ Len(attestations) >= threshold
  /\ \A i \in DOMAIN attestations :
       Matches(attestations[i], request) /\ attestation_verify(attestations[i])

\* PresenceCert::verify: one attestation that does not match, is not signed or is a
\* second one of its witness spoils the certificate.
cert_verify(request, attestations, threshold) ==
  /\ threshold # 0 /\ Len(attestations) >= threshold
  /\ \A i \in DOMAIN attestations :
       /\ Matches(attestations[i], request)
       /\ attestation_verify(attestations[i])
       /\ \A j \in 1..(i - 1) : attestations[j].witness # attestations[i].witness

\* PresenceCert::verify_at
cert_verify_at(request, attestations, threshold, now) ==
  (request.expiry = 0 \/ now <= request.expiry) /\ cert_verify(request, attestations, threshold)

=============================================================================
