-------------------------------- MODULE Boxes --------------------------------
(***************************************************************************)
(* Sealing a content key to a device: crypto/src/sealed.rs (X25519) and    *)
(* crypto/src/hybrid.rs (X25519 and ML-KEM).  The primitives are external  *)
(* and ideal: results are terms, equal only if they are made the same way. *)
(* A public key is written as its owner; random draws are parameters.      *)
(***************************************************************************)
EXTENDS Naturals

Zero == <<"zero", "point">>

\* X25519: the same from both sides; the degenerate point gives itself.
diffie_hellman(secret, public) == IF public = Zero THEN {Zero} ELSE {secret, public}

\* ML-KEM: a ciphertext is the key it was made for and the draw.  With another key it
\* decapsulates to some other secret, not to an error.
encapsulate(kem, draw) == [ciphertext |-> <<kem, draw>>, shared |-> <<kem, draw, kem>>]

decapsulate(kem, ciphertext) == <<ciphertext[1], ciphertext[2], kem>>

derive_key32(ikm, salt) == [ikm |-> ikm, salt |-> salt]

aead_seal(key, nonce, aad, text) == [key |-> key, nonce |-> nonce, aad |-> aad, text |-> text]

aead_open(key, nonce, aad, c) ==
  IF c.key = key /\ c.nonce = nonce /\ c.aad = aad THEN [ok |-> TRUE, v |-> c.text] ELSE [ok |-> FALSE]

\* SealedKey::seal and SealedKey::open.
seal(content_key, recipient, ephemeral, nonce) ==
  LET key == derive_key32(<<diffie_hellman(ephemeral, recipient)>>, "default")
  IN  [ephemeral |-> ephemeral, nonce |-> nonce,
       ciphertext |-> aead_seal(key, nonce, "sealed", content_key)]

open(box, secret) ==
  LET shared == diffie_hellman(secret, box.ephemeral)
  IN  IF shared = {Zero} THEN [ok |-> FALSE]
      ELSE aead_open(derive_key32(<<shared>>, "default"), box.nonce, "sealed", box.ciphertext)

mix_classical(shared, kem_shared) == derive_key32(<<shared>>, "hybrid")

\* mix: both secrets go into the key.
mix(shared, kem_shared) == derive_key32(<<shared, kem_shared>>, "hybrid")

\* hybrid::seal and HybridKeypair::open.
hybrid_seal(content_key, recipient, ephemeral, draw, nonce) ==
  LET kem == encapsulate(recipient.kem, draw)
      key == mix(diffie_hellman(ephemeral, recipient.x25519), kem.shared)
  IN  [ephemeral |-> ephemeral, kem |-> kem.ciphertext, nonce |-> nonce,
       ciphertext |-> aead_seal(key, nonce, "hybrid", content_key)]

hybrid_open(box, keypair) ==
  LET key == mix(diffie_hellman(keypair.x25519, box.ephemeral), decapsulate(keypair.kem, box.kem))
  IN  aead_open(key, box.nonce, "hybrid", box.ciphertext)

==============================================================================
