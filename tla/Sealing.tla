------------------------------- MODULE Sealing -------------------------------
(***************************************************************************)
(* What a drop contains and who can open it: create_drop and open_drop of  *)
(* crates/store/src/lib.rs with the chunk stream of crypto/src/stream.rs   *)
(* and the signatures of core/src/types.rs.  Cryptography is ideal: what   *)
(* is sealed opens with the very key and the very associated data only.    *)
(***************************************************************************)
EXTENDS Sequences, FiniteSetsExt, Integers

CONSTANTS
  ChunkSize,  \* DEFAULT_CHUNK_SIZE
  MinTags     \* MIN_TAGS

Err(e) == [ok |-> FALSE, err |-> e]

Ok(v) == [ok |-> TRUE, v |-> v]

-----------------------------------------------------------------------------
(* stream *)

\* How many chunks a plaintext makes: at least one.
total_of(len) == Max({1, (len + ChunkSize - 1) \div ChunkSize})

\* A chunk holds a piece of the text under the content key, the random prefix, its
\* index and the total.
stream_encrypt(key, prefix, text) ==
  [i \in 1..total_of(Len(text)) |->
    [key |-> key, prefix |-> prefix, index |-> i - 1, total |-> total_of(Len(text)),
     data |-> SubSeq(text, (i - 1) * ChunkSize + 1, Min({i * ChunkSize, Len(text)}))]]

decrypt_chunk_any_total(key, framing, index, c) ==
  index < framing.total /\ c.key = key /\ c.prefix = framing.prefix /\ c.index = index

\* decrypt_chunk: whether the chunk opens at this index.
decrypt_chunk(key, framing, index, c) ==
  /\ index < framing.total
  /\ c.key = key /\ c.prefix = framing.prefix /\ c.index = index /\ c.total = framing.total

\* decrypt: the data of the chunks one after the other, if each of them opens.
stream_decrypt(key, framing, chunks) ==
  LET out[i \in 0..Len(chunks)] == IF i = 0 THEN <<>> ELSE out[i - 1] \o chunks[i].data
  IN  IF Len(chunks) # framing.total THEN Err("Decrypt")
      ELSE IF \E i \in DOMAIN chunks : ~decrypt_chunk(key, framing, i - 1, chunks[i])
      THEN Err("Decrypt")
      ELSE Ok(out[Len(chunks)])

-----------------------------------------------------------------------------
(* Signatures.  A signature is the signer and what was signed. *)

Sig(by, over) == [by |-> by, over |-> over]

NoSig == [by |-> "none", over |-> <<>>]

\* sign and sign_hybrid; kind 1 carries no ML-DSA key and no second signature.
sign(signer, body) ==
  [kind |-> 1, signer |-> signer, ml |-> "none", payload |-> body,
   ed_sig |-> Sig(signer, body), ml_sig |-> NoSig]

sign_hybrid(signer, ml, body) ==
  [kind |-> 2, signer |-> signer, ml |-> ml, payload |-> body,
   ed_sig |-> Sig(signer, body), ml_sig |-> Sig(ml, body)]

verify_first_only(e) ==
  CASE e.kind = 1 -> e.ed_sig = Sig(e.signer, e.payload) /\ e.ml_sig = NoSig
    [] e.kind = 2 -> e.ml # "none" /\ e.ml_sig = Sig(e.ml, e.payload)
    [] OTHER -> FALSE

\* SignedDrop::verify: a kind 1 signature has nothing after the Ed25519 part; for kind 2
\* both parts are checked.
verify(e) ==
  CASE e.kind = 1 -> e.ed_sig = Sig(e.signer, e.payload) /\ e.ml_sig = NoSig
    [] e.kind = 2 -> /\ e.ml # "none"
                     /\ e.ml_sig = Sig(e.ml, e.payload)
                     /\ e.ed_sig = Sig(e.signer, e.payload)
    [] OTHER -> FALSE

-----------------------------------------------------------------------------
(* Wrapped keys *)

\* The content key sealed for a device under a suite; a decoy is sealed for nobody.
Wrapped(tag, suite, to, key) == [tag |-> tag, suite |-> suite, to |-> to, key |-> key]

\* create_drop: one key per recipient device, then classical decoys with random tags
\* up to MIN_TAGS.  tag_of[d] is derive_tag of d's key and the drop's nonce.
wrap(tag_of, devices, suite, key, decoys) ==
  [i \in DOMAIN devices |-> Wrapped(tag_of[devices[i]], suite, devices[i], key)]
    \o [i \in 1..(IF Len(devices) < MinTags THEN MinTags - Len(devices) ELSE 0) |->
         Wrapped(decoys[i], "classical", "nobody", "none")]

unwrap_first_match(tag_of, device, hybrid, keys) ==
  LET Match == {i \in DOMAIN keys : keys[i].tag = tag_of[device]}
  IN  IF Match = {} THEN Err("not addressed")
      ELSE IF keys[Min(Match)].suite = "hybrid" /\ ~hybrid THEN Err("no hybrid key")
      ELSE IF keys[Min(Match)].to = device THEN Ok(keys[Min(Match)].key) ELSE Err("not addressed")

\* open_drop's loop: the first key with the device's tag that opens; one that does not
\* open is passed over.  At a hybrid key with its tag the device loads its own hybrid
\* keypair, and if that fails (hybrid is FALSE) the loop ends with the error.
unwrap(tag_of, device, hybrid, keys) ==
  LET Match == {i \in DOMAIN keys : keys[i].tag = tag_of[device]}
      Opens == {i \in Match : keys[i].to = device}
      Stops == {i \in Match : keys[i].suite = "hybrid" /\ ~hybrid}
  IN  IF Opens \cup Stops = {} THEN Err("not addressed")
      ELSE IF Min(Opens \cup Stops) \in Stops THEN Err("no hybrid key")
      ELSE Ok(keys[Min(Opens \cup Stops)].key)

-----------------------------------------------------------------------------
(* Drops *)

\* create_drop from the recipients on; order is the shuffle of the wrapped keys.
create_drop(signer, tag_of, devices, suite, text, decoys, order) ==
  LET keys == wrap(tag_of, devices, suite, "content key", decoys)
      chunks == stream_encrypt("content key", "prefix", text)
      body == [keys |-> [i \in DOMAIN keys |-> keys[order[i]]],
               prefix |-> "prefix", total |-> Len(chunks), root |-> chunks, work |-> TRUE]
  IN  [envelope |-> IF suite = "hybrid" THEN sign_hybrid(signer, "ml", body) ELSE sign(signer, body),
       chunks |-> chunks]

\* open_drop, given the envelope and the chunk files of the drop.  chunk[i] exists for
\* the files that are there; their content is not compared with the content root.
open_drop(device, tag_of, hybrid, e, chunk) ==
  LET body == e.payload
      key == unwrap(tag_of, device, hybrid, body.keys)
      framing == [prefix |-> body.prefix, total |-> body.total]
  IN  IF ~verify(e) THEN Err("signature")
      ELSE IF ~body.work THEN Err("proof of work")
      ELSE IF ~key.ok THEN key
      ELSE IF ~(1..body.total \subseteq DOMAIN chunk) THEN Err("chunk missing")
      ELSE stream_decrypt(key.v, framing, [i \in 1..body.total |-> chunk[i]])

==============================================================================
