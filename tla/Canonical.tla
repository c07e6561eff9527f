------------------------------ MODULE Canonical ------------------------------
(***************************************************************************)
(* The structures with a canonical encoding: the body and the envelope of  *)
(* a drop (crates/core/src/types.rs), the presence request and attestation *)
(* (crates/core/src/presence.rs).  A structure is the list of its fields.  *)
(***************************************************************************)
EXTENDS Cbor

CONSTANTS
  KeyLen,    \* public keys, hashes and ids: 32 bytes in the code
  NonceLen,  \* every other fixed field: 8, 16, 20 or 24
  SigLen     \* an Ed25519 signature: 64

\* DropBody: all fields up to pow_nonce; then the wrapped keys.
BodyFields ==
  <<U8, U8, Text, U32, U64, U64, U8, U32, U32,
    Fixed(KeyLen), Fixed(NonceLen), Fixed(NonceLen), U64>>

\* WrappedKey: tag and kind, then the parts of the sealed key of that kind.
TagFields == <<Fixed(NonceLen), U64>>

SealedFields(kind) ==
  IF kind = 1 THEN <<Fixed(KeyLen), Fixed(NonceLen), AnyBytes>>
  ELSE <<Fixed(KeyLen), AnyBytes, Fixed(NonceLen), AnyBytes>>

write_wrapped(w) ==
  write_array(3, TagFields, <<w.tag, w.kind>>)
    \o write_array(Len(SealedFields(w.kind)), SealedFields(w.kind), w.sealed)

read_wrapped(b, pos) ==
  AndThen(read_array(3, TagFields, b, pos), LAMBDA t :
    IF t.v[2] \notin {1, 2} THEN Fail
    ELSE AndThen(read_array(Len(SealedFields(t.v[2])), SealedFields(t.v[2]), b, t.pos), LAMBDA s :
           Done([tag |-> t.v[1], kind |-> t.v[2], sealed |-> s.v], s.pos)))

body_to_canonical(body) ==
  write_array(14, BodyFields, body.fields)
    \o head(MAJOR_ARRAY, Len(body.keys))
    \o FlattenSeq([i \in 1..Len(body.keys) |-> write_wrapped(body.keys[i])])

\* The loop over the wrapped keys; it fails at the latest when the bytes run out.  That
\* room for the announced number is reserved first is not modelled.
read_keys(b, count) ==
  IF count.v > Len(b) THEN Fail
  ELSE FoldLeft(LAMBDA acc, i : AndThen(acc, LAMBDA r : Add(r, read_wrapped(b, r.pos))),
                Done(<<>>, count.pos), [i \in 1..count.v |-> i])

body_from_canonical(b) ==
  AndThen(read_array(14, BodyFields, b, 0), LAMBDA f :
    AndThen(AndThen(expect(b, f.pos, MAJOR_ARRAY), LAMBDA count : read_keys(b, count)), LAMBDA k :
      finish(Done([fields |-> f.v, keys |-> k.v], k.pos), b)))

\* SignedDrop: suite, sig_kind, signer, ml_dsa_key, payload, signature.
EnvelopeFields == <<U8, U8, Fixed(KeyLen), AnyBytes, AnyBytes, AnyBytes>>

encode_envelope(e) == write_array(6, EnvelopeFields, e)

envelope_decode(b) == finish(read_array(6, EnvelopeFields, b, 0), b)

\* PresenceRequest: cell, nonce, claimant, expiry.
RequestFields == <<Text, Fixed(NonceLen), Fixed(KeyLen), U64>>

request_to_canonical(r) == write_array(4, RequestFields, r)

request_from_canonical(b) == finish(read_array(4, RequestFields, b, 0), b)

\* PresenceAttestation: cell, nonce, claimant, rtt_bucket, timestamp, witness, signature.
AttestationFields ==
  <<Text, Fixed(NonceLen), Fixed(KeyLen), U8, U64, Fixed(KeyLen), Fixed(SigLen)>>

attestation_to_canonical(a) == write_array(7, AttestationFields, a)

attestation_from_canonical(b) == finish(read_array(7, AttestationFields, b, 0), b)

\* A signed tree head on the wire is not CBOR: fields of fixed size, one after the other.
SthFields == <<U64, Fixed(KeyLen), U64, Fixed(KeyLen), Fixed(SigLen)>>

Wide == Last(Widths)

STH_ENCODED_LEN == 2 * Wide + 2 * KeyLen + SigLen

sth_to_bytes(v) == ToBytes(v[1], Wide) \o v[2] \o ToBytes(v[3], Wide) \o v[4] \o v[5]

sth_from_bytes(b) ==
  LET root == Wide  timestamp == root + KeyLen  public == timestamp + Wide  sig == public + KeyLen
  IN  <<FromBytes(SubSeq(b, 1, root)), SubSeq(b, root + 1, timestamp),
        FromBytes(SubSeq(b, timestamp + 1, public)), SubSeq(b, public + 1, sig),
        SubSeq(b, sig + 1, STH_ENCODED_LEN)>>

\* fetch_sth: bytes of another length are refused.
fetch_sth(b) == IF Len(b) = STH_ENCODED_LEN THEN Done(sth_from_bytes(b), Len(b)) ELSE Fail

==============================================================================
