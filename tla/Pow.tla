--------------------------------- MODULE Pow ---------------------------------
(***************************************************************************)
(* Proof of work (crates/core/src/pow.rs).  SHA-256 is external: digest_of *)
(* gives the digest of each nonce for one signer, content root and drop    *)
(* nonce, as a sequence of bytes of ByteBits bits.                         *)
(***************************************************************************)
EXTENDS FiniteSetsExt, Sequences, Naturals

CONSTANTS
  ByteBits,     \* 8 in the code
  Difficulty    \* POW_DIFFICULTY_BITS

\* u8::leading_zeros
leading_zeros(byte) == Max({k \in 0..ByteBits : byte < 2 ^ (ByteBits - k)})

leading_zero_bits_all(bytes) ==
  LET count[i \in 1..(Len(bytes) + 1)] ==
        IF i > Len(bytes) THEN 0 ELSE leading_zeros(bytes[i]) + count[i + 1]
  IN  count[1]

\* Zero bytes count in full, the first other byte with its leading zeros, and no more.
leading_zero_bits(bytes) ==
  LET count[i \in 1..(Len(bytes) + 1)] ==
        IF i > Len(bytes) THEN 0
        ELSE IF bytes[i] = 0 THEN ByteBits + count[i + 1]
        ELSE leading_zeros(bytes[i])
  IN  count[1]

is_valid(digest_of, nonce) == leading_zero_bits(digest_of[nonce]) >= Difficulty

\* mine: nonces are tried in order, from 0.
mine(digest_of) == Min({n \in DOMAIN digest_of : is_valid(digest_of, n)})

==============================================================================
