----------------------------- MODULE Drops_proofs -----------------------------
(***************************************************************************)
(* What sealing, streams, envelopes and certificates promise, for any      *)
(* devices, texts, tags, decoys, shuffles and chunk sizes.                 *)
(***************************************************************************)
EXTENDS MCDrops, FiniteSetTheorems, TLAPS

------------------------------------------------------------------------------
(* Sequences *)

\* The length and the domain of a sequence.
LEMMA LengthIs ==
  ASSUME NEW T, NEW s \in Seq(T)
  PROVE  Len(s) \in Nat /\ DOMAIN s = 1..Len(s)
OBVIOUS

\* What two sequences make one after the other.
LEMMA JoinIs ==
  ASSUME NEW T, NEW s \in Seq(T), NEW t \in Seq(T)
  PROVE  /\ s \o t \in Seq(T) /\ Len(s \o t) = Len(s) + Len(t)
         /\ \A i \in 1..(Len(s) + Len(t)) :
              (s \o t)[i] = IF i <= Len(s) THEN s[i] ELSE t[i - Len(s)]
OBVIOUS

\* A sequence from its first to its last element.
LEMMA WholeIs ==
  ASSUME NEW T, NEW s \in Seq(T)
  PROVE  SubSeq(s, 1, Len(s)) = s
OBVIOUS

\* The beginning of a sequence and the piece that follows it.
LEMMA PiecesJoin ==
  ASSUME NEW T, NEW s \in Seq(T), NEW a \in 0..Len(s), NEW c \in a..Len(s)
  PROVE  /\ Len(SubSeq(s, a + 1, c)) = c - a
         /\ SubSeq(s, 1, a) \o SubSeq(s, a + 1, c) = SubSeq(s, 1, c)
<1>1. PICK p, q, t : p = SubSeq(s, 1, a) /\ q = SubSeq(s, a + 1, c) /\ t = SubSeq(s, 1, c)
  BY Zenon
<1>2. /\ p \in Seq(T) /\ Len(p) = a
      /\ \A i \in 1..a : p[i] = s[i]
  BY <1>1
<1>3. /\ q \in Seq(T) /\ Len(q) = c - a
      /\ \A i \in 1..(c - a) : q[i] = s[a + i]
  BY <1>1
<1>4. /\ t \in Seq(T) /\ Len(t) = c
      /\ \A i \in 1..c : t[i] = s[i]
  BY <1>1
<1>5. PICK u : u = p \o q
  BY Zenon
<1>6. /\ u \in Seq(T) /\ Len(u) = Len(p) + Len(q)
      /\ \A i \in 1..(Len(p) + Len(q)) : u[i] = IF i <= Len(p) THEN p[i] ELSE q[i - Len(p)]
  BY ZenonT(40), <1>2, <1>3, <1>5, JoinIs
<1>7. u = t
  <2>1. Len(u) = c
    BY <1>2, <1>3, <1>6
  <2>2. ASSUME NEW i \in 1..c
        PROVE  u[i] = s[i]
    <3>1. /\ i \in 1..(Len(p) + Len(q))
          /\ i <= Len(p) => i \in 1..a
          /\ ~(i <= Len(p)) => i - Len(p) \in 1..(c - a) /\ a + (i - Len(p)) = i
      BY <1>2, <1>3
    <3>2. CASE i <= Len(p)
      BY Zenon, <1>2, <1>6, <3>1, <3>2
    <3>3. CASE ~(i <= Len(p))
      BY Zenon, <1>3, <1>6, <3>1, <3>3
    <3> QED
      BY Zenon, <3>2, <3>3
  <2> QED
    BY SMTT(30), <1>4, <1>6, <2>1, <2>2
<1> QED
  BY Zenon, <1>1, <1>3, <1>5, <1>7

------------------------------------------------------------------------------
(* Certificates *)

\* PresenceCert::verify_at accepts only what a threshold of different witnesses have
\* signed for this very request, and only before the request expires.
THEOREM CertProvesPresence ==
  ASSUME NEW D, NEW attestations \in Seq(D), NEW request, NEW threshold \in Nat, NEW now \in Nat,
         cert_verify_at(request, attestations, threshold, now)
  PROVE  /\ threshold > 0
         /\ Cardinality({attestations[i].witness : i \in DOMAIN attestations}) >= threshold
         /\ \A i \in DOMAIN attestations :
              attestations[i].signed
                = <<attestations[i].witness, request.cell, request.nonce, request.claimant>>
         /\ request.expiry # 0 => now <= request.expiry
<1> DEFINE n == Len(attestations)
           W == {attestations[i].witness : i \in 1..n}
           f == [i \in 1..n |-> attestations[i].witness]
<1>1. n \in Nat /\ DOMAIN attestations = 1..n
  OBVIOUS
<1>2. /\ threshold # 0 /\ n >= threshold
      /\ \A i \in 1..n : /\ Matches(attestations[i], request)
                         /\ attestation_verify(attestations[i])
                         /\ \A j \in 1..(i - 1) : attestations[j].witness # attestations[i].witness
      /\ request.expiry = 0 \/ now <= request.expiry
  BY Zenon, <1>1 DEF cert_verify_at, cert_verify
<1>3. f \in Bijection(1..n, W)
  <2>1. f \in [1..n -> W]
    OBVIOUS
  <2>2. ASSUME NEW i \in 1..n, NEW j \in 1..n, i # j
        PROVE  f[i] # f[j]
    <3>1. CASE j < i
      BY <1>1, <1>2, <3>1
    <3>2. CASE i < j
      BY <1>1, <1>2, <3>2
    <3> QED
      BY SMTT(30), <1>1, <2>2, <3>1, <3>2
  <2>3. \A w \in W : \E i \in 1..n : f[i] = w
    OBVIOUS
  <2> HIDE DEF f, W
  <2>4. DOMAIN f = 1..n
    BY Zenon, <2>1
  <2>5. IsInjective(f)
    BY Zenon, <2>2, <2>4 DEF IsInjective
  <2> QED
    BY Zenon, <2>1, <2>3, <2>5 DEF Bijection, Injection, Surjection
<1>4. IsFiniteSet(1..n) /\ Cardinality(1..n) = n
  <2> HIDE DEF n
  <2>1. 1 \in Int /\ n \in Int
    BY <1>1
  <2>2. IsFiniteSet(1..n) /\ Cardinality(1..n) = IF 1 > n THEN 0 ELSE n - 1 + 1
    BY Zenon, <2>1, FS_Interval
  <2>3. (IF 1 > n THEN 0 ELSE n - 1 + 1) = n
    BY <1>1
  <2> QED
    BY <2>2, <2>3
<1>5. Cardinality(W) = n
  <2> HIDE DEF f, W
  <2> QED
    BY <1>3, <1>4, FS_Bijection DEF ExistsBijection
<1>6. \A i \in 1..n :
        attestations[i].signed
          = <<attestations[i].witness, request.cell, request.nonce, request.claimant>>
  BY Zenon, <1>2 DEF Matches, attestation_verify
<1>7. W = {attestations[i].witness : i \in DOMAIN attestations}
  BY Zenon, <1>1
<1>8. threshold > 0
  BY <1>2
<1> HIDE DEF W, n
<1>9. Cardinality(W) >= threshold
  BY Zenon, <1>2, <1>5
<1> QED
  BY Zenon, <1>1, <1>2, <1>6, <1>7, <1>8, <1>9

\* Attestations of different witnesses of the cell, at least as many as the threshold,
\* are a certificate until the request expires, the last second included.
THEOREM CertIsAccepted ==
  ASSUME NEW People, NEW asked \in Seq(People),
         \A i, j \in DOMAIN asked : asked[i] = asked[j] => i = j,
         NEW request, NEW threshold \in 1..Len(asked), NEW now \in Nat,
         request.expiry = 0 \/ now <= request.expiry
  PROVE  cert_verify_at(request, [i \in DOMAIN asked |-> attest(asked[i], request)],
                        threshold, now)
<1> DEFINE a == [i \in DOMAIN asked |-> attest(asked[i], request)]
<1>1. Len(a) = Len(asked) /\ DOMAIN a = 1..Len(asked) /\ DOMAIN asked = 1..Len(asked)
  OBVIOUS
<1>2. \A i \in 1..Len(asked) : a[i] = attest(asked[i], request) /\ a[i].witness = asked[i]
  BY <1>1 DEF attest
<1>3. \A i \in 1..Len(asked) : Matches(a[i], request) /\ attestation_verify(a[i])
  BY <1>2 DEF attest, Matches, attestation_verify
<1>4. \A i \in 1..Len(asked) : \A j \in 1..(i - 1) : a[j].witness # a[i].witness
  BY <1>1, <1>2
<1>5. threshold # 0 /\ Len(a) >= threshold
  BY <1>1
<1> QED
  BY Zenon, <1>1, <1>3, <1>4, <1>5 DEF cert_verify_at, cert_verify

------------------------------------------------------------------------------
(* Sealed keys *)

\* Which two secrets X25519 was given, from what it returned.
LEMMA SamePair ==
  ASSUME NEW a, NEW b, NEW c, {a, b} = {c, a}
  PROVE  c = b
OBVIOUS

\* SealedKey::open gives back the key to the device it was sealed to, and to no other.
THEOREM SealedOpensForOne ==
  ASSUME NEW content_key, NEW recipient, NEW ephemeral, NEW nonce, NEW secret,
         recipient # Zero, ephemeral # Zero
  PROVE  open(seal(content_key, recipient, ephemeral, nonce), secret)
           = IF secret = recipient THEN [ok |-> TRUE, v |-> content_key] ELSE [ok |-> FALSE]
<1> DEFINE box == seal(content_key, recipient, ephemeral, nonce)
           key == derive_key32(<<{ephemeral, recipient}>>, "default")
           shared == {secret, ephemeral}
<1>1. /\ box.ephemeral = ephemeral /\ box.nonce = nonce
      /\ box.ciphertext = aead_seal(key, nonce, "sealed", content_key)
  BY DEF seal, diffie_hellman
<1>2. diffie_hellman(secret, ephemeral) = shared /\ shared # {Zero}
  BY DEF diffie_hellman
<1>3. open(box, secret)
        = aead_open(derive_key32(<<shared>>, "default"), nonce, "sealed",
                    aead_seal(key, nonce, "sealed", content_key))
  BY Zenon, <1>1, <1>2 DEF open
<1>4. derive_key32(<<shared>>, "default") = key <=> secret = recipient
  <2>1. ASSUME derive_key32(<<shared>>, "default") = key
        PROVE  {ephemeral, recipient} = {secret, ephemeral}
    BY <2>1 DEF derive_key32
  <2>2. ASSUME secret = recipient
        PROVE  {ephemeral, recipient} = {secret, ephemeral}
    BY <2>2
  <2> QED
    BY Zenon, <2>1, <2>2, SamePair
<1> HIDE DEF box, key, shared
<1>5. \A k : aead_open(k, nonce, "sealed", aead_seal(key, nonce, "sealed", content_key))
               = IF key = k THEN [ok |-> TRUE, v |-> content_key] ELSE [ok |-> FALSE]
  BY DEF aead_open, aead_seal
<1> QED
  BY Zenon, <1>3, <1>4, <1>5 DEF box

\* A box that opens, and has the ciphertext that was sealed to a device, is that box in
\* all its parts and opened by that device: nothing in it can be exchanged.  (The secret
\* is not the ephemeral one, which the sender forgets.)
THEOREM SealedBoxIsWhole ==
  ASSUME NEW content_key, NEW recipient, NEW ephemeral, NEW nonce, NEW secret, NEW box,
         recipient # Zero, ephemeral # Zero, secret # ephemeral,
         box.ciphertext = seal(content_key, recipient, ephemeral, nonce).ciphertext,
         open(box, secret).ok
  PROVE  /\ secret = recipient /\ box.ephemeral = ephemeral /\ box.nonce = nonce
         /\ open(box, secret).v = content_key
<1> DEFINE c == aead_seal(derive_key32(<<{ephemeral, recipient}>>, "default"), nonce, "sealed",
                          content_key)
<1>1. box.ciphertext = c
  BY DEF seal, diffie_hellman
<1>2. PICK shared : shared = diffie_hellman(secret, box.ephemeral)
  BY Zenon
<1>3. shared # {Zero} /\ open(box, secret) = aead_open(derive_key32(<<shared>>, "default"), box.nonce, "sealed", c)
  BY <1>1, <1>2 DEF open
<1>4. derive_key32(<<shared>>, "default") = derive_key32(<<{ephemeral, recipient}>>, "default")
      /\ box.nonce = nonce /\ open(box, secret).v = content_key
  BY <1>3 DEF aead_open, aead_seal
<1>5. shared = {ephemeral, recipient}
  BY <1>4 DEF derive_key32
<1>6. shared = {secret, box.ephemeral}
  BY <1>2, <1>3 DEF diffie_hellman
<1>7. box.ephemeral = ephemeral /\ secret = recipient
  BY <1>5, <1>6
<1> QED
  BY Zenon, <1>4, <1>7

\* The same for HybridKeypair::open: both the X25519 and the ML-KEM key of the recipient
\* are needed.
THEOREM HybridOpensForOne ==
  ASSUME NEW content_key, NEW recipient, NEW ephemeral, NEW draw, NEW nonce, NEW keypair,
         recipient.x25519 # Zero, ephemeral # Zero
  PROVE  hybrid_open(hybrid_seal(content_key, recipient, ephemeral, draw, nonce), keypair)
           = IF keypair.x25519 = recipient.x25519 /\ keypair.kem = recipient.kem
             THEN [ok |-> TRUE, v |-> content_key] ELSE [ok |-> FALSE]
<1> DEFINE box == hybrid_seal(content_key, recipient, ephemeral, draw, nonce)
<1>0. PICK x, y, k, l : /\ x = recipient.x25519 /\ y = keypair.x25519
                        /\ k = recipient.kem /\ l = keypair.kem
  BY Zenon
<1>1. PICK key : key = mix({ephemeral, x}, <<k, draw, k>>)
  BY Zenon
<1>2. /\ box.ephemeral = ephemeral /\ box.kem = <<k, draw>> /\ box.nonce = nonce
      /\ box.ciphertext = aead_seal(key, nonce, "hybrid", content_key)
  BY <1>0, <1>1 DEF hybrid_seal, diffie_hellman, encapsulate
<1>3. PICK other : other = mix({y, ephemeral}, <<k, draw, l>>)
  BY Zenon
<1> HIDE DEF box
<1>4. hybrid_open(box, keypair)
        = aead_open(other, nonce, "hybrid", aead_seal(key, nonce, "hybrid", content_key))
  BY <1>0, <1>2, <1>3 DEF hybrid_open, diffie_hellman, decapsulate
<1>5. other = key <=> y = x /\ l = k
  <2>1. ASSUME other = key
        PROVE  {ephemeral, x} = {y, ephemeral} /\ l = k
    BY <1>1, <1>3, <2>1 DEF mix, derive_key32
  <2>2. ASSUME y = x, l = k
        PROVE  other = key
    <3>1. {ephemeral, x} = {y, ephemeral}
      BY <2>2
    <3> QED
      BY Zenon, <1>1, <1>3, <2>2, <3>1
  <2> QED
    BY Zenon, <2>1, <2>2, SamePair
<1>6. aead_open(other, nonce, "hybrid", aead_seal(key, nonce, "hybrid", content_key))
        = IF key = other THEN [ok |-> TRUE, v |-> content_key] ELSE [ok |-> FALSE]
  BY DEF aead_open, aead_seal
<1> QED
  BY Zenon, <1>0, <1>4, <1>5, <1>6 DEF box

\* And a hybrid box that opens with a ciphertext sealed to a device is that box.
THEOREM HybridBoxIsWhole ==
  ASSUME NEW content_key, NEW recipient, NEW ephemeral, NEW draw, NEW nonce, NEW keypair,
         NEW box, NEW kem, NEW d, box.kem = <<kem, d>>,
         recipient.x25519 # Zero, ephemeral # Zero, keypair.x25519 # ephemeral,
         box.ciphertext = hybrid_seal(content_key, recipient, ephemeral, draw, nonce).ciphertext,
         hybrid_open(box, keypair).ok
  PROVE  /\ keypair.x25519 = recipient.x25519 /\ keypair.kem = recipient.kem
         /\ box.ephemeral = ephemeral /\ box.nonce = nonce
         /\ box.kem = hybrid_seal(content_key, recipient, ephemeral, draw, nonce).kem
         /\ hybrid_open(box, keypair).v = content_key
<1>0. PICK x, y, k, l, e : /\ x = recipient.x25519 /\ y = keypair.x25519
                           /\ k = recipient.kem /\ l = keypair.kem /\ e = box.ephemeral
  BY Zenon
<1>1. PICK key : key = mix({ephemeral, x}, <<k, draw, k>>)
  BY Zenon
<1>2. PICK c : c = aead_seal(key, nonce, "hybrid", content_key)
  BY Zenon
<1>3. box.ciphertext = c
  BY <1>0, <1>1, <1>2 DEF hybrid_seal, diffie_hellman, encapsulate
<1>4. hybrid_seal(content_key, recipient, ephemeral, draw, nonce).kem = <<k, draw>>
  BY <1>0 DEF hybrid_seal, encapsulate
<1>5. PICK shared : shared = diffie_hellman(y, e)
  BY Zenon
<1>6. PICK other : other = mix(shared, <<kem, d, l>>)
  BY Zenon
<1>7. hybrid_open(box, keypair) = aead_open(other, box.nonce, "hybrid", c)
  BY SMTT(30), <1>0, <1>3, <1>5, <1>6 DEF hybrid_open, decapsulate
<1>8. other = key /\ box.nonce = nonce /\ hybrid_open(box, keypair).v = content_key
  BY <1>2, <1>7 DEF aead_open, aead_seal
<1>9. shared = {ephemeral, x} /\ kem = k /\ d = draw /\ l = k
  BY <1>1, <1>6, <1>8 DEF mix, derive_key32
<1>10. e = ephemeral /\ y = x
  <2>1. e # Zero
    BY <1>0, <1>5, <1>9 DEF diffie_hellman
  <2>2. {y, e} = {ephemeral, x}
    BY <1>5, <1>9, <2>1 DEF diffie_hellman
  <2> QED
    BY <1>0, <2>2
<1> QED
  BY Zenon, <1>0, <1>4, <1>8, <1>9, <1>10

------------------------------------------------------------------------------
(* Wrapped keys *)

\* A non-empty set of naturals has a least element, which Min gives.
LEMMA MinIs ==
  ASSUME NEW T, T \subseteq Nat, T # {}
  PROVE  Min(T) \in T /\ \A m \in T : Min(T) <= m
<1>1. PICK n \in T : \A m \in T : ~(<<m, n>> \in OpToRel(<, Nat))
  BY Zenon, NatLessThanWellFounded, WFMin
<1>2. ASSUME NEW m \in T
      PROVE  n <= m
  <2>1. m \in Nat /\ n \in Nat
    BY Zenon
  <2>2. ~(m < n)
    BY Zenon, <1>1, <2>1 DEF OpToRel
  <2> QED
    BY <2>1, <2>2
<1> QED
  BY Zenon, <1>2 DEF Min

\* How many decoys create_drop adds.
DecoyCount(devices) == IF Len(devices) < MinTags THEN MinTags - Len(devices) ELSE 0

\* How many wrapped keys a drop for these devices has.
KeyCount(devices) == Len(devices) + DecoyCount(devices)

\* A shuffle of n things.
IsShuffle(order, n) ==
  /\ order \in [1..n -> 1..n]
  /\ \A i \in 1..n : \E j \in 1..n : order[j] = i

\* The keys in the order of the shuffle.
Shuffled(keys, order) == [i \in DOMAIN keys |-> keys[order[i]]]

\* The i-th key: one for a device, or a decoy.
IsKey(k, i, tag_of, devices, suite, key, decoys) ==
  \/ /\ i <= Len(devices)
     /\ k = Wrapped(tag_of[devices[i]], suite, devices[i], key)
  \/ /\ i > Len(devices)
     /\ k = Wrapped(decoys[i - Len(devices)], "classical", "nobody", "none")

\* The wrapped keys as create_drop lays them out before the shuffle: first one for each
\* device, then the decoys.
LEMMA WrapIs ==
  ASSUME MinTags \in Nat, NEW Dev, NEW devices \in Seq(Dev), NEW tag_of, NEW suite, NEW key,
         NEW decoys
  PROVE  LET keys == wrap(tag_of, devices, suite, key, decoys)
         IN
         /\ KeyCount(devices) \in Nat /\ Len(devices) <= KeyCount(devices)
         /\ DOMAIN keys = 1..KeyCount(devices)
         /\ \A i \in 1..KeyCount(devices) :
              IsKey(keys[i], i, tag_of, devices, suite, key, decoys)
<1> DEFINE keys == wrap(tag_of, devices, suite, key, decoys)
           a(i) == Wrapped(tag_of[devices[i]], suite, devices[i], key)
           b(i) == Wrapped(decoys[i], "classical", "nobody", "none")
<1>1. PICK n \in Nat, m \in Nat : n = Len(devices) /\ m = DecoyCount(devices)
  <2>1. PICK l \in Nat : l = Len(devices)
    BY Zenon, LengthIs
  <2>2. (IF l < MinTags THEN MinTags - l ELSE 0) \in Nat
    OBVIOUS
  <2> QED
    BY Zenon, <2>1, <2>2 DEF DecoyCount
<1>2. DOMAIN devices = 1..n
  BY <1>1
<1>3. PICK p, q : p = [i \in 1..n |-> a(i)] /\ q = [i \in 1..m |-> b(i)]
  BY Zenon
<1>4. keys = p \o q
  BY Zenon, <1>1, <1>2, <1>3 DEF wrap, DecoyCount
<1> HIDE DEF keys
<1> DEFINE E == {a(i) : i \in 1..n} \cup {b(i) : i \in 1..m}
<1>5. p \in Seq(E) /\ q \in Seq(E) /\ Len(p) = n /\ Len(q) = m
  <2>1. \A i \in 1..n : a(i) \in E
    BY Zenon
  <2>2. \A i \in 1..m : b(i) \in E
    BY Zenon
  <2> HIDE DEF E, a, b
  <2> QED
    BY <1>3, <2>1, <2>2
<1>6. /\ \A i \in 1..n : p[i] = a(i)
      /\ \A i \in 1..m : q[i] = b(i)
  BY Zenon, <1>3
<1> HIDE DEF a, b, E
<1>7. /\ DOMAIN keys = 1..(n + m)
      /\ \A i \in 1..(n + m) : (i <= n => keys[i] = p[i]) /\ (~(i <= n) => keys[i] = q[i - n])
  <2>1. Len(keys) = n + m /\ keys \in Seq(E)
    BY Zenon, <1>4, <1>5, JoinIs
  <2>2. \A i \in 1..(n + m) : keys[i] = IF i <= n THEN p[i] ELSE q[i - n]
    <3>1. \A i \in 1..Len(p) + Len(q) : (p \o q)[i] = IF i <= Len(p) THEN p[i] ELSE q[i - Len(p)]
      BY Zenon, <1>5, JoinIs
    <3> QED
      BY Zenon, <1>4, <1>5, <3>1
  <2> QED
    BY Zenon, <2>1, <2>2, LengthIs
<1>8. KeyCount(devices) = n + m
  BY Zenon, <1>1 DEF KeyCount
<1>9. ASSUME NEW i \in 1..(n + m)
      PROVE  \/ i <= n /\ keys[i] = a(i)
             \/ i > n /\ keys[i] = b(i - n)
  <2>1. i \in 1..n \/ (i > n /\ ~(i <= n) /\ i - n \in 1..m)
    OBVIOUS
  <2>2. CASE i \in 1..n
    <3>1. i <= n
      BY <2>2
    <3>2. keys[i] = p[i]
      BY Zenon, <1>7, <3>1
    <3>3. p[i] = a(i)
      BY Zenon, <1>6, <2>2
    <3> QED
      BY Zenon, <3>1, <3>2, <3>3
  <2>3. CASE i > n /\ ~(i <= n) /\ i - n \in 1..m
    BY Zenon, <1>6, <1>7, <2>3
  <2> QED
    BY Zenon, <2>1, <2>2, <2>3
<1>10. n + m \in Nat /\ n <= n + m
  OBVIOUS
<1> QED
  BY Zenon, <1>1, <1>7, <1>8, <1>9, <1>10 DEF a, b, keys, IsKey

\* The device has the keypair that the suite needs.
HasKeypair(suite, hybrid) == suite = "hybrid" => hybrid

\* What the device gets: the value, if it is one of these devices and has the keypair.
Outcome(r, device, devices, suite, hybrid, v) ==
  IF device \in Range(devices) /\ HasKeypair(suite, hybrid) THEN r = Ok(v) ELSE ~r.ok

\* The loop of open_drop over the shuffled keys of create_drop finds the content key on
\* every device the drop is made for, whatever tags it shares with decoys and other
\* devices, and on no other.  A device without its hybrid keypair finds the keys of
\* classical drops only.
THEOREM AddresseesUnwrap ==
  ASSUME MinTags \in Nat, NEW Dev, "nobody" \notin Dev, NEW devices \in Seq(Dev),
         NEW tag_of, NEW suite, NEW key, NEW decoys,
         NEW order, IsShuffle(order, KeyCount(devices)),
         NEW device \in Dev, NEW hybrid \in BOOLEAN
  PROVE  Outcome(unwrap(tag_of, device, hybrid,
                        Shuffled(wrap(tag_of, devices, suite, key, decoys), order)),
                 device, devices, suite, hybrid, key)
<1> DEFINE keys == wrap(tag_of, devices, suite, key, decoys)
<1>1. PICK n \in Nat, c \in Nat : n = Len(devices) /\ c = KeyCount(devices) /\ n <= c
  BY Zenon, WrapIs, LengthIs
<1>2. DOMAIN keys = 1..c
  BY Zenon, <1>1, WrapIs
<1>3. \A i \in 1..c :
        \/ i <= n /\ keys[i] = Wrapped(tag_of[devices[i]], suite, devices[i], key)
        \/ i > n /\ keys[i] = Wrapped(decoys[i - n], "classical", "nobody", "none")
  <2>1. \A i \in 1..KeyCount(devices) :
          IsKey(keys[i], i, tag_of, devices, suite, key, decoys)
    BY Zenon, WrapIs
  <2> HIDE DEF keys
  <2> QED
    BY Zenon, <1>1, <2>1 DEF IsKey
<1> HIDE DEF keys
<1>4. DOMAIN devices = 1..n /\ \A i \in 1..n : devices[i] \in Dev
  BY <1>1
<1>5. /\ \A i \in 1..c : order[i] \in 1..c
      /\ \A i \in 1..c : \E j \in 1..c : order[j] = i
  BY Zenon, <1>1 DEF IsShuffle
<1>6. PICK s : s = [i \in 1..c |-> keys[order[i]]]
  BY Zenon
<1>7. DOMAIN s = 1..c /\ \A i \in 1..c : s[i] = keys[order[i]]
  BY Zenon, <1>6
<1> DEFINE Match == {i \in 1..c : s[i].tag = tag_of[device]}
           Opens == {i \in Match : s[i].to = device}
           Stops == {i \in Match : s[i].suite = "hybrid" /\ ~hybrid}
           Ends == Opens \cup Stops
           found == unwrap(tag_of, device, hybrid, s)
<1>8. found = IF Ends = {} THEN Err("not addressed")
              ELSE IF Min(Ends) \in Stops THEN Err("no hybrid key") ELSE Ok(s[Min(Ends)].key)
  BY Zenon, <1>7 DEF unwrap
<1>9. ASSUME NEW i \in 1..c, keys[i].to = device
      PROVE  i <= n /\ devices[i] = device /\ keys[i].key = key /\ keys[i].suite = suite
  <2>1. PICK k : k = keys[i]
    BY Zenon
  <2>2. \/ i <= n /\ k = Wrapped(tag_of[devices[i]], suite, devices[i], key)
        \/ i > n /\ k = Wrapped(decoys[i - n], "classical", "nobody", "none")
    BY Zenon, <1>3, <2>1
  <2>3. device # "nobody"
    BY Zenon
  <2> QED
    BY <1>9, <2>1, <2>2, <2>3 DEF Wrapped
<1>10. ASSUME NEW i \in 1..n
       PROVE  i \in 1..c /\ keys[i].tag = tag_of[devices[i]] /\ keys[i].to = devices[i]
  <2>1. i \in 1..c /\ ~(i > n)
    BY <1>1
  <2>2. keys[i] = Wrapped(tag_of[devices[i]], suite, devices[i], key)
    BY Zenon, <1>3, <2>1
  <2>3. PICK k, t : k = keys[i] /\ t = tag_of[devices[i]]
    BY Zenon
  <2>4. k.tag = t /\ k.to = devices[i]
    BY <2>2, <2>3 DEF Wrapped
  <2> QED
    BY Zenon, <2>1, <2>3, <2>4
<1>11. ASSUME NEW i \in Opens
       PROVE  s[i].key = key /\ s[i].suite = suite /\ device \in Range(devices)
  <2>1. i \in 1..c /\ order[i] \in 1..c /\ s[i] = keys[order[i]] /\ s[i].to = device
    BY Zenon, <1>5, <1>7
  <2>2. order[i] <= n /\ devices[order[i]] = device /\ s[i].key = key /\ s[i].suite = suite
    BY Zenon, <1>9, <2>1
  <2>3. order[i] \in 1..n
    BY <2>1, <2>2
  <2> QED
    BY Zenon, <1>4, <2>2, <2>3 DEF Range
<1>12. Ends \subseteq Nat
  <2>1. Ends \subseteq 1..c
    BY Zenon
  <2> HIDE DEF Ends
  <2> QED
    BY <2>1
<1>13. Ends # {} => Min(Ends) \in Ends
  <2> HIDE DEF Ends
  <2> QED
    BY Zenon, <1>12, MinIs
<1>14. Shuffled(keys, order) = s
  BY Zenon, <1>2, <1>6 DEF Shuffled
<1>15. ~Err("not addressed").ok /\ ~Err("no hybrid key").ok
  BY DEF Err
<1>16. CASE HasKeypair(suite, hybrid)
  <2>1. Stops = {}
    <3> SUFFICES ASSUME NEW i \in Stops PROVE FALSE
      BY Zenon
    <3>1. i \in 1..c /\ order[i] \in 1..c /\ s[i] = keys[order[i]] /\ s[i].suite = "hybrid" /\ ~hybrid
      BY Zenon, <1>5, <1>7
    <3>2. suite # "hybrid"
      BY Zenon, <1>16, <3>1 DEF HasKeypair
    <3>3. PICK k : k = s[i] /\ k.suite = "hybrid"
      BY Zenon, <3>1
    <3>4. \/ k = Wrapped(tag_of[devices[order[i]]], suite, devices[order[i]], key)
          \/ k = Wrapped(decoys[order[i] - n], "classical", "nobody", "none")
      BY Zenon, <1>3, <3>1, <3>3
    <3> HIDE DEF Stops
    <3> QED
      BY <3>2, <3>3, <3>4 DEF Wrapped
  <2>2. CASE device \in Range(devices)
    <3>1. PICK i \in 1..n : devices[i] = device
      BY Zenon, <1>4, <2>2 DEF Range
    <3>2. PICK j \in 1..c : order[j] = i
      BY Zenon, <1>5, <1>10
    <3>3. j \in Opens
      BY Zenon, <1>7, <1>10, <3>1, <3>2
    <3>4. Ends # {} /\ Min(Ends) \in Opens
      BY Zenon, <1>13, <2>1, <3>3
    <3>5. s[Min(Ends)].key = key
      BY Zenon, <1>11, <3>4
    <3>6. found = Ok(key)
      <4> HIDE DEF Ends, found
      <4> QED
        BY Zenon, <1>8, <2>1, <3>4, <3>5
    <3> QED
      BY Zenon, <1>14, <1>16, <2>2, <3>6 DEF keys, Outcome
  <2>3. CASE device \notin Range(devices)
    <3>1. Ends = {}
      BY Zenon, <1>11, <2>1, <2>3
    <3>2. ~found.ok
      <4> HIDE DEF Ends, found
      <4> QED
        BY Zenon, <1>8, <1>15, <3>1
    <3> QED
      BY Zenon, <1>14, <2>3, <3>2 DEF keys, Outcome
  <2> QED
    BY Zenon, <2>2, <2>3
<1>17. CASE ~HasKeypair(suite, hybrid)
  <2>1. Opens \subseteq Stops
    BY Zenon, <1>11, <1>17 DEF HasKeypair
  <2>2. Ends # {} => Min(Ends) \in Stops
    BY Zenon, <1>13, <2>1
  <2>3. ~found.ok
    <3> HIDE DEF Ends, found
    <3> QED
      BY Zenon, <1>8, <1>15, <2>2
  <2> QED
    BY Zenon, <1>14, <1>17, <2>3 DEF keys, Outcome
<1> QED
  BY Zenon, <1>16, <1>17

------------------------------------------------------------------------------
(* Streams of chunks *)

\* The smaller of two numbers.
LEMMA MinOfTwo ==
  ASSUME NEW a \in Nat, NEW b \in Nat
  PROVE  Min({a, b}) = IF a <= b THEN a ELSE b
<1>1. {a, b} \subseteq Nat /\ {a, b} # {}
  OBVIOUS
<1>2. Min({a, b}) \in {a, b} /\ \A m \in {a, b} : Min({a, b}) <= m
  BY Zenon, <1>1, MinIs
<1> QED
  BY <1>2

\* The larger of two numbers.
LEMMA MaxOfTwo ==
  ASSUME NEW a \in Int, NEW b \in Int
  PROVE  Max({a, b}) = IF a >= b THEN a ELSE b
<1>1. \E x \in {a, b} : \A y \in {a, b} : x >= y
  OBVIOUS
<1>2. Max({a, b}) \in {a, b} /\ \A y \in {a, b} : Max({a, b}) >= y
  BY Zenon, <1>1 DEF Max
<1> QED
  BY <1>2

\* How many chunks a text makes: as many as it takes, and one for the empty text.
LEMMA TotalIs ==
  ASSUME ChunkSize \in Nat, ChunkSize > 0, NEW len \in Nat
  PROVE  /\ total_of(len) \in Nat /\ total_of(len) > 0
         /\ (total_of(len) - 1) * ChunkSize < len \/ (len = 0 /\ total_of(len) = 1)
         /\ len <= total_of(len) * ChunkSize
<1>1. PICK a \in Nat : a = len + ChunkSize - 1
  OBVIOUS
<1>2. PICK q \in Int : q = a \div ChunkSize
  OBVIOUS
<1>3. ChunkSize * q <= a /\ a < ChunkSize * q + ChunkSize
  BY Z3, <1>2
<1>4. (q - 1) * ChunkSize < len /\ len <= q * ChunkSize
  BY <1>1, <1>3
<1>5. total_of(len) = IF 1 >= q THEN 1 ELSE q
  <2>1. total_of(len) = Max({1, q})
    BY Zenon, <1>1, <1>2 DEF total_of
  <2>2. 1 \in Int
    OBVIOUS
  <2>3. Max({1, q}) = IF 1 >= q THEN 1 ELSE q
    BY Zenon, <2>2, MaxOfTwo
  <2> QED
    BY Zenon, <2>1, <2>3
<1>6. CASE q >= 1
  <2>1. total_of(len) = q
    BY <1>5, <1>6
  <2> QED
    BY <1>4, <1>6, <2>1
<1>7. CASE q < 1
  <2>1. q * ChunkSize <= 0
    BY <1>7
  <2>2. len = 0
    BY <1>4, <2>1
  <2>3. total_of(len) = 1
    BY <1>5, <1>7
  <2> QED
    BY <2>2, <2>3
<1> QED
  BY <1>6, <1>7

\* g[i] is the data of the first i chunks, one after the other.
Joins(g, cs, n) ==
  /\ g[0] = <<>>
  /\ \A i \in 1..n : g[i] = g[i - 1] \o cs[i].data

\* What the loop of decrypt has after each of the chunks.
Joined(cs) ==
  CHOOSE out : out = [i \in 0..Len(cs) |-> IF i = 0 THEN <<>> ELSE out[i - 1] \o cs[i].data]

\* What the loop ends with, from what it must have after each of the chunks.
LEMMA JoinedIs ==
  ASSUME NEW n \in Nat, NEW cs, Len(cs) = n, NEW g, Joins(g, cs, n)
  PROVE  Joined(cs)[n] = g[n]
<1> DEFINE Body(x) == [i \in 0..n |-> IF i = 0 THEN <<>> ELSE x[i - 1] \o cs[i].data]
           G == [i \in 0..n |-> g[i]]
<1>1. G = Body(G)
  <2>1. ASSUME NEW i \in 0..n
        PROVE  g[i] = IF i = 0 THEN <<>> ELSE G[i - 1] \o cs[i].data
    <3>1. i # 0 => i - 1 \in 0..n /\ i \in 1..n
      OBVIOUS
    <3>2. i # 0 => G[i - 1] = g[i - 1]
      BY Zenon, <3>1
    <3> HIDE DEF G
    <3> QED
      BY Zenon, <3>1, <3>2 DEF Joins
  <2> QED
    BY Zenon, <2>1
<1>2. PICK f : f = Body(f) /\ Joined(cs) = f
  <2> DEFINE h == CHOOSE x : x = Body(x)
  <2>1. Joined(cs) = h
    BY Zenon DEF Joined
  <2>2. h = Body(h)
    <3> HIDE DEF Body
    <3> QED
      BY Zenon, <1>1
  <2> HIDE DEF h, Body
  <2> QED
    BY Zenon, <2>1, <2>2
<1>3. f = Body(f)
  BY Zenon, <1>2
<1>4. \A i \in 0..n : /\ i = 0 => f[i] = <<>>
                      /\ i # 0 => f[i] = f[i - 1] \o cs[i].data
  BY Zenon, <1>3
<1>5. \A i \in 0..n : /\ i = 0 => g[i] = <<>>
                      /\ i # 0 => g[i] = g[i - 1] \o cs[i].data
  <2>1. \A i \in 0..n : i # 0 => i \in 1..n
    OBVIOUS
  <2> QED
    BY Zenon, <2>1 DEF Joins
<1> DEFINE Bad == {i \in 0..n : f[i] # g[i]}
<1>6. ASSUME Bad # {}
      PROVE  FALSE
  <2>1. Bad \subseteq Nat
    OBVIOUS
  <2>2. PICK m : m \in Bad /\ \A i \in Bad : m <= i
    <3> HIDE DEF Bad
    <3> QED
      BY Zenon, <1>6, <2>1, MinIs
  <2>3. m \in 0..n /\ f[m] # g[m]
    BY Zenon, <2>2
  <2>4. m # 0
    BY Zenon, <1>4, <1>5, <2>3
  <2>5. m - 1 \in 0..n /\ ~(m <= m - 1)
    BY <2>3, <2>4
  <2>6. f[m - 1] = g[m - 1]
    BY Zenon, <2>2, <2>5
  <2> QED
    BY Zenon, <1>4, <1>5, <2>3, <2>4, <2>6
<1>7. n \in 0..n
  OBVIOUS
<1> QED
  BY Zenon, <1>2, <1>6, <1>7

\* Where the i-th chunk of a text of this length ends.
Cut(len, i) == Min({i * ChunkSize, len})

\* The cuts go up from 0 to the end of the text, by ChunkSize until the last.
LEMMA CutIs ==
  ASSUME ChunkSize \in Nat, ChunkSize > 0, NEW len \in Nat, NEW i \in 1..total_of(len)
  PROVE  /\ total_of(len) \in Nat
         /\ (i - 1) * ChunkSize \in 0..len
         /\ Cut(len, i) \in ((i - 1) * ChunkSize)..len
         /\ i < total_of(len) => Cut(len, i) = i * ChunkSize
         /\ i = total_of(len) => Cut(len, i) = len
         /\ len # 0 => Cut(len, i) > (i - 1) * ChunkSize
<1>1. PICK n : n = total_of(len)
  BY Zenon
<1>2. /\ n \in Nat /\ n > 0
      /\ (n - 1) * ChunkSize < len \/ (len = 0 /\ n = 1)
      /\ len <= n * ChunkSize
  BY Zenon, <1>1, TotalIs
<1>3. i \in Nat /\ i >= 1 /\ i <= n
  BY <1>1, <1>2
<1>4. PICK a \in Nat, b \in Nat : a = (i - 1) * ChunkSize /\ b = i * ChunkSize
  BY <1>3
<1>5. b = a + ChunkSize
  BY <1>3, <1>4
<1>6. a < len \/ (len = 0 /\ a = 0)
  <2>1. (i - 1) * ChunkSize <= (n - 1) * ChunkSize
    BY <1>2, <1>3
  <2>2. n = 1 => (i - 1) * ChunkSize = 0
    BY <1>3
  <2> QED
    BY SMTT(30), <1>2, <1>3, <1>4, <2>1, <2>2
<1>7. i < n => b < len \/ b <= len
  <2>1. i < n => i * ChunkSize <= (n - 1) * ChunkSize
    BY <1>2, <1>3
  <2> QED
    BY <1>2, <1>3, <1>4, <2>1
<1>8. i = n => len <= b
  BY <1>2, <1>4
<1>9. Cut(len, i) = IF b <= len THEN b ELSE len
  BY Zenon, <1>4, MinOfTwo DEF Cut
<1>10. PICK c : c = Cut(len, i)
  BY Zenon
<1>11. /\ a \in 0..len /\ c \in a..len
       /\ i < n => c = b
       /\ i = n => c = len
       /\ len # 0 => c > a
  BY SMTT(30), <1>2, <1>3, <1>5, <1>6, <1>7, <1>8, <1>9, <1>10
<1> QED
  BY Zenon, <1>1, <1>2, <1>4, <1>10, <1>11

\* The pieces of a text, put together again.
LEMMA PiecesMakeText ==
  ASSUME ChunkSize \in Nat, ChunkSize > 0, NEW B, NEW text \in Seq(B), NEW cs,
         Len(cs) = total_of(Len(text)),
         \A i \in 1..total_of(Len(text)) :
           cs[i].data = SubSeq(text, (i - 1) * ChunkSize + 1, Cut(Len(text), i))
  PROVE  Joined(cs)[Len(cs)] = text
<1>1. PICK len, n : len = Len(text) /\ n = total_of(len)
  BY Zenon
<1>2. len \in Nat
  BY <1>1
<1>3. n \in Nat /\ n > 0
  BY Zenon, <1>1, <1>2, TotalIs
<1> DEFINE g == [i \in 0..n |-> IF i = 0 THEN <<>> ELSE SubSeq(text, 1, Cut(len, i))]
<1>4. ASSUME NEW i \in 1..n
      PROVE  g[i] = g[i - 1] \o cs[i].data
  <2>1. PICK a, c : a = (i - 1) * ChunkSize /\ c = Cut(len, i)
    BY Zenon
  <2>2. a \in 0..len /\ c \in a..len
    BY Zenon, <1>1, <1>2, <2>1, CutIs
  <2>3. cs[i].data = SubSeq(text, a + 1, c)
    BY Zenon, <1>1, <2>1
  <2>4. i \in 0..n /\ i # 0 /\ i - 1 \in 0..n
    BY <1>3
  <2>5. g[i] = SubSeq(text, 1, c)
    BY Zenon, <2>1, <2>4
  <2>6. g[i - 1] = SubSeq(text, 1, a)
    <3>1. CASE i = 1
      <4>1. a = 0 /\ i - 1 = 0
        BY <2>1, <3>1
      <4>2. SubSeq(text, 1, 0) = <<>>
        OBVIOUS
      <4>3. g[i - 1] = <<>>
        BY Zenon, <2>4, <4>1
      <4> QED
        BY Zenon, <4>1, <4>2, <4>3
    <3>2. CASE i # 1
      <4>1. i - 1 \in 1..n /\ i - 1 < n /\ i - 1 # 0
        BY <1>3, <3>2
      <4>2. Cut(len, i - 1) = a
        BY Zenon, <1>1, <1>2, <2>1, <4>1, CutIs
      <4> QED
        BY Zenon, <2>4, <4>1, <4>2
    <3> QED
      BY Zenon, <3>1, <3>2
  <2>7. SubSeq(text, 1, a) \o SubSeq(text, a + 1, c) = SubSeq(text, 1, c)
    BY Zenon, <1>1, <2>2, PiecesJoin
  <2> HIDE DEF g
  <2> QED
    BY Zenon, <2>3, <2>5, <2>6, <2>7
<1>5. g[0] = <<>>
  <2>1. 0 \in 0..n
    BY <1>3
  <2> QED
    BY Zenon, <2>1
<1>6. n \in 1..n /\ n \in 0..n /\ n # 0
  BY <1>3
<1>7. Cut(len, n) = len
  BY Zenon, <1>1, <1>2, <1>6, CutIs
<1>8. g[n] = SubSeq(text, 1, len)
  BY Zenon, <1>6, <1>7
<1> HIDE DEF g
<1>9. Joins(g, cs, n)
  BY Zenon, <1>4, <1>5 DEF Joins
<1>10. Joined(cs)[n] = g[n]
  BY Zenon, <1>1, <1>3, <1>9, JoinedIs
<1> QED
  BY Zenon, <1>1, <1>8, <1>10, WholeIs

\* The i-th chunk of a stream, as a record.
ChunkOf(key, prefix, text, i) ==
  [key |-> key, prefix |-> prefix, index |-> i - 1, total |-> total_of(Len(text)),
   data |-> SubSeq(text, (i - 1) * ChunkSize + 1, Cut(Len(text), i))]

\* What such a record holds.
HasParts(c, key, prefix, text, i) ==
  /\ c.key = key /\ c.prefix = prefix /\ c.index = i - 1 /\ c.total = total_of(Len(text))
  /\ c.data = SubSeq(text, (i - 1) * ChunkSize + 1, Cut(Len(text), i))

\* The i-th chunk holds the i-th piece of the text.
LEMMA ChunkParts ==
  ASSUME NEW key, NEW prefix, NEW text, NEW i
  PROVE  HasParts(ChunkOf(key, prefix, text, i), key, prefix, text, i)
BY Zenon DEF ChunkOf, HasParts

\* cs is the n chunks of the text.
IsStream(cs, n, key, prefix, text) ==
  /\ n \in Nat /\ n > 0 /\ DOMAIN cs = 1..n /\ Len(cs) = n
  /\ cs = [i \in 1..n |-> ChunkOf(key, prefix, text, i)]
  /\ \A i \in 1..n : HasParts(cs[i], key, prefix, text, i)

\* The chunks encrypt makes.
LEMMA StreamIs ==
  ASSUME ChunkSize \in Nat, ChunkSize > 0, NEW B, NEW text \in Seq(B), NEW key, NEW prefix
  PROVE  IsStream(stream_encrypt(key, prefix, text), total_of(Len(text)), key, prefix, text)
<1> DEFINE cs == stream_encrypt(key, prefix, text)
<1>1. PICK n : n = total_of(Len(text))
  BY Zenon
<1>2. Len(text) \in Nat
  OBVIOUS
<1>3. n \in Nat /\ n > 0
  BY Zenon, <1>1, <1>2, TotalIs
<1>4. cs = [i \in 1..n |-> ChunkOf(key, prefix, text, i)]
  BY Zenon, <1>1 DEF stream_encrypt, ChunkOf, Cut
<1>5. DOMAIN cs = 1..n /\ \A i \in 1..n : HasParts(cs[i], key, prefix, text, i)
  <2> HIDE DEF cs
  <2>1. DOMAIN cs = 1..n /\ \A i \in 1..n : cs[i] = ChunkOf(key, prefix, text, i)
    BY Zenon, <1>4
  <2> QED
    BY Zenon, <2>1, ChunkParts
<1>6. Len(cs) = n
  <2> HIDE DEF cs
  <2> QED
    BY <1>3, <1>4
<1>7. IsStream(cs, n, key, prefix, text)
  <2> HIDE DEF cs
  <2> QED
    BY Zenon, <1>3, <1>4, <1>5, <1>6 DEF IsStream
<1> QED
  BY Zenon, <1>1, <1>7

\* encrypt cuts the text into chunks that are full but the last, which holds something
\* unless the text is empty: none too many at an exact multiple of the chunk size, and
\* one for the empty text.
THEOREM StreamShape ==
  ASSUME ChunkSize \in Nat, ChunkSize > 0, NEW B, NEW text \in Seq(B), NEW key, NEW prefix
  PROVE  LET cs == stream_encrypt(key, prefix, text)
         IN  /\ Len(cs) > 0
             /\ \A i \in 1..(Len(cs) - 1) : Len(cs[i].data) = ChunkSize
             /\ Len(cs[Len(cs)].data) \in 0..ChunkSize
             /\ Len(cs[Len(cs)].data) = 0 => text = <<>>
<1>1. PICK cs, n, len : /\ cs = stream_encrypt(key, prefix, text)
                        /\ len = Len(text) /\ n = total_of(len)
  BY Zenon
<1>2. n \in Nat /\ n > 0 /\ Len(cs) = n /\ \A i \in 1..n : HasParts(cs[i], key, prefix, text, i)
  <2>1. IsStream(cs, n, key, prefix, text)
    BY Zenon, <1>1, StreamIs
  <2> QED
    BY Zenon, <2>1 DEF IsStream
<1>3. len \in Nat /\ (len = 0 => text = <<>>)
  BY <1>1
<1>4. ASSUME NEW i \in 1..n
      PROVE  /\ i < n => Len(cs[i].data) = ChunkSize
             /\ Len(cs[i].data) \in 0..ChunkSize
             /\ Len(cs[i].data) = 0 => text = <<>>
  <2>1. PICK a, b, c : a = (i - 1) * ChunkSize /\ b = i * ChunkSize /\ c = Cut(len, i)
    BY Zenon
  <2>2. /\ a \in 0..len /\ c \in a..len
        /\ i < n => c = b
        /\ len # 0 => c > a
    BY Zenon, <1>1, <1>3, <2>1, CutIs
  <2>3. b = a + ChunkSize
    BY <1>2, <2>1
  <2>4. c = IF b <= len THEN b ELSE len
    <3>1. b \in Nat
      BY <1>2, <2>1
    <3> QED
      BY Zenon, <1>3, <2>1, <3>1, MinOfTwo DEF Cut
  <2>5. cs[i].data = SubSeq(text, a + 1, c)
    BY Zenon, <1>1, <1>2, <2>1 DEF HasParts
  <2>6. Len(SubSeq(text, a + 1, c)) = c - a
    BY Zenon, <1>1, <2>2, PiecesJoin
  <2>7. PICK l : l = Len(cs[i].data)
    BY Zenon
  <2>8. l = c - a
    BY Zenon, <2>5, <2>6, <2>7
  <2>9. /\ i < n => l = ChunkSize
        /\ l \in 0..ChunkSize
        /\ l = 0 => len = 0
    BY SMTT(30), <1>3, <2>2, <2>3, <2>4, <2>8
  <2> QED
    BY Zenon, <1>3, <2>7, <2>9
<1>5. n \in 1..n /\ \A i \in 1..n - 1 : i \in 1..n /\ i < n
  BY <1>2
<1> QED
  BY Zenon, <1>1, <1>2, <1>4, <1>5

\* decrypt gives back what encrypt was given, for every text and chunk size.
THEOREM StreamOpens ==
  ASSUME ChunkSize \in Nat, ChunkSize > 0, NEW B, NEW text \in Seq(B), NEW key, NEW prefix,
         NEW cs, cs = stream_encrypt(key, prefix, text)
  PROVE  stream_decrypt(key, [prefix |-> prefix, total |-> Len(cs)], cs) = Ok(text)
<1>1. PICK n, f : n = total_of(Len(text)) /\ f = [prefix |-> prefix, total |-> Len(cs)]
  BY Zenon
<1>2. /\ n \in Nat /\ n > 0 /\ Len(cs) = n /\ DOMAIN cs = 1..n
      /\ \A i \in 1..n : HasParts(cs[i], key, prefix, text, i)
  <2>1. IsStream(cs, n, key, prefix, text)
    BY Zenon, <1>1, StreamIs
  <2> QED
    BY Zenon, <2>1 DEF IsStream
<1>3. f.prefix = prefix /\ f.total = n
  BY Zenon, <1>1, <1>2
<1>4. ASSUME NEW i \in 1..n
      PROVE  decrypt_chunk(key, f, i - 1, cs[i])
  <2>1. i - 1 < n
    BY <1>2
  <2>2. /\ cs[i].key = key /\ cs[i].prefix = prefix /\ cs[i].index = i - 1
        /\ cs[i].total = total_of(Len(text))
    BY Zenon, <1>2 DEF HasParts
  <2> QED
    BY Zenon, <1>1, <1>3, <2>1, <2>2 DEF decrypt_chunk
<1>5. \A i \in 1..n : cs[i].data = SubSeq(text, (i - 1) * ChunkSize + 1, Cut(Len(text), i))
  BY Zenon, <1>2 DEF HasParts
<1>6. Joined(cs)[Len(cs)] = text
  BY Zenon, <1>1, <1>2, <1>5, PiecesMakeText
<1>7. stream_decrypt(key, f, cs) = Ok(Joined(cs)[Len(cs)])
  BY Zenon, <1>2, <1>3, <1>4 DEF stream_decrypt, Joined
<1> QED
  BY Zenon, <1>1, <1>6, <1>7

\* A chunk that encrypt made, of this text or of some other stream.  The random prefix
\* under a key is not used for another text.
Genuine(c, B, key, prefix, text) ==
  \E k, p, t, j : /\ t \in Seq(B) /\ j \in 1..total_of(Len(t))
                  /\ k = key /\ p = prefix => t = text
                  /\ c = ChunkOf(k, p, t, j)

\* decrypt accepts all the chunks of the text in order and nothing else that can be put
\* together from chunks of any streams: none left out, repeated, swapped or foreign, and
\* no other total.
THEOREM StreamIsExact ==
  ASSUME ChunkSize \in Nat, ChunkSize > 0, NEW B, NEW text \in Seq(B), NEW key, NEW prefix,
         NEW total \in Nat, total > 0, NEW C, NEW cs \in Seq(C),
         \A i \in DOMAIN cs : Genuine(cs[i], B, key, prefix, text)
  PROVE  stream_decrypt(key, [prefix |-> prefix, total |-> total], cs).ok
           <=> cs = stream_encrypt(key, prefix, text) /\ total = Len(cs)
<1>1. PICK n, f, st : /\ n = total_of(Len(text)) /\ f = [prefix |-> prefix, total |-> total]
                      /\ st = stream_encrypt(key, prefix, text)
  BY Zenon
<1>2. IsStream(st, n, key, prefix, text)
  BY Zenon, <1>1, StreamIs
<1>3. f.prefix = prefix /\ f.total = total
  BY Zenon, <1>1
<1>4. ASSUME cs = st, total = Len(cs)
      PROVE  stream_decrypt(key, f, cs).ok
  <2>1. stream_decrypt(key, f, cs) = Ok(text)
    <3>1. cs = stream_encrypt(key, prefix, text)
      BY Zenon, <1>1, <1>4
    <3>2. f = [prefix |-> prefix, total |-> Len(cs)]
      BY Zenon, <1>1, <1>4
    <3>3. stream_decrypt(key, [prefix |-> prefix, total |-> Len(cs)], cs) = Ok(text)
      BY ZenonT(40), <3>1, StreamOpens
    <3> QED
      BY Zenon, <3>2, <3>3
  <2>2. Ok(text).ok
    BY DEF Ok
  <2> QED
    BY Zenon, <2>1, <2>2
<1>5. ASSUME stream_decrypt(key, f, cs).ok
      PROVE  cs = st /\ total = Len(cs)
  <2>1. ~Err("Decrypt").ok
    BY DEF Err
  <2>2. Len(cs) = total /\ \A i \in DOMAIN cs : decrypt_chunk(key, f, i - 1, cs[i])
    <3>1. Len(cs) = total
      BY Zenon, <1>3, <1>5, <2>1 DEF stream_decrypt
    <3>2. ~\E i \in DOMAIN cs : ~decrypt_chunk(key, f, i - 1, cs[i])
      BY Zenon, <1>3, <1>5, <2>1, <3>1 DEF stream_decrypt
    <3> QED
      BY Zenon, <3>1, <3>2
  <2>3. DOMAIN cs = 1..total /\ cs = [i \in 1..total |-> cs[i]]
    BY <2>2
  <2>4. ASSUME NEW i \in 1..total
        PROVE  cs[i] = ChunkOf(key, prefix, text, i) /\ total = n
    <3>1. PICK k, p, t, j : /\ t \in Seq(B) /\ j \in 1..total_of(Len(t))
                            /\ k = key /\ p = prefix => t = text
                            /\ cs[i] = ChunkOf(k, p, t, j)
      BY Zenon, <2>3 DEF Genuine
    <3>2. /\ cs[i].key = key /\ cs[i].prefix = prefix /\ cs[i].index = i - 1
          /\ cs[i].total = total
      BY Zenon, <1>3, <2>2, <2>3 DEF decrypt_chunk
    <3>3. HasParts(cs[i], k, p, t, j)
      BY Zenon, <3>1, ChunkParts
    <3>4. k = key /\ p = prefix /\ i - 1 = j - 1 /\ total = total_of(Len(t))
      BY Zenon, <3>2, <3>3 DEF HasParts
    <3>5. Len(t) \in Nat
      BY <3>1
    <3>6. total_of(Len(t)) \in Nat
      BY Zenon, <3>5, TotalIs
    <3>7. i = j
      BY <3>1, <3>4, <3>6
    <3> QED
      BY Zenon, <1>1, <3>1, <3>4, <3>7
  <2>5. total = n
    <3>1. 1 \in 1..total
      OBVIOUS
    <3> QED
      BY Zenon, <2>4, <3>1
  <2>6. st = [i \in 1..n |-> ChunkOf(key, prefix, text, i)]
    BY Zenon, <1>2 DEF IsStream
  <2>7. cs = [i \in 1..total |-> ChunkOf(key, prefix, text, i)]
    BY Zenon, <2>3, <2>4
  <2> QED
    BY Zenon, <2>2, <2>5, <2>6, <2>7
<1> QED
  BY Zenon, <1>1, <1>4, <1>5

------------------------------------------------------------------------------
(* Drops *)

\* What open_drop opens was signed as it is: the named author signed this very body and,
\* where there is an ML-DSA signature, its key signed the body too; the proof of work
\* holds and some wrapped key opened for the device.
THEOREM OpenedWasSigned ==
  ASSUME NEW device, NEW tag_of, NEW hybrid, NEW e, NEW chunk,
         open_drop(device, tag_of, hybrid, e, chunk).ok
  PROVE  /\ e.kind \in {1, 2}
         /\ e.ed_sig = Sig(e.signer, e.payload)
         /\ e.kind = 2 => e.ml # "none" /\ e.ml_sig = Sig(e.ml, e.payload)
         /\ e.ml_sig # NoSig => e.ml_sig = Sig(e.ml, e.payload)
         /\ e.payload.work
         /\ unwrap(tag_of, device, hybrid, e.payload.keys).ok
<1>1. ~Err("signature").ok /\ ~Err("proof of work").ok
  BY DEF Err
<1>2. verify(e)
  BY Zenon, <1>1 DEF open_drop
<1>3. e.payload.work
  BY Zenon, <1>1, <1>2 DEF open_drop
<1>4. unwrap(tag_of, device, hybrid, e.payload.keys).ok
  BY Zenon, <1>2, <1>3 DEF open_drop
<1>5. CASE e.kind = 1
  <2>1. e.ed_sig = Sig(e.signer, e.payload) /\ e.ml_sig = NoSig
    BY <1>2, <1>5 DEF verify
  <2>2. e.kind # 2
    BY <1>5
  <2> QED
    BY Zenon, <1>3, <1>4, <1>5, <2>1, <2>2
<1>6. CASE e.kind = 2
  <2>1. e.ml # "none" /\ e.ml_sig = Sig(e.ml, e.payload) /\ e.ed_sig = Sig(e.signer, e.payload)
    BY <1>2, <1>6 DEF verify
  <2> QED
    BY Zenon, <1>3, <1>4, <1>6, <2>1
<1>7. e.kind = 1 \/ e.kind = 2
  BY Zenon, <1>2 DEF verify
<1> QED
  BY Zenon, <1>5, <1>6, <1>7

\* A drop opens, to its text, on exactly the devices it was made for, whatever the tags
\* (shared with a decoy or another recipient), the suite, the decoys and the shuffle; a
\* hybrid drop only where the device's hybrid keypair can be loaded.
THEOREM DropOpensForAddressees ==
  ASSUME ChunkSize \in Nat, ChunkSize > 0, MinTags \in Nat,
         NEW Dev, "nobody" \notin Dev, NEW devices \in Seq(Dev), NEW device \in Dev,
         NEW B, NEW text \in Seq(B), NEW signer, NEW tag_of, NEW suite, NEW decoys,
         NEW order, IsShuffle(order, KeyCount(devices)), NEW hybrid \in BOOLEAN
  PROVE  LET drop == create_drop(signer, tag_of, devices, suite, text, decoys, order)
         IN  Outcome(open_drop(device, tag_of, hybrid, drop.envelope, drop.chunks),
                     device, devices, suite, hybrid, text)
<1>1. PICK drop : drop = create_drop(signer, tag_of, devices, suite, text, decoys, order)
  BY Zenon
<1> SUFFICES Outcome(open_drop(device, tag_of, hybrid, drop.envelope, drop.chunks),
                     device, devices, suite, hybrid, text)
  BY Zenon, <1>1
<1>2. PICK keys, cs, n : /\ keys = wrap(tag_of, devices, suite, "content key", decoys)
                         /\ cs = stream_encrypt("content key", "prefix", text)
                         /\ n = total_of(Len(text))
  BY Zenon
<1>3. PICK body : body = [keys |-> Shuffled(keys, order), prefix |-> "prefix",
                          total |-> Len(cs), root |-> cs, work |-> TRUE]
  BY Zenon
<1>4. PICK e : e = IF suite = "hybrid" THEN sign_hybrid(signer, "ml", body) ELSE sign(signer, body)
  BY Zenon
<1>5. drop = [envelope |-> e, chunks |-> cs]
  <2> DEFINE Envelope(b) == IF suite = "hybrid" THEN sign_hybrid(signer, "ml", b)
                            ELSE sign(signer, b)
             Body(ks, c) == [keys |-> Shuffled(ks, order), prefix |-> "prefix",
                             total |-> Len(c), root |-> c, work |-> TRUE]
             Drop(ks, c) == [envelope |-> Envelope(Body(ks, c)), chunks |-> c]
  <2>1. drop = Drop(wrap(tag_of, devices, suite, "content key", decoys),
                    stream_encrypt("content key", "prefix", text))
    BY Zenon, <1>1 DEF create_drop, Shuffled
  <2>2. e = Envelope(body) /\ body = Body(keys, cs)
    BY Zenon, <1>3, <1>4
  <2>3. Drop(keys, cs) = [envelope |-> Envelope(Body(keys, cs)), chunks |-> cs]
    BY Zenon
  <2> HIDE DEF Envelope, Body, Drop
  <2> QED
    BY Zenon, <1>2, <2>1, <2>2, <2>3
<1>6. drop.envelope = e /\ drop.chunks = cs
  <2>1. [envelope |-> e, chunks |-> cs].envelope = e /\ [envelope |-> e, chunks |-> cs].chunks = cs
    OBVIOUS
  <2> QED
    BY Zenon, <1>5, <2>1
<1>7. verify(e) /\ e.payload = body
  <2>1. CASE suite = "hybrid"
    <3>1. e = sign_hybrid(signer, "ml", body)
      BY Zenon, <1>4, <2>1
    <3>2. /\ e.kind = 2 /\ e.ml = "ml" /\ e.signer = signer /\ e.payload = body
          /\ e.ed_sig = Sig(signer, body) /\ e.ml_sig = Sig("ml", body)
      BY <3>1 DEF sign_hybrid
    <3>3. e.kind # 1 /\ e.ml # "none"
      BY <3>2
    <3> QED
      BY Zenon, <3>2, <3>3 DEF verify
  <2>2. CASE suite # "hybrid"
    <3>1. e = sign(signer, body)
      BY Zenon, <1>4, <2>2
    <3>2. /\ e.kind = 1 /\ e.signer = signer /\ e.payload = body
          /\ e.ed_sig = Sig(signer, body) /\ e.ml_sig = NoSig
      BY <3>1 DEF sign
    <3>3. e.kind # 2
      BY <3>2
    <3> QED
      BY Zenon, <3>2, <3>3 DEF verify
  <2> QED
    BY Zenon, <2>1, <2>2
<1>8. /\ body.keys = Shuffled(keys, order) /\ body.prefix = "prefix" /\ body.total = Len(cs)
      /\ body.work
  BY <1>3
<1>9. Outcome(unwrap(tag_of, device, hybrid, body.keys), device, devices, suite, hybrid, "content key")
  <2>1. body.keys = Shuffled(wrap(tag_of, devices, suite, "content key", decoys), order)
    BY Zenon, <1>2, <1>8
  <2>2. ASSUME NEW ck
        PROVE  Outcome(unwrap(tag_of, device, hybrid,
                              Shuffled(wrap(tag_of, devices, suite, ck, decoys), order)),
                       device, devices, suite, hybrid, ck)
    BY SMT, AddresseesUnwrap
  <2> QED
    BY Zenon, <2>1, <2>2
<1>10. /\ n \in Nat /\ n > 0 /\ Len(cs) = n /\ DOMAIN cs = 1..n
      /\ cs = [i \in 1..n |-> ChunkOf("content key", "prefix", text, i)]
  <2>1. IsStream(cs, n, "content key", "prefix", text)
    BY Zenon, <1>2, StreamIs
  <2> QED
    BY Zenon, <2>1 DEF IsStream
<1>11. [i \in 1..n |-> cs[i]] = cs
  BY Zenon, <1>10
<1>12. stream_decrypt("content key", [prefix |-> "prefix", total |-> n], cs) = Ok(text)
  <2>1. stream_decrypt("content key", [prefix |-> "prefix", total |-> Len(cs)], cs) = Ok(text)
    BY ZenonT(40), <1>2, StreamOpens
  <2>2. Len(cs) = n
    BY Zenon, <1>10
  <2> QED
    BY Zenon, <2>1, <2>2
<1>13. 1..n \subseteq DOMAIN cs
  BY Zenon, <1>10
<1>14. CASE device \in Range(devices) /\ HasKeypair(suite, hybrid)
  <2>1. unwrap(tag_of, device, hybrid, body.keys) = Ok("content key")
    BY Zenon, <1>9, <1>14 DEF Outcome
  <2>2. Ok("content key").ok /\ Ok("content key").v = "content key"
    BY DEF Ok
  <2>3. open_drop(device, tag_of, hybrid, e, cs)
          = stream_decrypt("content key", [prefix |-> "prefix", total |-> n],
                           [i \in 1..n |-> cs[i]])
    <3>1. body.total = n
      BY Zenon, <1>8, <1>10
    <3> QED
      BY Zenon, <1>7, <1>8, <1>13, <2>1, <2>2, <3>1 DEF open_drop
  <2> QED
    BY Zenon, <1>6, <1>11, <1>12, <1>14, <2>3 DEF Outcome
<1>15. CASE ~(device \in Range(devices) /\ HasKeypair(suite, hybrid))
  <2>1. PICK found : found = unwrap(tag_of, device, hybrid, body.keys) /\ ~found.ok
    BY Zenon, <1>9, <1>15 DEF Outcome
  <2>2. open_drop(device, tag_of, hybrid, e, cs) = found
    BY Zenon, <1>7, <1>8, <2>1 DEF open_drop
  <2> QED
    BY Zenon, <1>6, <1>15, <2>1, <2>2 DEF Outcome
<1> QED
  BY Zenon, <1>14, <1>15

------------------------------------------------------------------------------
(* The bounded inputs *)

\* What a step takes, if anything.
LEMMA Takes ==
  ASSUME [DropNext]_input
  PROVE  \/ input' = input
         \/ TakeDrop /\ input'.of = "drop"
         \/ TakeEnvelope /\ input'.of = "envelope"
         \/ TakeChunks /\ input'.of = "chunks"
         \/ TakeBox /\ input'.of = "box"
         \/ TakeCert /\ input'.of = "cert"
<1>1. ASSUME TakeDrop PROVE input'.of = "drop"
  BY <1>1 DEF TakeDrop, Take
<1>2. ASSUME TakeEnvelope PROVE input'.of = "envelope"
  <2>1. PICK e : input' = [of |-> "envelope", e |-> e]
    BY Zenon, <1>2 DEF TakeEnvelope, Take
  <2> QED
    BY <2>1
<1>3. ASSUME TakeChunks PROVE input'.of = "chunks"
  BY SMTT(30), <1>3 DEF TakeChunks, Take
<1>4. ASSUME TakeBox PROVE input'.of = "box"
  BY <1>4 DEF TakeBox, Take
<1>5. ASSUME TakeCert PROVE input'.of = "cert"
  BY <1>5 DEF TakeCert, Take
<1> QED
  BY Zenon, <1>1, <1>2, <1>3, <1>4, <1>5 DEF DropNext

\* At first no input is taken.
LEMMA InitOf ==
  ASSUME Init
  PROVE  input.of = "nothing"
BY DEF Init, Nothing

\* What open_drop opens was signed as it is.
THEOREM OpensOnlySigned == DropSpec => []OpenedIsSigned
<1>1. OpenedIsSigned
  <2>1. PICK device, tags : device = (CHOOSE d \in Device : TRUE) /\ tags = [d \in Device |-> 1]
    BY Zenon
  <2> SUFFICES ASSUME NEW hybrid \in BOOLEAN, NEW e, NEW chunk,
                      open_drop(device, tags, hybrid, e, chunk).ok
               PROVE  /\ e.ed_sig = Sig(e.signer, e.payload)
                      /\ e.ml_sig # NoSig => e.ml_sig = Sig(e.ml, e.payload)
    BY Zenon, <2>1 DEF OpenedIsSigned
  <2> QED
    BY Zenon, OpenedWasSigned
<1> QED
  BY <1>1, PTL DEF DropSpec

\* A text of letters.
LEMMA LettersAre ==
  ASSUME NEW n \in Nat
  PROVE  Letters(n) \in Seq(Nat) /\ Len(Letters(n)) = n
BY DEF Letters

\* The chunks of the n letters that are in question.
Pool(n) == Range(Stream("k", n)) \cup Range(Stream("l", n))

\* They are genuine.
LEMMA PoolIsGenuine ==
  ASSUME NEW n \in Nat, NEW c \in Pool(n)
  PROVE  Genuine(c, Nat, "k", "prefix", Letters(n))
<1>1. ChunkSize \in Nat /\ ChunkSize > 0
  BY SizeAssumption
<1>2. PICK t : t = Letters(n)
  BY Zenon
<1>3. t \in Seq(Nat)
  BY Zenon, <1>2, LettersAre
<1>4. PICK k, cs : k \in {"k", "l"} /\ cs = stream_encrypt(k, "prefix", t) /\ c \in Range(cs)
  BY Zenon, <1>2 DEF Pool, Stream
<1>5. PICK m : m = total_of(Len(t)) /\ IsStream(cs, m, k, "prefix", t)
  BY Zenon, <1>1, <1>3, <1>4, StreamIs
<1>6. PICK j \in 1..m : c = cs[j]
  BY Zenon, <1>4, <1>5 DEF Range, IsStream
<1>7. cs = [i \in 1..m |-> ChunkOf(k, "prefix", t, i)]
  BY Zenon, <1>5 DEF IsStream
<1>8. cs[j] = ChunkOf(k, "prefix", t, j)
  BY Zenon, <1>7
<1> QED
  BY Zenon, <1>2, <1>3, <1>5, <1>6, <1>8 DEF Genuine

\* What is promised of a selection of chunks.
SelectionExact(n, total, chosen) ==
  LET cs == Stream("k", n)
      r == stream_decrypt("k", [prefix |-> "prefix", total |-> total], chosen)
  IN  /\ cs # <<>>
      /\ \A i \in 1..(Len(cs) - 1) : Len(cs[i].data) = ChunkSize
      /\ cs[Len(cs)].data = <<>> => n = 0
      /\ IF chosen = cs /\ total = Len(cs) THEN r.ok /\ r.v = Letters(n) ELSE ~r.ok

\* It holds for any selection.
LEMMA SelectionIsExact ==
  ASSUME NEW n \in Nat, NEW total \in Nat, total > 0, NEW chosen \in Seq(Pool(n))
  PROVE  SelectionExact(n, total, chosen)
<1>1. ChunkSize \in Nat /\ ChunkSize > 0
  BY SizeAssumption
<1>2. PICK t, cs, f : /\ t = Letters(n) /\ cs = Stream("k", n)
                      /\ f = [prefix |-> "prefix", total |-> total]
  BY Zenon
<1>3. t \in Seq(Nat) /\ Len(t) = n
  BY Zenon, <1>2, LettersAre
<1>4. cs = stream_encrypt("k", "prefix", t)
  BY Zenon, <1>2 DEF Stream
<1>5. /\ Len(cs) > 0
      /\ \A i \in 1..(Len(cs) - 1) : Len(cs[i].data) = ChunkSize
      /\ Len(cs[Len(cs)].data) = 0 => t = <<>>
  BY Zenon, <1>1, <1>3, <1>4, StreamShape
<1>6. cs # <<>>
  BY <1>5
<1>7. cs[Len(cs)].data = <<>> => n = 0
  <2>1. Len(<<>>) = 0
    OBVIOUS
  <2> QED
    BY Zenon, <1>3, <1>5, <2>1
<1>8. \A i \in DOMAIN chosen : Genuine(chosen[i], Nat, "k", "prefix", t)
  <2>1. \A i \in DOMAIN chosen : chosen[i] \in Pool(n)
    OBVIOUS
  <2> QED
    BY Zenon, <1>2, <2>1, PoolIsGenuine
<1>9. stream_decrypt("k", f, chosen).ok <=> chosen = cs /\ total = Len(chosen)
  <2>1. ASSUME NEW key, NEW prefix, \A i \in DOMAIN chosen : Genuine(chosen[i], Nat, key, prefix, t)
        PROVE  stream_decrypt(key, [prefix |-> prefix, total |-> total], chosen).ok
                 <=> chosen = stream_encrypt(key, prefix, t) /\ total = Len(chosen)
    BY SMTT(30), <1>1, <1>3, <2>1, StreamIsExact
  <2> QED
    BY Zenon, <1>2, <1>4, <1>8, <2>1
<1>10. chosen = cs /\ total = Len(cs) => stream_decrypt("k", f, chosen).v = t
  <2>1. stream_decrypt("k", [prefix |-> "prefix", total |-> Len(cs)], cs) = Ok(t)
    BY ZenonT(40), <1>1, <1>3, <1>4, StreamOpens
  <2>2. Ok(t).v = t
    BY DEF Ok
  <2> QED
    BY Zenon, <1>2, <2>1, <2>2
<1> QED
  BY Zenon, <1>2, <1>5, <1>6, <1>7, <1>9, <1>10 DEF SelectionExact

\* encrypt makes no chunk too many or too few, and decrypt accepts exactly the chunks of
\* the text, all of them and in order, and returns the text.
THEOREM StreamsAreExact == DropSpec => []StreamExact
<1>1. Init => StreamExact
  BY Zenon, InitOf DEF StreamExact
<1>2. ASSUME StreamExact, [DropNext]_input
      PROVE  StreamExact'
  <2>1. CASE TakeChunks
    <3>1. PICK n \in Sizes, total \in 1..4 :
            \E cs \in ListsOf(Pool(n), 3) :
              input' = [of |-> "chunks", n |-> n, total |-> total, cs |-> cs]
      BY Zenon, <2>1 DEF TakeChunks, Take, Pool
    <3>2. PICK cs \in ListsOf(Pool(n), 3) :
            input' = [of |-> "chunks", n |-> n, total |-> total, cs |-> cs]
      BY Zenon, <3>1
    <3>3. cs \in Seq(Pool(n))
      <4>1. PICK k \in 0..3 : cs \in [1..k -> Pool(n)]
        BY Zenon DEF ListsOf
      <4>2. PICK pool : pool = Pool(n)
        BY Zenon
      <4>3. cs \in Seq(pool)
        BY <4>1, <4>2
      <4> QED
        BY Zenon, <4>2, <4>3
    <3>4. n \in Nat /\ total \in Nat /\ total > 0
      BY SizeAssumption DEF Sizes
    <3>5. input'.n = n /\ input'.total = total /\ input'.cs = cs
      BY <3>2
    <3>6. SelectionExact(n, total, cs)
      BY Zenon, <3>3, <3>4, SelectionIsExact
    <3> QED
      BY Zenon, <3>5, <3>6 DEF StreamExact, SelectionExact
  <2>2. CASE input'.of # "chunks"
    BY Zenon, <2>2 DEF StreamExact
  <2>3. CASE input' = input
    BY Zenon, <1>2, <2>3 DEF StreamExact
  <2> QED
    BY Zenon, <1>2, <2>1, <2>2, <2>3, Takes
<1> QED
  BY <1>1, <1>2, PTL DEF DropSpec

\* The lists are sequences.
LEMMA ListsAreSeqs ==
  ASSUME NEW S, NEW n, NEW s \in ListsOf(S, n)
  PROVE  s \in Seq(S)
<1>1. PICK k \in 0..n : s \in [1..k -> S]
  BY Zenon DEF ListsOf
<1>2. k \in Nat
  OBVIOUS
<1> QED
  BY <1>1, <1>2

\* The shuffles are as many as the wrapped keys need.
LEMMA OrdersAreShuffles ==
  ASSUME NEW to \in Seq(Device), NEW order \in Orders(Max({MinTags, Len(to)}))
  PROVE  IsShuffle(order, KeyCount(to))
<1>1. PICK l, c : l = Len(to) /\ c = KeyCount(to) /\ l \in Nat
  BY Zenon, LengthIs
<1>2. MinTags \in Nat
  BY SizeAssumption
<1>3. Max({MinTags, l}) = IF MinTags >= l THEN MinTags ELSE l
  <2>1. MinTags \in Int /\ l \in Int
    BY <1>1, <1>2
  <2> QED
    BY Zenon, <2>1, MaxOfTwo
<1>4. c = l + (IF l < MinTags THEN MinTags - l ELSE 0)
  BY Zenon, <1>1 DEF KeyCount, DecoyCount
<1>5. Max({MinTags, l}) = c
  BY <1>1, <1>2, <1>3, <1>4
<1>6. order \in [1..c -> 1..c] /\ Range(order) = 1..c
  BY Zenon, <1>1, <1>5 DEF Orders
<1>7. \A i \in 1..c : \E j \in 1..c : order[j] = i
  BY Zenon, <1>6 DEF Range
<1> QED
  BY Zenon, <1>1, <1>6, <1>7 DEF IsShuffle

\* What is promised of a drop.
DropOpens(to, tags, suite, text, decoys, order) ==
  \A dev \in Device, hybrid \in BOOLEAN :
    LET drop == create_drop("author", tags, to, suite, text, decoys, order)
        r == open_drop(dev, tags, hybrid, drop.envelope, drop.chunks)
    IN  IF dev \in Range(to) /\ (suite = "hybrid" => hybrid) THEN r.ok /\ r.v = text ELSE ~r.ok

\* It holds for any drop.
LEMMA DropsOpen ==
  ASSUME NEW to \in Seq(Device), NEW tags, NEW suite, NEW B, NEW text \in Seq(B), NEW decoys,
         NEW order \in Orders(Max({MinTags, Len(to)}))
  PROVE  DropOpens(to, tags, suite, text, decoys, order)
<1>1. ChunkSize \in Nat /\ ChunkSize > 0 /\ MinTags \in Nat /\ "nobody" \notin Device
  BY SizeAssumption, PeopleAssumption
<1>2. IsShuffle(order, KeyCount(to))
  BY Zenon, OrdersAreShuffles
<1> SUFFICES ASSUME NEW dev \in Device, NEW hybrid \in BOOLEAN
             PROVE  LET drop == create_drop("author", tags, to, suite, text, decoys, order)
                        r == open_drop(dev, tags, hybrid, drop.envelope, drop.chunks)
                    IN  IF dev \in Range(to) /\ (suite = "hybrid" => hybrid)
                        THEN r.ok /\ r.v = text ELSE ~r.ok
  BY Zenon DEF DropOpens
<1>3. ASSUME NEW signer
      PROVE  LET drop == create_drop(signer, tags, to, suite, text, decoys, order)
             IN  Outcome(open_drop(dev, tags, hybrid, drop.envelope, drop.chunks),
                         dev, to, suite, hybrid, text)
  BY SMTT(30), <1>1, <1>2, DropOpensForAddressees
<1>4. PICK drop, r : /\ drop = create_drop("author", tags, to, suite, text, decoys, order)
                     /\ r = open_drop(dev, tags, hybrid, drop.envelope, drop.chunks)
  BY Zenon
<1>5. Outcome(r, dev, to, suite, hybrid, text)
  BY Zenon, <1>3, <1>4
<1>6. Ok(text).ok /\ Ok(text).v = text
  BY DEF Ok
<1>7. IF dev \in Range(to) /\ (suite = "hybrid" => hybrid) THEN r.ok /\ r.v = text ELSE ~r.ok
  BY Zenon, <1>5, <1>6 DEF Outcome, HasKeypair
<1> QED
  BY Zenon, <1>4, <1>7

\* A drop opens, to its text, on exactly the devices it was made for.
THEOREM OpensForAddressees == DropSpec => []AddresseesOpen
<1>1. Init => AddresseesOpen
  BY Zenon, InitOf DEF AddresseesOpen
<1>2. ASSUME AddresseesOpen, [DropNext]_input
      PROVE  AddresseesOpen'
  <2>1. CASE TakeDrop
    <3>1. PICK to, tags, suite, n, decoys, order :
            /\ to \in ListsOf(Device, Cardinality(Device)) /\ n \in {0, ChunkSize + 1}
            /\ order \in Orders(Max({MinTags, Len(to)}))
            /\ input' = [of |-> "drop", to |-> to, tags |-> tags, suite |-> suite,
                         text |-> Letters(n), decoys |-> decoys, order |-> order]
      BY Zenon, <2>1 DEF TakeDrop, Take
    <3>2. PICK text : text = Letters(n)
      BY Zenon
    <3>3. /\ input'.to = to /\ input'.tags = tags /\ input'.suite = suite /\ input'.text = text
          /\ input'.decoys = decoys /\ input'.order = order
      BY <3>1, <3>2
    <3>4. to \in Seq(Device)
      BY Zenon, <3>1, ListsAreSeqs
    <3>5. n \in Nat
      BY <3>1, SizeAssumption
    <3>6. text \in Seq(Nat)
      BY Zenon, <3>2, <3>5, LettersAre
    <3>7. DropOpens(to, tags, suite, text, decoys, order)
      BY Zenon, <3>1, <3>4, <3>6, DropsOpen
    <3> QED
      BY ZenonT(40), <3>3, <3>7 DEF AddresseesOpen, DropOpens, Created
  <2>2. CASE input'.of # "drop"
    BY Zenon, <2>2 DEF AddresseesOpen
  <2>3. CASE input' = input
    BY Zenon, <1>2, <2>3 DEF AddresseesOpen, Created
  <2> QED
    BY Zenon, <1>2, <2>1, <2>2, <2>3, Takes
<1> QED
  BY <1>1, <1>2, PTL DEF DropSpec

\* What is promised of a box put together from the parts of two sealed keys.
BoxToOne(suite, box, whole, by, to, text) ==
  LET r == IF suite = "classical" THEN open(box, <<"x", by>>) ELSE hybrid_open(box, HybridKeys(by))
  IN  IF box = whole /\ by = to THEN r.ok /\ r.v = text ELSE ~r.ok

\* A classical box.
LEMMA ClassicalToOne ==
  ASSUME NEW text, NEW to, NEW by, NEW eph, NEW draw, NEW nonce, NEW other
  PROVE  LET whole == seal(text, <<"x", to>>, <<"ephemeral", draw>>, nonce)
             box == [ephemeral |-> eph, nonce |-> other, ciphertext |-> whole.ciphertext]
         IN  BoxToOne("classical", box, whole, by, to, text)
<1>0. PICK whole, box :
        /\ whole = seal(text, <<"x", to>>, <<"ephemeral", draw>>, nonce)
        /\ box = [ephemeral |-> eph, nonce |-> other, ciphertext |-> whole.ciphertext]
  BY Zenon
<1> SUFFICES BoxToOne("classical", box, whole, by, to, text)
  BY Zenon, <1>0
<1>1. PICK x, y, e : x = <<"x", to>> /\ y = <<"x", by>> /\ e = <<"ephemeral", draw>>
  BY Zenon
<1>2. x # Zero /\ e # Zero /\ y # e /\ (x = y <=> by = to)
  BY <1>1 DEF Zero
<1>3. PICK r : r = open(box, y)
  BY Zenon
<1>4. box.ciphertext = seal(text, x, e, nonce).ciphertext /\ whole = seal(text, x, e, nonce)
  BY <1>0, <1>1
<1>5. CASE box = whole
  <2>1. r = IF y = x THEN [ok |-> TRUE, v |-> text] ELSE [ok |-> FALSE]
    <3>1. open(seal(text, x, e, nonce), y)
            = IF y = x THEN [ok |-> TRUE, v |-> text] ELSE [ok |-> FALSE]
      BY SMTT(30), <1>2, SealedOpensForOne
    <3> QED
      BY Zenon, <1>3, <1>4, <1>5, <3>1
  <2>2. IF box = whole /\ by = to THEN r.ok /\ r.v = text ELSE ~r.ok
    <3>1. CASE by = to
      <4>1. r = [ok |-> TRUE, v |-> text]
        BY Zenon, <1>2, <2>1, <3>1
      <4>2. r.ok /\ r.v = text
        BY <4>1
      <4> QED
        BY Zenon, <1>5, <3>1, <4>2
    <3>2. CASE by # to
      <4>1. r = [ok |-> FALSE]
        BY Zenon, <1>2, <2>1, <3>2
      <4>2. ~r.ok
        BY <4>1
      <4> QED
        BY Zenon, <3>2, <4>2
    <3> QED
      BY Zenon, <3>1, <3>2
  <2> QED
    BY Zenon, <1>1, <1>3, <2>2 DEF BoxToOne
<1>6. CASE box # whole
  <2>1. ~r.ok
    <3>1. SUFFICES ASSUME r.ok PROVE FALSE
      BY Zenon
    <3>2. box.ephemeral = e /\ box.nonce = nonce
      <4>1. open(box, y).ok
        BY Zenon, <1>3, <3>1
      <4> QED
        BY SMTT(30), <1>2, <1>4, <4>1, SealedBoxIsWhole
    <3>3. eph = e /\ other = nonce
      BY <1>0, <3>2
    <3>4. whole = [ephemeral |-> e, nonce |-> nonce, ciphertext |-> whole.ciphertext]
      BY <1>4 DEF seal
    <3> QED
      BY Zenon, <1>0, <1>6, <3>3, <3>4
  <2> QED
    BY Zenon, <1>1, <1>3, <1>6, <2>1 DEF BoxToOne
<1> QED
  BY Zenon, <1>5, <1>6

\* A hybrid box: all of its parts count, the KEM ciphertext among them.
LEMMA HybridToOne ==
  ASSUME NEW text, NEW to, NEW by, NEW eph, NEW draw, NEW nonce, NEW other, NEW kem, NEW d
  PROVE  LET whole == hybrid_seal(text, HybridKeys(to), <<"ephemeral", draw>>, draw, nonce)
             box == [ephemeral |-> eph, kem |-> <<kem, d>>, nonce |-> other,
                     ciphertext |-> whole.ciphertext]
         IN  BoxToOne("hybrid", box, whole, by, to, text)
<1>0. PICK whole, box :
        /\ whole = hybrid_seal(text, HybridKeys(to), <<"ephemeral", draw>>, draw, nonce)
        /\ box = [ephemeral |-> eph, kem |-> <<kem, d>>, nonce |-> other,
                  ciphertext |-> whole.ciphertext]
  BY Zenon
<1> SUFFICES BoxToOne("hybrid", box, whole, by, to, text)
  BY Zenon, <1>0
<1>1. PICK x, y, e : x = HybridKeys(to) /\ y = HybridKeys(by) /\ e = <<"ephemeral", draw>>
  BY Zenon
<1>2. /\ x.x25519 # Zero /\ e # Zero /\ y.x25519 # e
      /\ (y.x25519 = x.x25519 /\ y.kem = x.kem) <=> by = to
  BY Zenon, <1>1 DEF Zero, HybridKeys
<1>3. PICK r : r = hybrid_open(box, y)
  BY Zenon
<1>4. whole = hybrid_seal(text, x, e, draw, nonce)
  BY Zenon, <1>0, <1>1
<1>5. box.ciphertext = hybrid_seal(text, x, e, draw, nonce).ciphertext /\ box.kem = <<kem, d>>
  BY <1>0, <1>4
<1>6. CASE box = whole
  <2>1. r = IF by = to THEN [ok |-> TRUE, v |-> text] ELSE [ok |-> FALSE]
    <3>1. hybrid_open(hybrid_seal(text, x, e, draw, nonce), y)
            = IF y.x25519 = x.x25519 /\ y.kem = x.kem
              THEN [ok |-> TRUE, v |-> text] ELSE [ok |-> FALSE]
      BY SMTT(30), <1>2, HybridOpensForOne
    <3> QED
      BY Zenon, <1>2, <1>3, <1>4, <1>6, <3>1
  <2>2. IF box = whole /\ by = to THEN r.ok /\ r.v = text ELSE ~r.ok
    <3>1. CASE by = to
      <4>1. r = [ok |-> TRUE, v |-> text]
        BY Zenon, <2>1, <3>1
      <4>2. r.ok /\ r.v = text
        BY <4>1
      <4> QED
        BY Zenon, <1>6, <3>1, <4>2
    <3>2. CASE by # to
      <4>1. r = [ok |-> FALSE]
        BY Zenon, <2>1, <3>2
      <4>2. ~r.ok
        BY <4>1
      <4> QED
        BY Zenon, <3>2, <4>2
    <3> QED
      BY Zenon, <3>1, <3>2
  <2>3. "hybrid" # "classical"
    OBVIOUS
  <2> QED
    BY Zenon, <1>1, <1>3, <2>2, <2>3 DEF BoxToOne
<1>7. CASE box # whole
  <2>1. ~r.ok
    <3>1. SUFFICES ASSUME r.ok PROVE FALSE
      BY Zenon
    <3>2. /\ box.ephemeral = e /\ box.nonce = nonce
          /\ box.kem = hybrid_seal(text, x, e, draw, nonce).kem
      <4>1. hybrid_open(box, y).ok
        BY Zenon, <1>3, <3>1
      <4> QED
        BY SMTT(30), <1>2, <1>5, <4>1, HybridBoxIsWhole
    <3>3. eph = e /\ other = nonce /\ <<kem, d>> = whole.kem
      BY Zenon, <1>0, <1>4, <3>2
    <3>4. whole = [ephemeral |-> e, kem |-> whole.kem, nonce |-> nonce,
                   ciphertext |-> whole.ciphertext]
      BY <1>4 DEF hybrid_seal
    <3> QED
      BY Zenon, <1>0, <1>7, <3>3, <3>4
  <2>2. "hybrid" # "classical"
    OBVIOUS
  <2> QED
    BY Zenon, <1>1, <1>3, <1>7, <2>1, <2>2 DEF BoxToOne
<1> QED
  BY Zenon, <1>6, <1>7

\* The i-th box of an input and the box put together, with its nonce and its ephemeral
\* key, as functions of the input.
NonceOf(in, i) == IF in.same_nonce THEN 1 ELSE i
BoxOf(in, i) ==
  IF in.suite = "classical"
  THEN seal(i, <<"x", in.to[i]>>, <<"ephemeral", i>>, NonceOf(in, i))
  ELSE hybrid_seal(i, HybridKeys(in.to[i]), <<"ephemeral", i>>, i, NonceOf(in, i))
EphOf(in) == IF in.eph = 0 THEN Zero ELSE BoxOf(in, in.eph).ephemeral
PartsOf(in) ==
  LET box == [BoxOf(in, in.text) EXCEPT !.ephemeral = EphOf(in),
                                       !.nonce = BoxOf(in, in.nonce).nonce]
  IN  IF in.suite = "classical" THEN box ELSE [box EXCEPT !.kem = BoxOf(in, in.kem).kem]

\* Whatever parts the box has, it is a whole one of its device or opens for nobody.
LEMMA PartsToOne ==
  ASSUME NEW in, in.suite \in {"classical", "hybrid"}
  PROVE  BoxToOne(in.suite, PartsOf(in), BoxOf(in, in.text), in.by, in.to[in.text], in.text)
<1>1. PICK text, to, eph, nonce, other :
        /\ text = in.text /\ to = in.to[text] /\ eph = EphOf(in)
        /\ nonce = NonceOf(in, text) /\ other = BoxOf(in, in.nonce).nonce
  BY Zenon
<1>2. PICK parts, whole : parts = PartsOf(in) /\ whole = BoxOf(in, text)
  BY Zenon
<1>3. CASE in.suite = "classical"
  <2>1. whole = seal(text, <<"x", to>>, <<"ephemeral", text>>, nonce)
    BY Zenon, <1>1, <1>2, <1>3 DEF BoxOf
  <2>2. whole = [ephemeral |-> whole.ephemeral, nonce |-> whole.nonce,
                 ciphertext |-> whole.ciphertext]
    BY <2>1 DEF seal
  <2>3. parts = [whole EXCEPT !.ephemeral = eph, !.nonce = other]
    BY Zenon, <1>1, <1>2, <1>3 DEF PartsOf
  <2>4. parts = [ephemeral |-> eph, nonce |-> other, ciphertext |-> whole.ciphertext]
    BY Zenon, <2>2, <2>3
  <2>5. BoxToOne("classical", parts, whole, in.by, to, text)
    BY Zenon, <2>1, <2>4, ClassicalToOne
  <2> QED
    BY Zenon, <1>1, <1>2, <1>3, <2>5
<1>4. CASE in.suite = "hybrid"
  <2>0. in.suite # "classical"
    BY <1>4
  <2>1. whole = hybrid_seal(text, HybridKeys(to), <<"ephemeral", text>>, text, nonce)
    BY Zenon, <1>1, <1>2, <2>0 DEF BoxOf
  <2>2. whole = [ephemeral |-> whole.ephemeral, kem |-> whole.kem, nonce |-> whole.nonce,
                 ciphertext |-> whole.ciphertext]
    BY SMTT(30), <2>1 DEF hybrid_seal
  <2>3. PICK k, d : BoxOf(in, in.kem).kem = <<k, d>>
    <3>1. BoxOf(in, in.kem) = hybrid_seal(in.kem, HybridKeys(in.to[in.kem]), <<"ephemeral", in.kem>>,
                                          in.kem, NonceOf(in, in.kem))
      BY Zenon, <2>0 DEF BoxOf
    <3> QED
      BY <3>1 DEF hybrid_seal, encapsulate
  <2>4. parts = [[whole EXCEPT !.ephemeral = eph, !.nonce = other] EXCEPT !.kem = <<k, d>>]
    BY Zenon, <1>1, <1>2, <2>0, <2>3 DEF PartsOf
  <2>5. parts = [ephemeral |-> eph, kem |-> <<k, d>>, nonce |-> other,
                 ciphertext |-> whole.ciphertext]
    BY Zenon, <2>2, <2>4
  <2>6. BoxToOne("hybrid", parts, whole, in.by, to, text)
    BY Zenon, <2>1, <2>5, HybridToOne
  <2> QED
    BY Zenon, <1>1, <1>2, <1>4, <2>6
<1> QED
  BY Zenon, <1>3, <1>4

\* What is promised of an input.
BoxesOpenForOne(in) ==
  in.of = "box" =>
    BoxToOne(in.suite, PartsOf(in), BoxOf(in, in.text), in.by, in.to[in.text], in.text)

\* That is what SealedToOne says.
LEMMA SealedToOneIs ==
  (SealedToOne <=> BoxesOpenForOne(input)) /\ (SealedToOne' <=> BoxesOpenForOne(input'))
<1>1. Assembled = PartsOf(input) /\ Assembled' = PartsOf(input')
  BY Zenon DEF Assembled, SealedBox, PartsOf, BoxOf, EphOf, NonceOf
<1>2. SealedBox(input.text) = BoxOf(input, input.text) /\ SealedBox(input.text)' = BoxOf(input', input'.text)
  BY Zenon DEF SealedBox, BoxOf, NonceOf
<1>3. SealedToOne <=> BoxesOpenForOne(input)
  BY Zenon, <1>1, <1>2 DEF SealedToOne, BoxesOpenForOne, BoxToOne
<1>4. SealedToOne' <=> BoxesOpenForOne(input')
  BY Zenon, <1>1, <1>2 DEF SealedToOne, BoxesOpenForOne, BoxToOne
<1> QED
  BY Zenon, <1>3, <1>4

\* seal and hybrid_seal: a sealed content key opens for its device, to the key that was
\* sealed, and with a part of another box for nobody.
THEOREM SealedOpenForOne == DropSpec => []SealedToOne
<1>1. Init => SealedToOne
  BY InitOf DEF SealedToOne
<1>2. SealedToOne /\ [DropNext]_input => SealedToOne'
  <2> SUFFICES ASSUME SealedToOne, [DropNext]_input PROVE BoxesOpenForOne(input')
    BY Zenon, SealedToOneIs
  <2>1. CASE TakeBox
    <3>1. input'.suite \in {"classical", "hybrid"}
      BY <2>1 DEF TakeBox, Take
    <3>2. PICK in : in = input'
      BY Zenon
    <3>3. in.suite \in {"classical", "hybrid"}
      BY Zenon, <3>1, <3>2
    <3>4. BoxToOne(in.suite, PartsOf(in), BoxOf(in, in.text), in.by, in.to[in.text], in.text)
      BY SMT, <3>3, PartsToOne
    <3> QED
      BY Zenon, <3>2, <3>4 DEF BoxesOpenForOne
  <2>2. CASE input'.of # "box"
    BY Zenon, <2>2 DEF BoxesOpenForOne
  <2>3. CASE input' = input
    BY Zenon, <2>3, SealedToOneIs
  <2> QED
    BY Zenon, <2>1, <2>2, <2>3, Takes
<1> QED
  BY <1>1, <1>2, PTL DEF DropSpec

\* f[i] is what a loop has collected after i rounds: the values of the rounds in H, in order.
Collecting(f, H, a, n) ==
  /\ f[0] = <<>>
  /\ \A i \in 1..n : f[i] = f[i - 1] \o (IF i \in H THEN <<a[i]>> ELSE <<>>)

\* s has the values of the rounds of H up to m and no others.
Collected(s, H, a, m) ==
  /\ \A k \in 1..Len(s) : \E i \in H : i <= m /\ s[k] = a[i]
  /\ \A i \in H : i <= m => \E k \in 1..Len(s) : s[k] = a[i]

\* No two attestations are of the same witness.
Different(s) == \A k, l \in 1..Len(s) : k # l => s[k].witness # s[l].witness
DifferentIn(H, a) == \A i, j \in H : i # j => a[i].witness # a[j].witness

\* A round that adds a value.
LEMMA CollectOne ==
  ASSUME NEW n \in Nat, NEW H \in SUBSET (1..n), NEW A, NEW a, \A i \in H : a[i] \in A,
         NEW m \in H, NEW s \in Seq(A), Collected(s, H, a, m - 1)
  PROVE  LET t == s \o <<a[m]>>
         IN  /\ t \in Seq(A) /\ Collected(t, H, a, m)
             /\ DifferentIn(H, a) /\ Different(s) => Different(t)
<1>0. PICK t : t = s \o <<a[m]>>
  BY Zenon
<1>1. PICK l \in Nat : l = Len(s) /\ t = s \o <<a[m]>>
  BY Zenon, <1>0, LengthIs
<1>2. /\ t \in Seq(A) /\ Len(t) = l + 1 /\ t[l + 1] = a[m]
      /\ \A k \in 1..l : t[k] = s[k]
  BY <1>1
<1>3. /\ \A i \in H : i \in Nat
      /\ \A i \in H : i <= m <=> i <= m - 1 \/ i = m
      /\ \A i \in H : i <= m - 1 => i # m
      /\ m <= m
  OBVIOUS
<1>4. /\ \A k \in 1..(l + 1) : k \in 1..l \/ k = l + 1
      /\ \A k \in 1..l : k \in 1..(l + 1) /\ k # l + 1
      /\ l + 1 \in 1..(l + 1)
  OBVIOUS
<1>5. /\ \A k \in 1..l : \E i \in H : i <= m - 1 /\ s[k] = a[i]
      /\ \A i \in H : i <= m - 1 => \E k \in 1..l : s[k] = a[i]
  BY Zenon, <1>1 DEF Collected
<1>6. ASSUME NEW k \in 1..(l + 1)
      PROVE  \E i \in H : i <= m /\ t[k] = a[i]
  <2>1. CASE k \in 1..l
    <3>1. PICK i \in H : i <= m - 1 /\ s[k] = a[i]
      BY Zenon, <1>5, <2>1
    <3> QED
      BY Zenon, <1>2, <1>3, <2>1, <3>1
  <2>2. CASE k = l + 1
    BY Zenon, <1>2, <1>3, <2>2
  <2> QED
    BY Zenon, <1>4, <2>1, <2>2
<1>7. ASSUME NEW i \in H, i <= m
      PROVE  \E k \in 1..(l + 1) : t[k] = a[i]
  <2>1. CASE i <= m - 1
    <3>1. PICK k \in 1..l : s[k] = a[i]
      BY Zenon, <1>5, <2>1
    <3>2. t[k] = a[i] /\ k \in 1..(l + 1)
      BY Zenon, <1>2, <1>4, <3>1
    <3> QED
      BY Zenon, <3>2
  <2>2. CASE i = m
    <3>1. t[l + 1] = a[i]
      BY Zenon, <1>2, <2>2
    <3> QED
      BY Zenon, <1>4, <3>1
  <2>3. i <= m - 1 \/ i = m
    BY Zenon, <1>3, <1>7
  <2> QED
    BY Zenon, <2>1, <2>2, <2>3
<1>8. Collected(t, H, a, m)
  BY Zenon, <1>2, <1>6, <1>7 DEF Collected
<1>9. ASSUME DifferentIn(H, a), Different(s)
      PROVE  Different(t)
  <2>1. ASSUME NEW k \in 1..l
        PROVE  t[k].witness # a[m].witness
    <3>1. PICK i \in H : i <= m - 1 /\ s[k] = a[i]
      BY Zenon, <1>5
    <3>2. a[i].witness # a[m].witness
      BY Zenon, <1>3, <1>9, <3>1 DEF DifferentIn
    <3> QED
      BY Zenon, <1>2, <3>1, <3>2
  <2>2. ASSUME NEW k \in 1..l, NEW j \in 1..l, k # j
        PROVE  t[k].witness # t[j].witness
    <3>1. s[k].witness # s[j].witness
      BY Zenon, <1>1, <1>9, <2>2 DEF Different
    <3> QED
      BY Zenon, <1>2, <3>1
  <2>3. \A k, j \in 1..(l + 1) : k # j => t[k].witness # t[j].witness
    BY Zenon, <1>2, <1>4, <2>1, <2>2
  <2> QED
    BY Zenon, <1>2, <2>3 DEF Different
<1> QED
  BY Zenon, <1>1, <1>2, <1>8, <1>9

\* A loop has collected the values of all its rounds of H.
LEMMA LoopCollects ==
  ASSUME NEW n \in Nat, NEW H \in SUBSET (1..n), NEW A, NEW a, \A i \in H : a[i] \in A,
         NEW f, Collecting(f, H, a, n)
  PROVE  /\ f[n] \in Seq(A) /\ Collected(f[n], H, a, n)
         /\ DifferentIn(H, a) => Different(f[n])
<1> DEFINE Good(m) == /\ f[m] \in Seq(A) /\ Collected(f[m], H, a, m)
                      /\ DifferentIn(H, a) => Different(f[m])
           Bad == {m \in 0..n : ~Good(m)}
<1>1. Good(0)
  <2>1. f[0] = <<>>
    BY Zenon DEF Collecting
  <2>2. \A i \in H : ~(i <= 0)
    OBVIOUS
  <2>3. f[0] \in Seq(A) /\ 1..Len(f[0]) = {}
    BY <2>1
  <2> QED
    BY Zenon, <2>2, <2>3 DEF Collected, Different
<1>2. ASSUME NEW m \in 1..n, Good(m - 1)
      PROVE  Good(m)
  <2>1. f[m] = f[m - 1] \o (IF m \in H THEN <<a[m]>> ELSE <<>>)
    BY Zenon DEF Collecting
  <2>2. PICK s : s = f[m - 1]
    BY Zenon
  <2>3. s \in Seq(A) /\ Collected(s, H, a, m - 1) /\ (DifferentIn(H, a) => Different(s))
    BY Zenon, <1>2, <2>2
  <2>4. CASE m \in H
    <3>1. PICK t : t = s \o <<a[m]>>
      BY Zenon
    <3>2. /\ t \in Seq(A) /\ Collected(t, H, a, m)
          /\ DifferentIn(H, a) /\ Different(s) => Different(t)
      BY Zenon, <2>3, <2>4, <3>1, CollectOne
    <3>3. f[m] = t
      BY Zenon, <2>1, <2>2, <2>4, <3>1
    <3> QED
      BY Zenon, <2>3, <3>2, <3>3
  <2>5. CASE m \notin H
    <3>1. f[m] = s \o <<>>
      BY Zenon, <2>1, <2>2, <2>5
    <3>2. f[m] = s
      BY <2>3, <3>1
    <3>3. \A i \in H : i <= m - 1 <=> i <= m
      BY <2>5
    <3>4. Collected(s, H, a, m)
      BY Zenon, <2>3, <3>3 DEF Collected
    <3> QED
      BY Zenon, <2>3, <3>2, <3>4
  <2> QED
    BY Zenon, <2>4, <2>5
<1> HIDE DEF Good
<1>3. ASSUME Bad # {}
      PROVE  FALSE
  <2>1. Bad \subseteq Nat
    OBVIOUS
  <2>2. PICK m : m \in Bad /\ \A i \in Bad : m <= i
    <3> HIDE DEF Bad
    <3> QED
      BY Zenon, <1>3, <2>1, MinIs
  <2>3. m \in 0..n /\ ~Good(m)
    BY Zenon, <2>2
  <2>4. m # 0
    BY Zenon, <1>1, <2>3
  <2>5. m - 1 \in 0..n /\ ~(m <= m - 1) /\ m \in 1..n
    BY <2>3, <2>4
  <2>6. Good(m - 1)
    BY Zenon, <2>2, <2>5
  <2> QED
    BY Zenon, <1>2, <2>3, <2>5, <2>6
<1>4. n \in 0..n
  OBVIOUS
<1>5. Good(n)
  BY Zenon, <1>3, <1>4
<1> QED
  BY Zenon, <1>5 DEF Good

\* Every such loop can be run to its end.
LEMMA LoopRuns ==
  ASSUME NEW n \in Nat, NEW H, NEW a
  PROVE  \E f : Collecting(f, H, a, n)
<1> DEFINE More(i) == IF i \in H THEN <<a[i]>> ELSE <<>>
           Runs(m) == \E f : Collecting(f, H, a, m)
           Bad == {m \in Nat : ~Runs(m)}
<1>1. Runs(0)
  <2>1. PICK f : f = [i \in {0} |-> <<>>]
    BY Zenon
  <2>2. f[0] = <<>> /\ 1..0 = {}
    BY <2>1
  <2>3. Collecting(f, H, a, 0)
    BY Zenon, <2>2 DEF Collecting
  <2> QED
    BY Zenon, <2>3
<1>2. ASSUME NEW m \in Nat, m # 0, Runs(m - 1)
      PROVE  Runs(m)
  <2>1. PICK f : Collecting(f, H, a, m - 1)
    BY Zenon, <1>2
  <2>2. PICK g : g = [i \in 0..m |-> IF i = m THEN f[m - 1] \o More(m) ELSE f[i]]
    BY Zenon
  <2>3. /\ m \in 0..m /\ m - 1 \in 0..m /\ m - 1 # m /\ 0 # m /\ 0 \in 0..m
        /\ \A i \in 1..m : i = m \/ (i \in 1..(m - 1) /\ i \in 0..m /\ i - 1 \in 0..m /\ i # m /\ i - 1 # m)
    BY <1>2
  <2>4. g[m] = f[m - 1] \o More(m) /\ \A i \in 0..m : i # m => g[i] = f[i]
    BY Zenon, <2>2, <2>3
  <2>5. f[0] = <<>> /\ \A i \in 1..(m - 1) : f[i] = f[i - 1] \o More(i)
    BY Zenon, <2>1 DEF Collecting
  <2> HIDE DEF More
  <2>6. g[0] = <<>>
    BY Zenon, <2>3, <2>4, <2>5
  <2>7. ASSUME NEW i \in 1..m
        PROVE  g[i] = g[i - 1] \o More(i)
    <3>1. CASE i = m
      <4>1. g[m - 1] = f[m - 1]
        BY Zenon, <2>3, <2>4
      <4> QED
        BY Zenon, <2>4, <3>1, <4>1
    <3>2. CASE i # m
      <4>1. g[i] = f[i] /\ g[i - 1] = f[i - 1] /\ i \in 1..(m - 1)
        BY Zenon, <2>3, <2>4, <3>2
      <4> QED
        BY Zenon, <2>5, <4>1
    <3> QED
      BY Zenon, <3>1, <3>2
  <2>8. Collecting(g, H, a, m)
    BY Zenon, <2>6, <2>7 DEF Collecting, More
  <2> QED
    BY Zenon, <2>8
<1> HIDE DEF Runs
<1>3. ASSUME Bad # {}
      PROVE  FALSE
  <2>1. Bad \subseteq Nat
    BY Zenon
  <2>2. PICK m : m \in Bad /\ \A i \in Bad : m <= i
    <3> HIDE DEF Bad
    <3> QED
      BY Zenon, <1>3, <2>1, MinIs
  <2>3. m \in Nat /\ ~Runs(m)
    BY Zenon, <2>2
  <2>4. m # 0
    BY Zenon, <1>1, <2>3
  <2>5. m - 1 \in Nat /\ ~(m <= m - 1)
    BY <2>3, <2>4
  <2>6. Runs(m - 1)
    BY Zenon, <2>2, <2>5
  <2> QED
    BY Zenon, <1>2, <2>3, <2>4, <2>6
<1> QED
  BY Zenon, <1>3 DEF Runs

\* The rounds in which the claimant asks a witness of the cell, and what it gets.
HereRounds(asks, home) == {i \in 1..Len(asks) : home[asks[i][1]] = "here"}
Given(asks, expiry) == [i \in 1..Len(asks) |-> attest(asks[i][1], Asked(asks[i][2], expiry))]

\* The attestations after all asks, as a function of the asks.
AttestationsOf(asks, home, expiry) ==
  LET got[i \in 0..Len(asks)] ==
        IF i = 0 THEN <<>>
        ELSE got[i - 1] \o request_presence(asks[i][1], home[asks[i][1]], Asked(asks[i][2], expiry))
  IN  got[Len(asks)]

\* They are what the loop over the asks collects.
LEMMA AttestationsCollect ==
  ASSUME NEW asks, NEW home, NEW expiry, Len(asks) \in Nat
  PROVE  \E f : /\ Collecting(f, HereRounds(asks, home), Given(asks, expiry), Len(asks))
                /\ AttestationsOf(asks, home, expiry) = f[Len(asks)]
<1>0. PICK H, a : H = HereRounds(asks, home) /\ a = Given(asks, expiry)
  BY Zenon
<1>1. PICK n \in Nat : n = Len(asks) /\ H = HereRounds(asks, home) /\ a = Given(asks, expiry)
  BY Zenon, <1>0
<1> DEFINE Answer(i) == request_presence(asks[i][1], home[asks[i][1]], Asked(asks[i][2], expiry))
           Body(x) == [i \in 0..n |-> IF i = 0 THEN <<>> ELSE x[i - 1] \o Answer(i)]
<1>2. ASSUME NEW i \in 1..n
      PROVE  Answer(i) = IF i \in H THEN <<a[i]>> ELSE <<>>
  <2>1. Asked(asks[i][2], expiry).cell = "here"
    BY DEF Asked
  <2>2. i \in H <=> "here" = home[asks[i][1]]
    BY Zenon, <1>1 DEF HereRounds
  <2>3. a[i] = attest(asks[i][1], Asked(asks[i][2], expiry))
    BY Zenon, <1>1 DEF Given
  <2> QED
    BY Zenon, <2>1, <2>2, <2>3 DEF request_presence
<1>3. PICK g : Collecting(g, H, a, n)
  BY Zenon, LoopRuns
<1>4. AttestationsOf(asks, home, expiry) = (CHOOSE x : x = Body(x))[n]
  BY Zenon, <1>1 DEF AttestationsOf
<1> HIDE DEF Answer
<1>5. \A i \in 0..n : i # 0 => i - 1 \in 0..n /\ i \in 1..n
  OBVIOUS
<1>6. PICK G : G = [i \in 0..n |-> g[i]]
  BY Zenon
<1>7. \A i \in 0..n : G[i] = g[i]
  BY Zenon, <1>6
<1>8. G = Body(G)
  <2>1. ASSUME NEW i \in 0..n
        PROVE  g[i] = IF i = 0 THEN <<>> ELSE G[i - 1] \o Answer(i)
    <3>1. CASE i = 0
      BY Zenon, <1>3, <3>1 DEF Collecting
    <3>2. CASE i # 0
      <4>1. i \in 1..n /\ G[i - 1] = g[i - 1]
        BY Zenon, <1>5, <1>7, <3>2
      <4>2. g[i] = g[i - 1] \o (IF i \in H THEN <<a[i]>> ELSE <<>>)
        BY Zenon, <1>3, <4>1 DEF Collecting
      <4> QED
        BY Zenon, <1>2, <3>2, <4>1, <4>2
    <3> QED
      BY Zenon, <3>1, <3>2
  <2> QED
    BY Zenon, <1>6, <2>1
<1>9. PICK f : f = (CHOOSE x : x = Body(x))
  BY Zenon
<1>10. f = Body(f)
  <2> HIDE DEF Body
  <2> QED
    BY Zenon, <1>8, <1>9
<1>11. f[0] = <<>>
  <2>1. 0 \in 0..n
    OBVIOUS
  <2> QED
    BY Zenon, <1>10, <2>1
<1>12. ASSUME NEW i \in 1..n
       PROVE  f[i] = f[i - 1] \o (IF i \in H THEN <<a[i]>> ELSE <<>>)
  <2>1. i \in 0..n /\ i # 0
    OBVIOUS
  <2>2. f[i] = f[i - 1] \o Answer(i)
    BY Zenon, <1>10, <2>1
  <2> QED
    BY Zenon, <1>2, <2>2
<1>13. Collecting(f, H, a, n)
  BY Zenon, <1>11, <1>12 DEF Collecting
<1> HIDE DEF Body
<1> QED
  BY Zenon, <1>1, <1>4, <1>9, <1>13

\* The witnesses of the cell that were asked with this request.
AskedHereOf(asks, home) == {w \in Witness : home[w] = "here" /\ <<w, "new">> \in Range(asks)}

\* What the claimant may ask: witnesses, with this request or an earlier one.
Asks == Seq(Witness \X {"old", "new"})

\* The attestations are of witnesses asked in the cell, each with the nonce it was asked with.
LEMMA AttestationsAre ==
  ASSUME NEW asks \in Asks, NEW home, NEW expiry
  PROVE  LET s == AttestationsOf(asks, home, expiry)
             H == HereRounds(asks, home)
             a == Given(asks, expiry)
         IN  /\ Len(asks) \in Nat /\ s \in Seq(Range(a)) /\ Collected(s, H, a, Len(asks))
             /\ DifferentIn(H, a) => Different(s)
<1>0. PICK H, a : H = HereRounds(asks, home) /\ a = Given(asks, expiry)
  BY Zenon
<1>1. PICK n \in Nat : n = Len(asks) /\ H = HereRounds(asks, home) /\ a = Given(asks, expiry)
  BY Zenon, <1>0, LengthIs DEF Asks
<1>2. PICK f : Collecting(f, H, a, n) /\ AttestationsOf(asks, home, expiry) = f[n]
  BY Zenon, <1>1, AttestationsCollect
<1>3. H \in SUBSET (1..n)
  BY Zenon, <1>1 DEF HereRounds
<1>4. \A i \in H : a[i] \in Range(a)
  <2>1. DOMAIN a = 1..n
    BY Zenon, <1>1 DEF Given
  <2> QED
    BY Zenon, <1>3, <2>1 DEF Range
<1>5. /\ f[n] \in Seq(Range(a)) /\ Collected(f[n], H, a, n)
      /\ DifferentIn(H, a) => Different(f[n])
  BY Zenon, <1>2, <1>3, <1>4, LoopCollects
<1> QED
  BY Zenon, <1>1, <1>2, <1>5

\* One ask and what comes of it.
LEMMA AskIs ==
  ASSUME NEW asks \in Asks, NEW expiry, NEW i \in 1..Len(asks)
  PROVE  LET b == Given(asks, expiry)[i]
         IN  /\ asks[i][1] \in Witness /\ asks[i][2] \in {"old", "new"}
             /\ asks[i] = <<asks[i][1], asks[i][2]>> /\ asks[i] \in Range(asks)
             /\ b = attest(asks[i][1], Asked(asks[i][2], expiry))
             /\ b.witness = asks[i][1] /\ b.nonce = asks[i][2]
<1>1. DOMAIN asks = 1..Len(asks) /\ asks[i] \in Witness \X {"old", "new"}
  BY DEF Asks
<1>2. asks[i] \in Range(asks)
  BY Zenon, <1>1 DEF Range
<1>3. PICK w, c : w = asks[i][1] /\ c = asks[i][2]
  BY Zenon
<1>4. w \in Witness /\ c \in {"old", "new"} /\ asks[i] = <<w, c>>
  BY <1>1, <1>3
<1>5. Given(asks, expiry)[i] = attest(w, Asked(c, expiry))
  BY Zenon, <1>3 DEF Given
<1>6. attest(w, Asked(c, expiry)).witness = w /\ attest(w, Asked(c, expiry)).nonce = c
  BY DEF attest, Asked
<1> QED
  BY Zenon, <1>2, <1>3, <1>4, <1>5, <1>6

\* What an accepted certificate stands for.
LEMMA AcceptedProves ==
  ASSUME NEW asks \in Asks, NEW home, NEW expiry, NEW threshold \in Nat, NEW now \in Nat,
         cert_verify_at(Asked("new", expiry), AttestationsOf(asks, home, expiry), threshold, now)
  PROVE  /\ threshold > 0 /\ Cardinality(AskedHereOf(asks, home)) >= threshold
         /\ expiry # 0 => now <= expiry
<1>1. PICK s, H, a, n, R : /\ s = AttestationsOf(asks, home, expiry) /\ H = HereRounds(asks, home)
                           /\ a = Given(asks, expiry) /\ n = Len(asks)
                           /\ R = Range(a)
  BY Zenon
<1>2. n \in Nat /\ s \in Seq(R) /\ Collected(s, H, a, n)
  BY Zenon, <1>1, AttestationsAre
<1>3. PICK request : request = Asked("new", expiry)
  BY Zenon
<1>4. request.nonce = "new" /\ request.expiry = expiry
  BY <1>3 DEF Asked
<1>5. PICK W, V : W = {s[i].witness : i \in DOMAIN s} /\ V = AskedHereOf(asks, home)
  BY Zenon
<1>6. /\ threshold > 0 /\ Cardinality(W) >= threshold
      /\ expiry # 0 => now <= expiry
  <2>1. cert_verify_at(request, s, threshold, now)
    BY Zenon, <1>1, <1>3
  <2>2. /\ threshold > 0 /\ Cardinality({s[i].witness : i \in DOMAIN s}) >= threshold
        /\ request.expiry # 0 => now <= request.expiry
    BY Zenon, <1>2, <2>1, CertProvesPresence
  <2> QED
    BY Zenon, <1>4, <1>5, <2>2
<1>7. \A k \in DOMAIN s : s[k].nonce = "new"
  BY Zenon, <1>1, <1>3, <1>4 DEF cert_verify_at, cert_verify, Matches
<1>8. W \subseteq V
  <2>1. SUFFICES ASSUME NEW k \in DOMAIN s
                 PROVE  s[k].witness \in V
    BY Zenon, <1>5
  <2>2. k \in 1..Len(s)
    BY <1>2
  <2>3. PICK i \in H : s[k] = a[i]
    BY Zenon, <1>2, <2>2 DEF Collected
  <2>4. i \in 1..Len(asks) /\ home[asks[i][1]] = "here"
    BY Zenon, <1>1 DEF HereRounds
  <2>5. /\ asks[i][1] \in Witness /\ asks[i] = <<asks[i][1], asks[i][2]>> /\ asks[i] \in Range(asks)
        /\ a[i].witness = asks[i][1] /\ a[i].nonce = asks[i][2]
    BY Zenon, <1>1, <2>4, AskIs
  <2>6. asks[i][2] = "new"
    BY Zenon, <1>7, <2>3, <2>5
  <2>7. <<asks[i][1], "new">> \in Range(asks)
    BY Zenon, <2>5, <2>6
  <2> QED
    BY Zenon, <1>5, <2>3, <2>4, <2>5, <2>7 DEF AskedHereOf
<1>9. IsFiniteSet(V)
  <2>1. V \in SUBSET Witness
    BY Zenon, <1>5 DEF AskedHereOf
  <2> QED
    BY Zenon, <2>1, PeopleAssumption, FS_Subset
<1>10. IsFiniteSet(W) /\ Cardinality(W) <= Cardinality(V)
  <2>1. W \in SUBSET V
    BY Zenon, <1>8
  <2> QED
    BY Zenon, <1>9, <2>1, FS_Subset
<1>11. Cardinality(W) \in Nat /\ Cardinality(V) \in Nat
  BY Zenon, <1>9, <1>10, FS_CardinalityType
<1>12. Cardinality(V) >= threshold
  BY <1>6, <1>10, <1>11
<1> QED
  BY Zenon, <1>5, <1>6, <1>12

\* Every witness asked at most once, and with this request only.
AskedOnce(asks) ==
  \A i, j \in DOMAIN asks : asks[i][2] = "new" /\ (asks[i] = asks[j] => i = j)

\* All of V are witnesses of the first l attestations.
AllAttested(V, s, l) == \A w \in V : \E k \in 1..l : s[k].witness = w

\* Then there are as many attestations as members of V, or more.
LEMMA LongEnough ==
  ASSUME NEW l \in Nat, NEW V, NEW s, AllAttested(V, s, l)
  PROVE  Cardinality(V) <= l \/ V = {}
<1>1. CASE V # {}
  <2>1. PICK v : v \in V
    BY Zenon, <1>1
  <2>2. PICK f : f = [k \in 1..l |-> IF s[k].witness \in V THEN s[k].witness ELSE v]
    BY Zenon
  <2>3. f \in [1..l -> V]
    BY Zenon, <2>1, <2>2
  <2>4. ASSUME NEW w \in V
        PROVE  \E k \in 1..l : f[k] = w
    <3>1. PICK k \in 1..l : s[k].witness = w
      BY Zenon DEF AllAttested
    <3>2. f[k] = w
      BY Zenon, <2>2, <3>1
    <3> QED
      BY Zenon, <3>2
  <2>5. f \in Surjection(1..l, V)
    BY Zenon, <2>3, <2>4 DEF Surjection
  <2> QED
    BY Zenon, <2>5, FS_SurjCardinalityBound DEF ExistsSurjection
<1> QED
  BY Zenon, <1>1

\* What is asked for once, of a threshold of witnesses of the cell, is a certificate.
LEMMA AskedSuffices ==
  ASSUME NEW asks \in Asks, NEW home, NEW expiry, NEW now \in Nat, AskedOnce(asks),
         NEW threshold \in 1..Cardinality(AskedHereOf(asks, home)),
         expiry = 0 \/ now <= expiry
  PROVE  cert_verify_at(Asked("new", expiry), AttestationsOf(asks, home, expiry), threshold, now)
<1>0. PICK V : V = AskedHereOf(asks, home)
  BY Zenon
<1>1. PICK s, H, a, n, R : /\ s = AttestationsOf(asks, home, expiry) /\ H = HereRounds(asks, home)
                           /\ a = Given(asks, expiry) /\ n = Len(asks)
                           /\ R = Range(a)
  BY Zenon
<1>2. /\ n \in Nat /\ s \in Seq(R) /\ Collected(s, H, a, n)
      /\ DifferentIn(H, a) => Different(s)
  BY Zenon, <1>1, AttestationsAre
<1>3. PICK request : request = Asked("new", expiry)
  BY Zenon
<1>4. PICK l \in Nat : l = Len(s) /\ V = AskedHereOf(asks, home)
  BY Zenon, <1>0, <1>2, LengthIs
<1>5. DOMAIN s = 1..l /\ DOMAIN asks = 1..n
  BY <1>1, <1>2, <1>4 DEF Asks
<1>6. ASSUME NEW i \in H
      PROVE  /\ i \in 1..n /\ i <= n /\ home[asks[i][1]] = "here" /\ asks[i] = <<asks[i][1], "new">>
             /\ a[i] = attest(asks[i][1], request) /\ a[i].witness = asks[i][1]
  <2>1. i \in 1..n /\ i \in 1..Len(asks) /\ home[asks[i][1]] = "here"
    BY Zenon, <1>1 DEF HereRounds
  <2>2. i <= n
    BY SMTT(30), <1>2, <2>1
  <2>3. /\ asks[i] = <<asks[i][1], asks[i][2]>> /\ a[i].witness = asks[i][1]
        /\ a[i] = attest(asks[i][1], Asked(asks[i][2], expiry))
    BY Zenon, <1>1, <2>1, AskIs
  <2>4. asks[i][2] = "new"
    BY Zenon, <1>5, <2>1 DEF AskedOnce
  <2> QED
    BY Zenon, <1>3, <2>1, <2>2, <2>3, <2>4
<1>7. DifferentIn(H, a)
  <2>1. ASSUME NEW i \in H, NEW j \in H, a[i].witness = a[j].witness
        PROVE  i = j
    <3>1. asks[i] = asks[j]
      BY Zenon, <1>6, <2>1
    <3>2. i \in DOMAIN asks /\ j \in DOMAIN asks
      BY Zenon, <1>5, <1>6
    <3> QED
      BY Zenon, <3>1, <3>2 DEF AskedOnce
  <2> QED
    BY Zenon, <2>1 DEF DifferentIn
<1>8. \A k, j \in 1..l : k # j => s[k].witness # s[j].witness
  BY Zenon, <1>2, <1>4, <1>7 DEF Different
<1>9. ASSUME NEW k \in 1..l
      PROVE  Matches(s[k], request) /\ attestation_verify(s[k])
  <2>1. PICK i \in H : s[k] = a[i]
    BY Zenon, <1>2, <1>4 DEF Collected
  <2>2. PICK w : s[k] = attest(w, request)
    BY Zenon, <1>6, <2>1
  <2> QED
    BY <2>2 DEF attest, Matches, attestation_verify
<1>10. \A k \in 1..l : \A j \in 1..(k - 1) : s[j].witness # s[k].witness
  <2>1. \A k \in 1..l : \A j \in 1..(k - 1) : j \in 1..l /\ j # k
    OBVIOUS
  <2> QED
    BY Zenon, <1>8, <2>1
<1>11. ASSUME NEW w \in V
       PROVE  \E k \in 1..l : s[k].witness = w
  <2>1. home[w] = "here" /\ <<w, "new">> \in Range(asks)
    BY Zenon, <1>4 DEF AskedHereOf
  <2>2. PICK i \in 1..n : asks[i] = <<w, "new">>
    BY Zenon, <1>5, <2>1 DEF Range
  <2>3. asks[i][1] = w
    BY <2>2
  <2>4. i \in H
    BY Zenon, <1>1, <2>1, <2>3 DEF HereRounds
  <2>5. PICK k \in 1..l : s[k] = a[i]
    BY Zenon, <1>2, <1>4, <1>6, <2>4 DEF Collected
  <2>6. s[k].witness = w
    BY Zenon, <1>6, <2>3, <2>4, <2>5
  <2> QED
    BY Zenon, <2>6
<1>12. threshold # 0 /\ l >= threshold
  <2>1. V \in SUBSET Witness
    BY Zenon, <1>4 DEF AskedHereOf
  <2>2. IsFiniteSet(V)
    BY Zenon, <2>1, PeopleAssumption, FS_Subset
  <2>3. PICK c \in Nat : c = Cardinality(V)
    BY Zenon, <2>2, FS_CardinalityType
  <2>4. c <= l \/ V = {}
    <3>1. AllAttested(V, s, l)
      BY Zenon, <1>11 DEF AllAttested
    <3> QED
      BY Zenon, <2>3, <3>1, LongEnough
  <2>5. V = {} => c = 0
    BY Zenon, <2>3, FS_EmptySet
  <2>6. threshold \in 1..c
    BY Zenon, <1>4, <2>3
  <2> QED
    BY SMTT(30), <2>3, <2>4, <2>5, <2>6
<1>13. request.expiry = 0 \/ now <= request.expiry
  BY <1>3 DEF Asked
<1>14. cert_verify(request, s, threshold)
  BY Zenon, <1>4, <1>5, <1>9, <1>10, <1>12 DEF cert_verify
<1> QED
  BY Zenon, <1>1, <1>3, <1>13, <1>14 DEF cert_verify_at

\* What is promised of an input.
CertsExact(in) ==
  LET accepted == cert_verify_at(Asked("new", in.expiry), AttestationsOf(in.asks, in.home, in.expiry),
                                 in.threshold, in.now)
      here == AskedHereOf(in.asks, in.home)
  IN  /\ in.of = "cert" /\ accepted =>
           /\ in.threshold > 0 /\ Cardinality(here) >= in.threshold
           /\ in.expiry # 0 => in.now <= in.expiry
      /\ in.of = "cert" /\ AskedOnce(in.asks) /\ in.threshold \in 1..Cardinality(here)
           /\ in.expiry \in {0} \cup in.now..2 => accepted

\* That is what CertExact says.
LEMMA CertExactIs ==
  (CertExact <=> CertsExact(input)) /\ (CertExact' <=> CertsExact(input'))
<1>1. /\ Attestations = AttestationsOf(input.asks, input.home, input.expiry)
      /\ Attestations' = AttestationsOf(input'.asks, input'.home, input'.expiry)
  BY Zenon DEF Attestations, AttestationsOf
<1>2. /\ AskedHere = AskedHereOf(input.asks, input.home)
      /\ AskedHere' = AskedHereOf(input'.asks, input'.home)
  BY Zenon DEF AskedHere, AskedHereOf
<1>3. CertExact <=> CertsExact(input)
  BY Zenon, <1>1, <1>2 DEF CertExact, CertProves, CertSuffices, Accepted, CertsExact, AskedOnce
<1>4. CertExact' <=> CertsExact(input')
  BY Zenon, <1>1, <1>2 DEF CertExact, CertProves, CertSuffices, Accepted, CertsExact, AskedOnce
<1> QED
  BY Zenon, <1>3, <1>4

\* It holds for any asks of any witnesses.
LEMMA CertsAreExact ==
  ASSUME NEW in, in.asks \in Asks, in.threshold \in Nat, in.now \in Nat, in.expiry \in Nat
  PROVE  CertsExact(in)
<1>0. PICK home : home = in.home
  BY Zenon
<1>1. PICK asks \in Asks, expiry \in Nat, threshold \in Nat, now \in Nat :
        /\ asks = in.asks /\ expiry = in.expiry
        /\ threshold = in.threshold /\ now = in.now
  BY Zenon
<1>2. PICK accepted, here :
        /\ accepted = cert_verify_at(Asked("new", expiry), AttestationsOf(asks, home, expiry),
                                     threshold, now)
        /\ here = AskedHereOf(asks, home)
  BY Zenon
<1>3. ASSUME accepted
      PROVE  /\ threshold > 0 /\ Cardinality(here) >= threshold
             /\ expiry # 0 => now <= expiry
  BY Zenon, <1>2, <1>3, AcceptedProves
<1>4. ASSUME AskedOnce(asks), threshold \in 1..Cardinality(here), expiry \in {0} \cup now..2
      PROVE  accepted
  <2>1. expiry = 0 \/ now <= expiry
    BY <1>4
  <2>2. cert_verify_at(Asked("new", expiry), AttestationsOf(asks, home, expiry), threshold, now)
    BY Zenon, <1>2, <1>4, <2>1, AskedSuffices
  <2> QED
    BY Zenon, <1>2, <2>2
<1> QED
  BY Zenon, <1>0, <1>1, <1>2, <1>3, <1>4 DEF CertsExact

\* PresenceCert::verify_at accepts a certificate when, and only when, a threshold of
\* witnesses of the cell have attested this request and it has not expired, for any
\* witnesses and any order of asking them.
THEOREM CertsProveAndSuffice == DropSpec => []CertExact
<1>1. Init => CertExact
  <2>1. input.of = "nothing" => input.of # "cert"
    OBVIOUS
  <2> QED
    BY Zenon, <2>1, InitOf DEF CertExact, CertProves, CertSuffices
<1>2. CertExact /\ [DropNext]_input => CertExact'
  <2> SUFFICES ASSUME CertExact, [DropNext]_input PROVE CertsExact(input')
    BY Zenon, CertExactIs
  <2>1. CASE TakeCert
    <3>1. PICK home, asks, threshold, expiry, now :
            /\ asks \in ListsOf(Witness \X {"old", "new"}, 3)
            /\ threshold \in 0..3 /\ expiry \in {0, 2} /\ now \in 2..3
            /\ input' = [of |-> "cert", home |-> home, asks |-> asks, threshold |-> threshold,
                         expiry |-> expiry, now |-> now]
      BY Zenon, <2>1 DEF TakeCert, Take
    <3>2. PICK in : in = input'
      BY Zenon
    <3>3. /\ in.asks = asks /\ in.threshold = threshold /\ in.expiry = expiry /\ in.now = now
      BY <3>1, <3>2
    <3>4. threshold \in Nat /\ expiry \in Nat /\ now \in Nat
      BY <3>1
    <3>5. asks \in Asks
      BY Zenon, <3>1, ListsAreSeqs DEF Asks
    <3>6. in.asks \in Asks /\ in.threshold \in Nat /\ in.now \in Nat /\ in.expiry \in Nat
      BY Zenon, <3>3, <3>4, <3>5
    <3>7. CertsExact(in)
      BY Zenon, <3>6, CertsAreExact
    <3> QED
      BY Zenon, <3>2, <3>7
  <2>2. CASE input'.of # "cert"
    BY Zenon, <2>2 DEF CertsExact
  <2>3. CASE input' = input
    BY Zenon, <2>3, CertExactIs
  <2>4. input'.of # "cert" \/ TakeCert \/ input' = input
    BY Takes
  <2> QED
    BY Zenon, <2>1, <2>2, <2>3, <2>4
<1> QED
  BY <1>1, <1>2, PTL DEF DropSpec
==============================================================================
