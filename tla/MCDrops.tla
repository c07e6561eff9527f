------------------------------- MODULE MCDrops -------------------------------
(***************************************************************************)
(* Drops, boxes and certificates on bounded inputs: an input is taken, and *)
(* the invariants compare what the code's functions make of it with what   *)
(* they promise.                                                           *)
(***************************************************************************)
EXTENDS Sealing, Boxes, Presence, Functions, FiniteSets

CONSTANTS
  Device,   \* recipient devices
  Witness   \* presence witnesses

\* Chunks hold something; "nobody" is who decoys are sealed for.
ASSUME SizeAssumption == ChunkSize \in Nat \ {0} /\ MinTags \in Nat

ASSUME PeopleAssumption == "nobody" \notin Device /\ IsFiniteSet(Witness)

VARIABLE input

Nothing == [of |-> "nothing"]

Waiting == input = Nothing

Take(i) == input' = i

Init == input = Nothing

\* The lists of at most n members of a set.
ListsOf(set, n) == UNION {[1..k -> set] : k \in 0..n}

------------------------------------------------------------------------------
(* Drops *)

Letters(n) == [i \in 1..n |-> i]

\* The shuffles of n things.
Orders(n) == {f \in [1..n -> 1..n] : Range(f) = 1..n}

\* A drop for some devices, with all tag collisions, decoy tags and shuffles.
TakeDrop ==
  /\ Waiting
  /\ \E to \in ListsOf(Device, Cardinality(Device)), tags \in [Device -> 1..2],
        suite \in {"classical", "hybrid"}, n \in {0, ChunkSize + 1}, decoys \in [1..MinTags -> 1..2] :
       /\ to # <<>>
       /\ \E order \in Orders(Max({MinTags, Len(to)})) :
            Take([of |-> "drop", to |-> to, tags |-> tags, suite |-> suite,
                  text |-> Letters(n), decoys |-> decoys, order |-> order])

Created ==
  create_drop("author", input.tags, input.to, input.suite, input.text, input.decoys, input.order)

\* A drop opens, to its text, on exactly the devices it was made for: a tag shared with
\* a decoy or another recipient, in any order, neither hides a key nor opens one.  A
\* device that cannot load its hybrid keypair still opens the classical drops, and only
\* those.
AddresseesOpen ==
  input.of = "drop" =>
    \A dev \in Device, hybrid \in BOOLEAN :
      LET r == open_drop(dev, input.tags, hybrid, Created.envelope, Created.chunks)
      IN  IF dev \in Range(input.to) /\ (input.suite = "hybrid" => hybrid)
          THEN r.ok /\ r.v = input.text ELSE ~r.ok

\* Envelopes put together from the parts of genuine ones.
Authors == {"author", "other"}

AllDevices == CHOOSE f \in [1..Cardinality(Device) -> Device] : Range(f) = Device

SampleBody(n) ==
  [keys |-> wrap([d \in Device |-> 1], AllDevices, "classical", "content key", <<1, 1, 1>>),
   prefix |-> "prefix", total |-> 1,
   root |-> stream_encrypt("content key", "prefix", Letters(n)), work |-> TRUE]

Sigs(by) == {NoSig} \cup {Sig(a, SampleBody(n)) : a \in by, n \in 0..1}

TakeEnvelope ==
  /\ Waiting
  /\ \E k \in 1..3, a \in Authors, m \in {"none", "ml", "ml other"}, n \in 0..1,
        ed \in Sigs(Authors), ml \in Sigs({"ml", "ml other"}) :
       Take([of |-> "envelope",
             e |-> [kind |-> k, signer |-> a, ml |-> m, payload |-> SampleBody(n),
                    ed_sig |-> ed, ml_sig |-> ml]])

\* What opens was signed as it is: the named author signed this very body, and where the
\* envelope has an ML-DSA signature its key signed the body too.
OpenedIsSigned ==
  input.of = "envelope" =>
    \A hybrid \in BOOLEAN :
      LET e == input.e
          r == open_drop(CHOOSE d \in Device : TRUE, [d \in Device |-> 1], hybrid, e, e.payload.root)
      IN  r.ok => /\ e.ed_sig = Sig(e.signer, e.payload)
                  /\ e.ml_sig # NoSig => e.ml_sig = Sig(e.ml, e.payload)

Sizes == 0..(2 * ChunkSize + 1)

Stream(key, n) == stream_encrypt(key, "prefix", Letters(n))

\* Chunks of a text and of another drop, in any order and number, under a total that
\* encrypt can make: not 0.
TakeChunks ==
  /\ Waiting
  /\ \E n \in Sizes :
       LET Pool == Range(Stream("k", n)) \cup Range(Stream("l", n))
       IN  \E total \in 1..4, cs \in ListsOf(Pool, 3) :
             Take([of |-> "chunks", n |-> n, total |-> total, cs |-> cs])

\* Every chunk but the last is full, and the last holds something unless the text is
\* empty: none too many at an exact multiple, none too few for the empty text.  decrypt
\* returns the text for all chunks in order, and an error for any other selection:
\* chunks left out, repeated, swapped or of another drop, or another total.
StreamExact ==
  input.of = "chunks" =>
    LET cs == Stream("k", input.n)
        r == stream_decrypt("k", [prefix |-> "prefix", total |-> input.total], input.cs)
    IN  /\ cs # <<>>
        /\ \A i \in 1..(Len(cs) - 1) : Len(cs[i].data) = ChunkSize
        /\ cs[Len(cs)].data = <<>> => input.n = 0
        /\ IF input.cs = cs /\ input.total = Len(cs) THEN r.ok /\ r.v = Letters(input.n) ELSE ~r.ok

\* Two sealed keys for the same or different devices, and a box of parts of both.
HybridKeys(d) == [x25519 |-> <<"hybrid x", d>>, kem |-> <<"kem", d>>]

TakeBox ==
  /\ Waiting
  /\ \E suite \in {"classical", "hybrid"}, to \in [1..2 -> Device], by \in Device,
        same_nonce \in BOOLEAN, eph \in 0..2, kem, nonce, text \in 1..2 :
       Take([of |-> "box", suite |-> suite, to |-> to, by |-> by, same_nonce |-> same_nonce,
             eph |-> eph, kem |-> kem, nonce |-> nonce, text |-> text])

\* The i-th box with its own random draws; the nonces may happen to be equal.
SealedBox(i) ==
  LET nonce == IF input.same_nonce THEN 1 ELSE i
  IN  IF input.suite = "classical"
      THEN seal(i, <<"x", input.to[i]>>, <<"ephemeral", i>>, nonce)
      ELSE hybrid_seal(i, HybridKeys(input.to[i]), <<"ephemeral", i>>, i, nonce)

Assembled ==
  LET box == [SealedBox(input.text) EXCEPT
                !.ephemeral = IF input.eph = 0 THEN Zero ELSE SealedBox(input.eph).ephemeral,
                !.nonce = SealedBox(input.nonce).nonce]
  IN  IF input.suite = "classical" THEN box ELSE [box EXCEPT !.kem = SealedBox(input.kem).kem]

\* A sealed key opens for its device, to the key that was sealed, and for no other; with
\* any part taken from another box it opens for nobody.
SealedToOne ==
  input.of = "box" =>
    LET r == IF input.suite = "classical" THEN open(Assembled, <<"x", input.by>>)
             ELSE hybrid_open(Assembled, HybridKeys(input.by))
        whole == Assembled = SealedBox(input.text)
    IN  IF whole /\ input.by = input.to[input.text] THEN r.ok /\ r.v = input.text ELSE ~r.ok

------------------------------------------------------------------------------
(* Presence *)

Asked(nonce, expiry) == [cell |-> "here", nonce |-> nonce, claimant |-> "claimant", expiry |-> expiry]

\* All witnesses are in the cell, or all but one.
Homes == {[w \in Witness |-> IF w \in away THEN "there" ELSE "here"] : away \in {{}, {CHOOSE w \in Witness : TRUE}}}

\* The claimant asks witnesses, some of them again, some with an earlier request.
TakeCert ==
  /\ Waiting
  /\ \E home \in Homes, asks \in ListsOf(Witness \X {"old", "new"}, 3),
        threshold \in 0..3, expiry \in {0, 2}, now \in 2..3 :
       Take([of |-> "cert", home |-> home, asks |-> asks, threshold |-> threshold,
             expiry |-> expiry, now |-> now])

\* What the claimant has after all asks.
Attestations ==
  LET got[i \in 0..Len(input.asks)] ==
        IF i = 0 THEN <<>>
        ELSE got[i - 1] \o request_presence(input.asks[i][1], input.home[input.asks[i][1]],
                                            Asked(input.asks[i][2], input.expiry))
  IN  got[Len(input.asks)]

Accepted == cert_verify_at(Asked("new", input.expiry), Attestations, input.threshold, input.now)

AskedHere == {w \in Witness : input.home[w] = "here" /\ <<w, "new">> \in Range(input.asks)}

\* A certificate that is accepted stands for a threshold of different witnesses of the
\* cell that attested this request, and has not expired; asking one of them again, or
\* keeping an answer to an earlier request, never adds up to one.
CertProves ==
  input.of = "cert" /\ Accepted =>
    /\ input.threshold > 0 /\ Cardinality(AskedHere) >= input.threshold
    /\ input.expiry # 0 => input.now <= input.expiry

\* Asking each witness once, with this request only, is enough: witnesses of other cells
\* do not get in the way, and the last second before expiry still counts.
CertSuffices ==
  /\ input.of = "cert"
  /\ \A i, j \in DOMAIN input.asks : input.asks[i][2] = "new" /\ (input.asks[i] = input.asks[j] => i = j)
  /\ input.threshold \in 1..Cardinality(AskedHere)
  /\ input.expiry \in {0} \cup input.now..2
  => Accepted

\* Certificates are accepted exactly when they should be.
CertExact == CertProves /\ CertSuffices

------------------------------------------------------------------------------
DropNext == TakeDrop \/ TakeEnvelope \/ TakeChunks \/ TakeBox \/ TakeCert

DropSpec == Init /\ [][DropNext]_input

==============================================================================
