------------------------------ MODULE MCFormats ------------------------------
(***************************************************************************)
(* The pure parts on bounded inputs: an input is taken, and the invariants *)
(* compare what the code's functions make of it with what they promise.    *)
(***************************************************************************)
EXTENDS Canonical, MCDrops

CONSTANTS
  IndexLen, HeaderLen, MaxFrame, MaxRequest,  \* sizes, see Protocol and Http
  Bits, Poly,                                 \* the field: 8 and 27 in the code
  ByteBits, Difficulty                        \* see Pow

MCWidths == <<1, 2, 3>>

LengthOf == [len0 |-> 0, len2 |-> 2, len9 |-> 9, lenx |-> 0]

P == INSTANCE Protocol
H == INSTANCE Http
G == INSTANCE Shamir
K == INSTANCE Pow

------------------------------------------------------------------------------
(* Encodings *)

encode(codec, v) ==
  CASE codec = "uint" -> write_field(U64, v)
    [] codec = "body" -> body_to_canonical(v)
    [] codec = "envelope" -> encode_envelope(v)
    [] codec = "request" -> request_to_canonical(v)
    [] codec = "attestation" -> attestation_to_canonical(v)
    [] codec = "sth" -> sth_to_bytes(v)
    [] codec = "message" -> P!encode(v)

decode(codec, b) ==
  CASE codec = "uint" -> finish(read_field(U64, b, 0), b)
    [] codec = "body" -> body_from_canonical(b)
    [] codec = "envelope" -> envelope_decode(b)
    [] codec = "request" -> request_from_canonical(b)
    [] codec = "attestation" -> attestation_from_canonical(b)
    [] codec = "sth" -> fetch_sth(b)
    [] codec = "message" -> P!read_message(b)

\* Every value at which an encoding changes its form, and its neighbours.
Edges(limit) ==
  {v \in UNION {{Limit(w) - 1, Limit(w), Limit(w) + 1} : w \in 0..Len(Widths)} \cup {0} : v < limit}

Filled(n) == [i \in 1..n |-> i % 3]

EdgesOf(f) ==
  CASE f.as = "uint" -> Edges(f.limit)
    [] f.as = "text" -> {Filled(n) : n \in 0..3}
    [] f.as = "fixed" -> {Filled(f.len)}
    [] f.as = "bytes" -> {Filled(n) : n \in {0, 1, Immediate, Base, Base + 1}}

Plain(fs) ==
  [i \in 1..Len(fs) |->
    CASE fs[i].as = "uint" -> 1
      [] fs[i].as = "fixed" -> Filled(fs[i].len)
      [] OTHER -> Filled(1)]

\* All lists of field values that differ from the plain one in one field.
Variants(fs) == UNION {{[Plain(fs) EXCEPT ![i] = x] : x \in EdgesOf(fs[i])} : i \in 1..Len(fs)}

Key(kind) == [tag |-> Filled(NonceLen), kind |-> kind, sealed |-> Plain(SealedFields(kind))]

Bodies ==
  {[fields |-> v, keys |-> <<Key(1)>>] : v \in Variants(BodyFields)}
    \cup {[fields |-> Plain(BodyFields), keys |-> k] : k \in BoundedSeq({Key(1), Key(2)}, 2)}

Messages ==
  LET Id == Filled(KeyLen)
      Datas == {Filled(n) : n \in {0, 1, Immediate, Immediate + 1}}
  IN  {P!Message("Hello", <<>>, 0, <<x>>) : x \in {0, 1, Base - 1}}
        \cup {P!Message(k, Id, 0, <<>>) : k \in P!Named}
        \cup {P!Message("WantChunk", Id, x, <<>>) : x \in {0, 1, Base, Base ^ IndexLen - 1}}
        \cup {P!Message(k, Id, x, s) : k \in {"Chunk", "PutChunk"}, x \in {0, Base}, s \in Datas}
        \cup {P!Message(k, <<>>, 0, <<>>) : k \in P!Bare}
        \cup {P!Message(k, <<>>, 0, s) : k \in {"Drop", "Presence", "Attestation", "Put", "Sth"},
                                        s \in Datas}

Values(codec) ==
  CASE codec = "uint" -> Edges(Limit(Len(Widths)))
    [] codec = "body" -> Bodies
    [] codec = "envelope" -> Variants(EnvelopeFields)
    [] codec = "request" -> Variants(RequestFields)
    [] codec = "attestation" -> Variants(AttestationFields)
    [] codec = "sth" -> Variants(SthFields)
    [] codec = "message" -> Messages

Codecs == {"uint", "body", "envelope", "request", "attestation", "sth", "message"}

TakeValue ==
  /\ Waiting
  /\ \E c \in Codecs : \E v \in Values(c) : Take([of |-> "value", codec |-> c, v |-> v])

\* The head at position i with its argument in the next longer form.
Wider(b, i) ==
  LET info == b[i] % Infos
  IN  IF info < Immediate
      THEN SubSeq(b, 1, i - 1) \o <<b[i] - info + Immediate, info>> \o SubSeq(b, i + 1, Len(b))
      ELSE SubSeq(b, 1, i - 1) \o <<b[i] + 1, 0>> \o SubSeq(b, i + 1, Len(b))

\* One byte replaced, removed or added, or one head written longer.
Edited(b) ==
  {[b EXCEPT ![i] = x] : i \in DOMAIN b, x \in Byte}
    \cup {RemoveAt(b, i) : i \in DOMAIN b}
    \cup {InsertAt(b, i, x) : i \in 1..(Len(b) + 1), x \in {0, 1, Immediate, Base - 1}}
    \cup {Wider(b, i) : i \in DOMAIN b}

Samples(codec) ==
  CASE codec = "uint" -> {}
    [] codec = "body" -> {[fields |-> Plain(BodyFields), keys |-> k] : k \in {<<>>, <<Key(1)>>, <<Key(2)>>}}
    [] codec = "envelope" -> {Plain(EnvelopeFields)}
    [] codec = "request" -> {Plain(RequestFields)}
    [] codec = "attestation" -> {Plain(AttestationFields)}
    [] codec = "sth" -> {Plain(SthFields)}
    [] codec = "message" ->
         {P!Message("Hello", <<>>, 0, <<1>>), P!Message("Bye", <<>>, 0, <<>>),
          P!Message("Want", Filled(KeyLen), 0, <<>>), P!Message("WantChunk", Filled(KeyLen), 1, <<>>),
          P!Message("PutChunk", Filled(KeyLen), 1, <<>>), P!Message("Sth", <<>>, 0, <<1>>)}

Heads == {<<x>> \o s : x \in Byte, s \in BoundedSeq({0, 1, Immediate, Base - 1}, 3)}

TakeBytes ==
  /\ Waiting
  /\ \/ \E c \in Codecs : \E v \in Samples(c) : \E b \in Edited(encode(c, v)) :
          Take([of |-> "bytes", codec |-> c, b |-> b])
     \/ \E b \in Heads : Take([of |-> "bytes", codec |-> "uint", b |-> b])

Gives(r, v) == r.ok /\ r.v = v

\* Messages whose decoder ignores the rest of the payload.
Ignoring == P!Bare \cup {"Hello", "WantChunk"}

\* The bytes are the message's encoding with more behind its payload.
Surplus(m, b) ==
  /\ m.kind \in Ignoring
  /\ \E n \in 1..Len(b) : b = P!encode_payload(m.kind, P!payload_of(m) \o SubSeq(b, n, Len(b)))

IsImage(codec, r, b) ==
  r.ok => encode(codec, r.v) = b \/ (codec = "message" /\ Surplus(r.v, b))

NothingElse(codec, b) ==
  \A x \in {SubSeq(b, 1, k) : k \in 0..(Len(b) - 1)} \cup {Append(b, e) : e \in {0, Immediate, Base - 1}} :
    ~decode(codec, x).ok

\* Whatever a value's lengths and sizes, decoding its encoding gives it back.
RoundTrip ==
  input.of = "value" => Gives(decode(input.codec, encode(input.codec, input.v)), input.v)

\* A value has one encoding: bytes that decode are the bytes its encoder would write.
\* A drop's id and signature are taken over bytes, so a second encoding of the same
\* body would be another drop with the same content.  Four kinds of message are the
\* exception: they also decode from a longer payload, whose rest is ignored.
OneEncoding ==
  input.of = "bytes" => IsImage(input.codec, decode(input.codec, input.b), input.b)

\* A message or structure cut short anywhere, or followed by anything, does not decode:
\* the readers that take everything up to the end of a stream cannot mistake a broken
\* stream for a shorter message.
WholeOrNothing ==
  input.of = "value" => NothingElse(input.codec, encode(input.codec, input.v))

\* Each format is exact: the encoder's image decodes, to its value, and nothing else does
\* but Hello, Bye, GetSth and WantChunk messages with a surplus in the payload.
CodecExact == RoundTrip /\ OneEncoding /\ WholeOrNothing

------------------------------------------------------------------------------
(* Streams of frames *)

\* Messages around the frame limit.
Sized(n) == P!Message("Put", <<>>, 0, Filled(n))

Sendable ==
  {P!Message("Hello", <<>>, 0, <<1>>), P!Message("GetSth", <<>>, 0, <<>>)}
    \cup {Sized(n) : n \in {MaxFrame - 7, MaxFrame - 6, MaxFrame - 5}}

Frames(ms) == FlattenSeq([i \in DOMAIN ms |-> P!frame(ms[i])])

TakeStream ==
  /\ Waiting
  /\ \E ms \in BoundedSeq(Sendable, 2) : \E k \in 0..Len(Frames(ms)) :
       Take([of |-> "stream", ms |-> ms, cut |-> k])

\* What was received of the messages sent before the stream was cut.
Delivered(r, sent, cut) ==
  LET n == Len(r.messages)
      at == Len(Frames(SubSeq(sent, 1, n)))
  IN  /\ IsPrefix(r.messages, sent)
      /\ at <= cut
      /\ n < Len(sent) => cut < at + Len(P!frame(sent[n + 1]))
      /\ r.end = IF cut - at < HeaderLen THEN "end" ELSE "error"

\* A connection that breaks after any byte has delivered exactly the messages sent in
\* full, in order; a break inside a message is an error, never a message.
FramesInOrder ==
  input.of = "stream" =>
    Delivered(P!recv_all(SubSeq(Frames(input.ms), 1, input.cut), 0),
              SelectSeq(input.ms, LAMBDA m : P!frame(m) # <<>>), input.cut)

------------------------------------------------------------------------------
(* HTTP *)

\* A request's bytes: its lines, the blank line, the body.
Request(lines, body) == FlattenSeq([i \in DOMAIN lines |-> <<lines[i], H!CR, H!LF>>]) \o <<H!CR, H!LF>> \o body

Requests ==
  {Request(l, b) : l \in {<<"get">>, <<"post", "len2">>, <<"post", "len9">>},
                   b \in {<<>>, <<"x">>, <<"x", "y">>, <<H!LF, "x", "y">>}}
    \cup {Request(<<"post", "len0", "len2">>, <<"x">>), Request(<<"post", "lenx", "len2">>, <<"x">>),
          <<"post", H!CR, H!LF>>, <<"post", H!CR, H!LF, H!CR>>}

Sorted(N) == [i \in 1..Cardinality(N) |-> CHOOSE x \in N : Cardinality({y \in N : y < x}) = i - 1]

\* The pieces between the cuts.
Pieces(b, cuts) ==
  LET ends == Sorted(cuts \cup {Len(b)})
  IN  [i \in DOMAIN ends |-> SubSeq(b, IF i = 1 THEN 1 ELSE ends[i - 1] + 1, ends[i])]

TakeRequest ==
  /\ Waiting
  /\ \E b \in Requests : \E cuts \in SUBSET (1..(Len(b) - 1)) :
       Take([of |-> "http", b |-> b, cuts |-> cuts])

\* However TCP cuts a request into pieces, what read_request accepts is the same: the
\* lines up to the blank one and as much of the body as was announced and has come.  A
\* request within the limit is accepted, one whose header is never complete or larger
\* than the limit is refused.  (The limit is on the bytes read until the blank line is
\* found, so a large body may or may not be refused: it depends on how much of it comes
\* in the same piece as the end of the header.)
AnySegments ==
  input.of = "http" =>
    LET b == input.b
        r == H!read_request(Pieces(b, input.cuts))
        blank == {i \in 0..Len(b) : IsPrefix(H!Blank, SubSeq(b, i + 1, Len(b)))}
        start == Min(blank) + 4
        announced == H!content_length(SubSeq(b, 1, start))
    IN  IF blank = {} THEN ~r.ok
        ELSE /\ r.ok => /\ r.headers = SubSeq(b, 1, start)
                       /\ r.body = SubSeq(b, start + 1, Min({start + announced, Len(b)}))
             /\ Len(b) <= MaxRequest => r.ok
             /\ start > MaxRequest => ~r.ok

Paths ==
  BoundedSeq({"api", "drops", "open", "contacts"}, 4)
    \cup {<<"index.html">>, <<"api", "id">>, <<"api", "log", "x", "verify">>, <<"log", "x">>}

TakeRoute ==
  /\ Waiting
  /\ \E m \in {"GET", "POST", "PUT", "OPTIONS"}, p \in Paths, ts \in SUBSET {"right", "wrong"},
        t \in {"none", "right"} :
       Take([of |-> "route", method |-> m, path |-> p, tokens |-> ts, token |-> t])

Routed == H!route(input.method, input.path, input.tokens, input.token)

\* With a token configured, a request without it reaches nothing but the page: every
\* other handler sits behind the check, also those found by prefix.
TokenGuards ==
  input.of = "route" /\ input.token = "right" /\ "right" \notin input.tokens =>
    Routed.handler \in {"none", "index"}

\* Drops, contacts and the log change through the two documented POST requests only.
\* Other requests write at most key files, which the store creates on first use.
OnlyPostsWrite ==
  input.of = "route" =>
    (H!Writes(Routed.handler) \cap {"drops", "contacts.txt", "entries.bin"} # {} =>
       input.method = "POST" /\ input.path \in {<<"api", "drops">>, <<"api", "contacts">>})

\* The routes are guarded: nothing without the token, no change but by the two posts.
RoutesGuarded == TokenGuards /\ OnlyPostsWrite

\* How a client writes a character of a parameter.
Written(x) ==
  CASE x[1] = "byte" -> <<"%", x[2], x[3]>>
    [] x[1] = "space" -> <<"+">>
    [] OTHER -> <<x[1]>>

\* Parameters: one with a value of up to three characters, or two that may have the
\* same name, perhaps with a separator too many.
ValuesUpTo(n) ==
  BoundedSeq({<<"a", 1>>, <<"wide", 0>>, <<"0", 1>>, <<"=", 1>>, <<"?", 1>>, <<"space", 1>>,
              <<"byte", "0", "1">>, <<"byte", "1", "1">>}, n)

Params ==
  {<<<<k, v>>>> : k \in {"a", "0"}, v \in ValuesUpTo(3)}
    \cup {<<<<k, v>>, <<l, w>>>> : k, l \in {"a", "0"}, v, w \in ValuesUpTo(1)}

\* The bytes a value means.
Meant(v) ==
  FlattenSeq([i \in DOMAIN v |-> IF H!IsWide(v[i][1]) THEN H!BytesOf(<<"wide">>) ELSE <<v[i]>>])

Texted(v) == FlattenSeq([i \in DOMAIN v |-> Written(v[i])])

TakeTarget ==
  /\ Waiting
  /\ \E ps \in Params, extra \in BOOLEAN : Take([of |-> "target", params |-> ps, extra |-> extra])

\* The daemon sees the path and the parameters a client wrote: a value may hold equals
\* and question marks, spaces and escapes (also at the very end), the first of two equal
\* names counts, and empty pairs do not.
ParamsFound ==
  input.of = "target" =>
    LET ps == input.params
        joint == IF input.extra THEN <<"&", "&">> ELSE <<"&">>
        text == FlattenSeq([i \in DOMAIN ps |->
                  (IF i = 1 THEN <<"?">> ELSE joint) \o <<ps[i][1], "=">> \o Texted(ps[i][2])])
        r == H!split_target(<<"a">> \o text)
    IN  /\ r.path = <<"a">>
        /\ \A k \in {"a", "0"} :
             LET Named == {i \in DOMAIN ps : ps[i][1] = k}
             IN  H!query_param(r.query, <<<<k, 1>>>>) =
                   IF Named = {} THEN <<>> ELSE <<Meant(ps[Min(Named)][2])>>

------------------------------------------------------------------------------
(* Proof of work *)

\* Digests of the first nonces, one of them good enough.
TakeWork ==
  /\ Waiting
  /\ \E t \in [0..2 -> [1..2 -> 0..(2 ^ ByteBits - 1)]] :
       /\ \E n \in 0..2 : K!is_valid(t, n)
       /\ Take([of |-> "work", t |-> t])

\* mine returns the first nonce whose digest, read as a number, is below the target.
WorkMeetsTarget ==
  input.of = "work" =>
    LET number(d) == d[1] * 2 ^ ByteBits + d[2]
        Good == {n \in 0..2 : number(input.t[n]) < 2 ^ (2 * ByteBits - Difficulty)}
    IN  Good # {} /\ K!mine(input.t) = Min(Good)

------------------------------------------------------------------------------
(* Place lock *)

Custodians == <<"c1", "c2", "c3">>

\* A key shared among custodians, and the shares that are there when it is opened: in any
\* order, and one may be there twice.
TakeShares ==
  /\ Waiting
  /\ \E key \in G!Field, t \in 2..3, n \in 2..3 :
       \E random \in [1..(t - 1) -> G!Field], from \in BoundedSeq(1..n, n), stranger \in BOOLEAN :
         /\ t <= n /\ Len(from) >= t - 1 /\ (stranger => IsInjective(from))
         /\ Take([of |-> "shares", key |-> key, t |-> t, n |-> n, random |-> random,
                  from |-> from, stranger |-> stranger])

SealedShares == G!seal(input.key, SubSeq(Custodians, 1, input.n), input.t, input.random).v

\* Opened by its custodian, or the last one by somebody else.
Available ==
  LET shares == SealedShares
  IN [i \in DOMAIN input.from |->
    [sealed |-> shares[input.from[i]],
     by |-> IF input.stranger /\ i = Len(input.from) THEN "stranger" ELSE Custodians[input.from[i]]]]

\* All the ways to share each key, for each threshold.
Splits ==
  [t \in 2..3 |-> [key \in G!Field |->
    {G!split(key, t, 3, random).v : random \in [1..(t - 1) -> G!Field]}]]

\* What one custodian too few is given, in all the ways to share each key.
Views ==
  [t \in 2..3 |-> [from \in [1..(t - 1) -> 1..3] |-> [key \in G!Field |->
    {[i \in 1..(t - 1) |-> s[from[i]]] : s \in Splits[t][key]}]]]

\* Opened with the threshold it was sealed with, the shares of that many different
\* custodians or more, each once and in any order, give back the key.  Too few shares, or
\* one that does not open, is an error and never some other key.  One custodian too few
\* knows nothing: every key is still possible.  (Of a share that is there twice, to make
\* up the number or besides, nothing is said: open counts it twice and combine does not
\* notice.)
PlaceOpens ==
  input.of = "shares" =>
    LET r == G!open(Available, input.t)
        shares == SealedShares
    IN  /\ Len(input.from) < input.t \/ input.stranger => ~r.ok
        /\ Len(input.from) >= input.t /\ ~input.stranger /\ IsInjective(input.from) =>
             r.ok /\ r.v = input.key
        /\ Len(input.from) < input.t /\ ~input.stranger /\ IsInjective(input.from) =>
             \A key \in G!Field :
               [i \in DOMAIN input.from |-> shares[input.from[i]].share]
                 \in Views[input.t][input.from][key]

------------------------------------------------------------------------------
Next ==
  \/ TakeValue \/ TakeBytes \/ TakeStream
  \/ TakeRequest \/ TakeRoute \/ TakeTarget
  \/ TakeWork \/ TakeShares
  \/ DropNext

Spec == Init /\ [][Next]_input

==============================================================================
