-------------------------------- MODULE Cbor --------------------------------
(***************************************************************************)
(* The CBOR subset of crates/core/src/cbor.rs.  Encoder and Decoder are    *)
(* byte exact, over a byte that may be smaller than 256: the constants     *)
(* give the parts of a head byte and the widths of its argument.           *)
(* A structure is a list of fields, each with what its decoder accepts.    *)
(***************************************************************************)
EXTENDS SequencesExt, FiniteSetsExt, Naturals

CONSTANTS
  Majors,     \* major types a head byte can name: 8 in the code
  Immediate,  \* values that fit into the head byte itself: 24
  Widths,     \* bytes an argument can take: <<1, 2, 4, 8>>
  Reserved    \* codes of the head byte that no width uses: 4

ASSUME HeadAssumption ==
  /\ Majors > 4 /\ Immediate \in Nat \ {0} /\ Reserved \in Nat
  /\ \A w \in 2..Len(Widths) : Widths[w - 1] < Widths[w]

Infos == Immediate + Len(Widths) + Reserved

Base == Majors * Infos

Byte == 0..(Base - 1)

MAJOR_UINT == 0

MAJOR_BYTES == 2

MAJOR_TEXT == 3

MAJOR_ARRAY == 4

\* Values below Limit(w) fit into the w-th width; none, that is the head, is width 0.
Limit(w) == IF w = 0 THEN Immediate ELSE Base ^ Widths[w]

\* to_be_bytes and from_be_bytes
ToBytes(v, n) == [i \in 1..n |-> (v \div Base ^ (n - i)) % Base]

FromBytes(b) == FoldLeft(LAMBDA acc, x : acc * Base + x, 0, b)

\* Encoder::head: the shortest form that holds the value.
head(major, value) ==
  LET w == Min({x \in 0..Len(Widths) : value < Limit(x)})
  IN  IF w = 0 THEN <<major * Infos + value>>
      ELSE <<major * Infos + Immediate + w - 1>> \o ToBytes(value, Widths[w])

\* What a decoding step returns: a value and the position after it, or an error.
Fail == [ok |-> FALSE]

Done(v, pos) == [ok |-> TRUE, v |-> v, pos |-> pos]

\* The ? of the code: an error is returned, a result is used.
AndThen(r, Use(_)) == IF r.ok THEN Use(r) ELSE Fail

Check(r, good) == IF good THEN r ELSE Fail

read_wide_lax(b, pos, major, w) ==
  IF pos + Widths[w] > Len(b) THEN Fail
  ELSE Done(<<major, FromBytes(SubSeq(b, pos + 1, pos + Widths[w]))>>, pos + Widths[w])

\* The argument in the w-th width; one that a shorter form could hold is an error.
read_wide(b, pos, major, w) ==
  IF pos + Widths[w] > Len(b) THEN Fail
  ELSE AndThen(Done(<<major, FromBytes(SubSeq(b, pos + 1, pos + Widths[w]))>>, pos + Widths[w]),
               LAMBDA h : Check(h, h.v[2] >= Limit(w - 1)))

\* The argument that info announces; a reserved code is an error.
read_argument(b, pos, major, info) ==
  IF info < Immediate THEN Done(<<major, info>>, pos)
  ELSE IF info - Immediate >= Len(Widths) THEN Fail
  ELSE read_wide(b, pos, major, info - Immediate + 1)

\* Decoder::read_head: major type and argument.
read_head(b, pos) ==
  IF pos >= Len(b) THEN Fail
  ELSE read_argument(b, pos + 1, b[pos + 1] \div Infos, b[pos + 1] % Infos)

expect(b, pos, major) ==
  AndThen(read_head(b, pos), LAMBDA h : Check(Done(h.v[2], h.pos), h.v[1] = major))

\* Decoder::read_exact after a length.
read_exact(b, len) ==
  AndThen(len, LAMBDA n :
    IF n.pos + n.v > Len(b) THEN Fail ELSE Done(SubSeq(b, n.pos + 1, n.pos + n.v), n.pos + n.v))

-----------------------------------------------------------------------------
(* Fields *)

\* An unsigned integer below a limit (u8::try_from and u32::try_from).
Uint(limit) == [as |-> "uint", limit |-> limit]

U8 == Uint(Limit(1))

U32 == Uint(Limit(Len(Widths) - 1))

U64 == Uint(Limit(Len(Widths)))

\* bytes_fixed, bytes and text.
Fixed(n) == [as |-> "fixed", len |-> n]

AnyBytes == [as |-> "bytes"]

Text == [as |-> "text"]

\* from_utf8.  One-byte characters only: the texts are hexadecimal cells.
Utf8(s) == \A i \in DOMAIN s : s[i] < Base \div 2

MajorOf(f) ==
  CASE f.as = "uint" -> MAJOR_UINT
    [] f.as \in {"fixed", "bytes"} -> MAJOR_BYTES
    [] f.as = "text" -> MAJOR_TEXT

write_field(f, v) ==
  IF f.as = "uint" THEN head(MajorOf(f), v) ELSE head(MajorOf(f), Len(v)) \o v

\* What the decoder of a field accepts.
Fits(f, v) ==
  CASE f.as = "uint" -> v < f.limit
    [] f.as = "fixed" -> Len(v) = f.len
    [] f.as = "bytes" -> TRUE
    [] f.as = "text" -> Utf8(v)

read_field(f, b, pos) ==
  AndThen(AndThen(expect(b, pos, MajorOf(f)), LAMBDA n : IF f.as = "uint" THEN n ELSE read_exact(b, n)),
          LAMBDA x : Check(x, Fits(f, x.v)))

\* The fields of an array, without and with its head.
write_fields(fs, vs) == FlattenSeq([i \in 1..Len(fs) |-> write_field(fs[i], vs[i])])

write_array(n, fs, vs) == head(MAJOR_ARRAY, n) \o write_fields(fs, vs)

\* One more result of a loop.
Add(r, x) == AndThen(x, LAMBDA y : Done(Append(r.v, y.v), y.pos))

read_fields(fs, b, pos) ==
  FoldLeft(LAMBDA acc, f : AndThen(acc, LAMBDA r : Add(r, read_field(f, b, r.pos))), Done(<<>>, pos), fs)

read_array(n, fs, b, pos) ==
  AndThen(expect(b, pos, MAJOR_ARRAY), LAMBDA count :
    IF count.v = n THEN read_fields(fs, b, count.pos) ELSE Fail)

\* Decoder::finish: nothing is left over.
finish(result, b) == AndThen(result, LAMBDA r : Check(r, r.pos = Len(b)))

=============================================================================
