-------------------------------- MODULE Http --------------------------------
(***************************************************************************)
(* The daemon's HTTP side (crates/daemon/src/main.rs): how a request is    *)
(* read from pieces of a TCP stream, which handler it is routed to and     *)
(* under which condition, and what percent_decode makes of a query.        *)
(* Bytes are symbols; a header line is one symbol between line ends.       *)
(***************************************************************************)
EXTENDS SequencesExt, FiniteSetsExt, Naturals

CONSTANTS
  MaxRequest,   \* MAX_REQUEST
  LengthOf      \* LengthOf[line]: the number on a content-length line, 0 if it is none

CR == "cr"

LF == "lf"

Blank == <<CR, LF, CR, LF>>

Fail == [ok |-> FALSE]

\* find: the position before the first occurrence of Blank.
find(buffer) ==
  LET At == {i \in 0..(Len(buffer) - 4) : SubSeq(buffer, i + 1, i + 4) = Blank}
  IN  IF At = {} THEN Fail ELSE [ok |-> TRUE, at |-> Min(At)]

\* The first content-length line counts; without one, or if it is no number, it is 0.
content_length(headers) ==
  LET At == {i \in DOMAIN headers : headers[i] \in DOMAIN LengthOf}
  IN  IF At = {} THEN 0 ELSE LengthOf[headers[Min(At)]]

\* The bytes of the first k pieces.
Upto(pieces, k) == FlattenSeq(SubSeq(pieces, 1, k))

header_read_last_piece(pieces) ==
  LET Found == {k \in DOMAIN pieces : find(pieces[k]).ok}
      Large == {k \in DOMAIN pieces : Len(Upto(pieces, k)) > MaxRequest}
  IN  IF Found = {} THEN Fail
      ELSE IF \E k \in Large : k <= Min(Found) THEN Fail
      ELSE [ok |-> TRUE, after |-> Min(Found)]

\* The first loop: the number of reads after which the header is complete.  It fails
\* at the end of the stream, and if the buffer has grown too large.
header_read(pieces) ==
  LET Found == {k \in DOMAIN pieces : find(Upto(pieces, k)).ok}
      Large == {k \in DOMAIN pieces : Len(Upto(pieces, k)) > MaxRequest}
  IN  IF Found = {} THEN Fail
      ELSE IF \E k \in Large : k <= Min(Found) THEN Fail
      ELSE [ok |-> TRUE, after |-> Min(Found)]

\* The second loop: reads until the body is long enough or the stream ends.
body_read(pieces, after, start, length) ==
  LET Enough == {k \in after..Len(pieces) : Len(Upto(pieces, k)) - start >= length}
      got == Upto(pieces, IF Enough = {} THEN Len(pieces) ELSE Min(Enough))
  IN  SubSeq(got, start + 1, Min({Len(got), start + length}))

\* read_request, on a stream that delivers these pieces and then ends.
read_request(pieces) ==
  LET h == header_read(pieces)
      buffer == Upto(pieces, h.after)
      start == find(buffer).at + 4
      headers == SubSeq(buffer, 1, start)
  IN  IF ~h.ok THEN Fail
      ELSE [ok |-> TRUE, headers |-> headers,
            body |-> body_read(pieces, h.after, start, content_length(headers))]

-----------------------------------------------------------------------------
(* Routing.  A path is the sequence of its segments. *)

Starts(path, prefix) == Len(path) > Len(prefix) /\ SubSeq(path, 1, Len(prefix)) = prefix

Answer(status) == [status |-> status, handler |-> "none"]

Call(handler) == [status |-> 0, handler |-> handler]

route_with_id(path) ==
  IF Starts(path, <<"api", "drops">>)
  THEN IF Len(path) > 3 /\ Last(path) = "open" THEN Call("api_open_drop") ELSE Call("api_drop_meta")
  ELSE IF Starts(path, <<"api", "log">>) THEN Call("api_verify")
  ELSE Answer(404)

\* The paths with a handler of their own.
Table ==
  {<<"GET", <<>>, "index">>, <<"GET", <<"index.html">>, "index">>,
   <<"GET", <<"api", "id">>, "api_id">>,
   <<"GET", <<"api", "contacts">>, "api_contacts">>,
   <<"POST", <<"api", "contacts">>, "api_add_contact">>,
   <<"GET", <<"api", "drops">>, "api_list_drops">>,
   <<"POST", <<"api", "drops">>, "api_create_drop">>}

handler_of(method, path) ==
  LET Rows == {r \in Table : r[1] = method /\ r[2] = path}
  IN  IF Rows = {} THEN route_with_id(path) ELSE Call((CHOOSE r \in Rows : TRUE)[3])

\* authorized: some authorization header carries the expected token.
authorized(tokens, expected) == expected \in tokens

route_table_first(method, path, tokens, token) ==
  IF method = "OPTIONS" THEN Answer(200)
  ELSE IF \E r \in Table : r[1] = method /\ r[2] = path THEN handler_of(method, path)
  ELSE IF Starts(path, <<"api">>) /\ token # "none" /\ ~authorized(tokens, token) THEN Answer(401)
  ELSE handler_of(method, path)

\* The files a handler may write, through the store operations it calls.
Writes(handler) ==
  CASE handler = "api_add_contact" -> {"contacts.txt"}
    [] handler = "api_create_drop" -> {"drops", "chunks", "entries.bin", "mldsa.txt"}
    [] handler = "api_id" -> {"hybrid.txt"}
    [] handler = "api_verify" -> {"key.txt"}
    [] OTHER -> {}

\* route: preflight first, then the token, then the handlers.
route(method, path, tokens, token) ==
  IF method = "OPTIONS" THEN Answer(200)
  ELSE IF Starts(path, <<"api">>) /\ token # "none" /\ ~authorized(tokens, token) THEN Answer(401)
  ELSE handler_of(method, path)

-----------------------------------------------------------------------------
(* Queries.  A character is a symbol; "wide" takes two bytes. *)

HexDigit == {"0", "1"}

IsWide(c) == c = "wide"

\* The bytes of a text, each with the character it belongs to and its place in it.
BytesOf(text) ==
  FlattenSeq([i \in 1..Len(text) |->
    IF IsWide(text[i]) THEN <<<<"wide", 1>>, <<"wide", 2>>>> ELSE <<<<text[i], 1>>>>])

\* The byte that two characters name, if from_str_radix takes them: a plus sign may
\* stand before the last digit.
Names(x, y) == y \in HexDigit /\ x \in HexDigit \cup {"+"}

Coded(x, y) == <<"byte", IF x = "+" THEN "0" ELSE x, y>>

Panic == [ok |-> FALSE]

\* percent_decode from a byte on.  The two characters after a percent sign are taken as
\* a slice of the text, which panics if it does not begin and end between characters.
RECURSIVE decode_from(_, _)
decode_from(bytes, index) ==
  LET Inside(i) == i < Len(bytes) /\ bytes[i + 1][2] = 2
      more(n, out) ==
        LET rest == decode_from(bytes, index + n)
        IN  IF rest.ok THEN [ok |-> TRUE, out |-> <<out>> \o rest.out] ELSE Panic
      escape == bytes[index + 1][1] = "%" /\ index + 2 < Len(bytes)
  IN  IF index >= Len(bytes) THEN [ok |-> TRUE, out |-> <<>>]
      ELSE IF escape /\ (Inside(index + 1) \/ Inside(index + 3)) THEN Panic
      ELSE IF escape /\ Names(bytes[index + 2][1], bytes[index + 3][1])
      THEN more(3, Coded(bytes[index + 2][1], bytes[index + 3][1]))
      ELSE IF bytes[index + 1][1] = "+" THEN more(1, <<"space", 1>>)
      ELSE more(1, bytes[index + 1])

percent_decode(text) == decode_from(BytesOf(text), 0)

\* str::split: the parts between the separators, empty ones included.
Split(text, separator) ==
  LET at == <<0>> \o SelectSeq([i \in 1..Len(text) |-> i], LAMBDA i : text[i] = separator)
                  \o <<Len(text) + 1>>
  IN  [i \in 1..(Len(at) - 1) |-> SubSeq(text, at[i] + 1, at[i + 1] - 1)]

parse_pair_last(pair) ==
  LET At == {i \in DOMAIN pair : pair[i] = "="}
  IN  IF At = {} THEN <<percent_decode(pair).out, <<>>>>
      ELSE <<percent_decode(SubSeq(pair, 1, Max(At) - 1)).out,
             percent_decode(SubSeq(pair, Max(At) + 1, Len(pair))).out>>

\* A pair is cut at its first equals sign, and both parts are decoded after the cut.  (If
\* percent_decode panics there is no result.)
parse_pair(pair) ==
  LET At == {i \in DOMAIN pair : pair[i] = "="}
  IN  IF At = {} THEN <<percent_decode(pair).out, <<>>>>
      ELSE <<percent_decode(SubSeq(pair, 1, Min(At) - 1)).out,
             percent_decode(SubSeq(pair, Min(At) + 1, Len(pair))).out>>

parse_query(text) ==
  LET pairs == SelectSeq(Split(text, "&"), LAMBDA p : p # <<>>)
  IN  [i \in DOMAIN pairs |-> parse_pair(pairs[i])]

\* split_target: the query starts at the first question mark.
split_target(target) ==
  LET At == {i \in DOMAIN target : target[i] = "?"}
  IN  IF At = {} THEN [path |-> target, query |-> <<>>]
      ELSE [path |-> SubSeq(target, 1, Min(At) - 1),
            query |-> parse_query(SubSeq(target, Min(At) + 1, Len(target)))]

\* query_param: the value of the first pair with this name, or none.
query_param(query, key) ==
  LET At == {i \in DOMAIN query : query[i][1] = key}
  IN  IF At = {} THEN <<>> ELSE <<query[Min(At)][2]>>

=============================================================================
