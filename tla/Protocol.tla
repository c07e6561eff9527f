------------------------------ MODULE Protocol ------------------------------
(***************************************************************************)
(* Messages as bytes (crates/node/src/protocol.rs), and the two ways they  *)
(* travel: as frames on a TCP stream that carries many of them (send and   *)
(* recv, crates/node/src/net.rs), and alone on a substream that is closed  *)
(* after one (read_message, crates/p2p/src/lib.rs).                        *)
(***************************************************************************)
EXTENDS Cbor

CONSTANTS
  KeyLen,     \* an id: 32 bytes in the code
  IndexLen,   \* a chunk index: 4
  HeaderLen,  \* a frame's length: 4
  MaxFrame    \* MAX_FRAME

\* The tags TAG_HELLO (0) to TAG_STH (13).
Tags == <<"Hello", "Want", "Drop", "Missing", "Bye", "WantChunk", "Chunk", "Presence",
          "Attestation", "Put", "Stored", "PutChunk", "GetSth", "Sth">>

TagOf(kind) == (CHOOSE i \in DOMAIN Tags : Tags[i] = kind) - 1

\* Message: its kind, and the id, index and data it carries; those it has not are empty.
Message(kind, id, index, data) == [kind |-> kind, id |-> id, index |-> index, data |-> data]

Named == {"Want", "Missing", "Stored"}

Indexed == {"WantChunk", "Chunk", "PutChunk"}

Bare == {"Bye", "GetSth"}

payload_of(m) ==
  IF m.kind \in Indexed THEN m.id \o ToBytes(m.index, IndexLen) \o m.data
  ELSE IF m.kind \in Named THEN m.id
  ELSE m.data

\* Message::encode
encode_payload(kind, payload) == write_array(2, <<U64, AnyBytes>>, <<TagOf(kind), payload>>)

encode(m) == encode_payload(m.kind, payload_of(m))

\* id_index_from, and the data behind it.  WantChunk ignores what follows the index.
chunk_message(kind, payload) ==
  LET at == KeyLen + IndexLen
  IN  IF Len(payload) < at THEN Fail
      ELSE Done(Message(kind, SubSeq(payload, 1, KeyLen),
                        FromBytes(SubSeq(payload, KeyLen + 1, at)),
                        IF kind = "WantChunk" THEN <<>> ELSE SubSeq(payload, at + 1, Len(payload))), 0)

\* The message of a tag and a payload.
from_payload(kind, payload) ==
  IF kind = "Hello"
  THEN IF payload = <<>> THEN Fail ELSE Done(Message(kind, <<>>, 0, <<payload[1]>>), 0)
  ELSE IF kind \in Bare THEN Done(Message(kind, <<>>, 0, <<>>), 0)
  ELSE IF kind \in Named
  THEN IF Len(payload) # KeyLen THEN Fail ELSE Done(Message(kind, payload, 0, <<>>), 0)
  ELSE IF kind \in Indexed THEN chunk_message(kind, payload)
  ELSE Done(Message(kind, <<>>, 0, payload), 0)

\* Message::decode
decode(b) ==
  AndThen(finish(read_array(2, <<U64, AnyBytes>>, b, 0), b), LAMBDA r :
    IF r.v[1] >= Len(Tags) THEN Fail ELSE from_payload(Tags[r.v[1] + 1], r.v[2]))

-----------------------------------------------------------------------------
(* Frames *)

\* frame, and send: nothing is sent if the message is too large.
frame(m) ==
  LET b == encode(m) IN IF Len(b) > MaxFrame THEN <<>> ELSE ToBytes(Len(b), HeaderLen) \o b

\* What recv returns: a message, the end, or an error.
Got(m, pos) == [is |-> "message", m |-> m, pos |-> pos]

End == [is |-> "end"]

Broken == [is |-> "error"]

\* A decoded message and the position after its frame.
Received(r, pos) == IF r.ok THEN Got(r.v, pos) ELSE Broken

frame_body_partial(b, at, len) ==
  IF len > MaxFrame THEN Broken
  ELSE IF at + len > Len(b) THEN End
  ELSE Received(decode(SubSeq(b, at + 1, at + len)), at + len)

\* recv after the length: an end inside the body is an error.
frame_body(b, at, len) ==
  IF len > MaxFrame THEN Broken
  ELSE IF at + len > Len(b) THEN Broken
  ELSE Received(decode(SubSeq(b, at + 1, at + len)), at + len)

\* recv, on a stream that has carried b and ended.  An end inside the length counts as
\* an end between frames.
recv(b, pos) ==
  IF pos + HeaderLen > Len(b) THEN End
  ELSE frame_body(b, pos + HeaderLen, FromBytes(SubSeq(b, pos + 1, pos + HeaderLen)))

\* A server's loop: the messages received, and how it ended.
RECURSIVE recv_from(_, _, _)
recv_from(b, r, messages) ==
  IF r.is = "message" THEN recv_from(b, recv(b, r.pos), Append(messages, r.m))
  ELSE [messages |-> messages, end |-> r.is]

recv_all(b, pos) == recv_from(b, recv(b, pos), <<>>)

\* read_message, on a substream that has carried b and was closed or lost.
read_message(b) == IF Len(b) > MaxFrame THEN Fail ELSE decode(b)

=============================================================================
