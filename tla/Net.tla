--------------------------------- MODULE Net ---------------------------------
(***************************************************************************)
(* The TCP exchange of crates/node: what each kind of server answers to a  *)
(* message, and what each client call makes of the answer.  A server loops *)
(* over one connection's messages; a client call opens a connection, says  *)
(* Hello, asks one thing and reads one answer.                             *)
(***************************************************************************)
EXTENDS Sequences, Integers

CONSTANTS
  Genuine  \* the envelopes that decode and whose signatures verify

\* Message: a record with its kind and what it carries.
Hello == [kind |-> "Hello"]

Bye == [kind |-> "Bye"]

GetSth == [kind |-> "GetSth"]

Want(id) == [kind |-> "Want", id |-> id]

WantChunk(id, index) == [kind |-> "WantChunk", id |-> id, index |-> index]

Drop(raw) == [kind |-> "Drop", raw |-> raw]

Missing(id) == [kind |-> "Missing", id |-> id]

Chunk(id, index, data) == [kind |-> "Chunk", id |-> id, index |-> index, data |-> data]

Put(raw) == [kind |-> "Put", raw |-> raw]

PutChunk(id, index, data) == [kind |-> "PutChunk", id |-> id, index |-> index, data |-> data]

Stored(id) == [kind |-> "Stored", id |-> id]

Sth(head) == [kind |-> "Sth", head |-> head]

Presence(request) == [kind |-> "Presence", request |-> request]

Attestation(att) == [kind |-> "Attestation", att |-> att]

\* An envelope is named by the drop whose exact bytes it is, any other bytes by
\* themselves; DropId::of is injective.
DropIdOf(raw) == raw

\* MemoryStore
EmptyStore == [drops |-> <<>>, chunks |-> <<>>]

Insert(f, k, v) == [x \in DOMAIN f \cup {k} |-> IF x = k THEN v ELSE f[x]]

put_drop(store, id, raw) == [store EXCEPT !.drops = Insert(@, id, raw)]

put_chunk(store, id, index, data) == [store EXCEPT !.chunks = Insert(@, <<id, index>>, data)]

get_drop(store, id) == IF id \in DOMAIN store.drops THEN Drop(store.drops[id]) ELSE Missing(id)

get_chunk(store, id, index) ==
  IF <<id, index>> \in DOMAIN store.chunks
  THEN Chunk(id, index, store.chunks[<<id, index>>]) ELSE Missing(id)

\* One turn of a server's loop: the store after it, the answer, and whether the
\* connection stays open.
Turn(store, reply, open) == [store |-> store, reply |-> reply, open |-> open]

respond_drops_chunk(store, msg) ==
  CASE msg.kind = "Hello" -> Turn(store, Hello, TRUE)
    [] msg.kind = "Want" -> Turn(store, get_drop(store, msg.id), TRUE)
    [] msg.kind = "WantChunk" -> Turn(store, get_chunk(store, msg.id, msg.index), TRUE)
    [] msg.kind = "Put" -> Turn(put_drop(store, DropIdOf(msg.raw), msg.raw), Stored(msg.raw), TRUE)
    [] msg.kind = "PutChunk" -> Turn(store, Stored(msg.id), TRUE)
    [] OTHER -> Turn(store, Bye, FALSE)

\* respond: the storage server.  An envelope that does not decode or verify is
\* answered with Bye, and the connection stays open.
respond(store, msg) ==
  CASE msg.kind = "Hello" -> Turn(store, Hello, TRUE)
    [] msg.kind = "Want" -> Turn(store, get_drop(store, msg.id), TRUE)
    [] msg.kind = "WantChunk" -> Turn(store, get_chunk(store, msg.id, msg.index), TRUE)
    [] msg.kind = "Put" /\ msg.raw \in Genuine ->
         Turn(put_drop(store, DropIdOf(msg.raw), msg.raw), Stored(DropIdOf(msg.raw)), TRUE)
    [] msg.kind = "Put" /\ msg.raw \notin Genuine -> Turn(store, Bye, TRUE)
    [] msg.kind = "PutChunk" ->
         Turn(put_chunk(store, msg.id, msg.index, msg.data), Stored(msg.id), TRUE)
    [] OTHER -> Turn(store, Bye, FALSE)

\* sth_respond: the server of one signed tree head.
sth_respond(head, msg) ==
  CASE msg.kind = "Hello" -> Turn(head, Hello, TRUE)
    [] msg.kind = "GetSth" -> Turn(head, Sth(head), TRUE)
    [] OTHER -> Turn(head, Bye, FALSE)

==============================================================================
