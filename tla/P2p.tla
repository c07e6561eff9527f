--------------------------------- MODULE P2p ---------------------------------
(***************************************************************************)
(* The libp2p calls of crates/p2p/src/lib.rs against one serving peer.     *)
(* Every call builds a swarm of its own, dials the peer and loops over the *)
(* swarm's events.  The events (external: libp2p) come in any order the    *)
(* library allows: the dial may fail, connections may close and come back, *)
(* and a timeout races the answer.                                         *)
(***************************************************************************)
EXTENDS Net

CONSTANTS
  Cell,      \* the cells of a ring
  target,    \* the one that is really asked for
  Ask,       \* messages a client may send with request
  Payload,   \* what an author may publish: envelopes and other bytes
  Initial,   \* stores the peer may have loaded
  Home,      \* the cell a witness attests
  MaxConns   \* bound: connections established by one request

ASSUME CellAssumption == target \in Cell

ASSUME ConnsAssumption == MaxConns \in Nat

\* A MemoryStore has two maps; load_store puts an envelope under the hash of its bytes.
ASSUME StoreAssumption ==
  \A s \in Initial :
    /\ s = [drops |-> s.drops, chunks |-> s.chunks]
    /\ \A id \in DOMAIN s.drops : DropIdOf(s.drops[id]) = id

VARIABLES
  role,   \* what the peer serves: "drops" or "witness"
  provided,  \* cells it has advertised (start_providing)
  store,  \* the peer's store
  req,    \* a call of request
  pub,    \* a call of gossip_publish
  find,   \* find[c]: the lookup of cell c
  priv    \* the call of find_providers_private that runs the lookups

vars == <<role, provided, store, req, pub, find, priv>>

\* Lookups share no state with the other calls, so no behaviour has both.
Looking == \E c \in DOMAIN find : find[c].pc # "idle"

\* Results of calls.
None == [is |-> "none"]

Err(e) == [is |-> "err", e |-> e]

Ok(v) == [is |-> "ok", v |-> v]

Nothing == [is |-> "nothing"]

------------------------------------------------------------------------------
(* The peer *)

p2p_respond_next_chunk(msg) ==
  CASE msg.kind = "Want" -> get_drop(store, msg.id)
    [] msg.kind = "WantChunk" -> get_chunk(store, msg.id, msg.index + 1)
    [] OTHER -> msg

\* respond: a message that asks for nothing is sent back.
p2p_respond(msg) ==
  CASE msg.kind = "Want" -> get_drop(store, msg.id)
    [] msg.kind = "WantChunk" -> get_chunk(store, msg.id, msg.index)
    [] OTHER -> msg

\* serve_witness_cell: attests presence in its own cell only.
serve_witness_cell(msg) ==
  CASE msg.kind = "Presence" /\ msg.request.cell = Home -> Attestation(msg.request)
    [] msg.kind = "Presence" /\ msg.request.cell # Home -> Bye
    [] OTHER -> msg

\* The peer's answer.
Reply(msg) == IF role = "witness" THEN serve_witness_cell(msg) ELSE p2p_respond(msg)

\* serve_cells, a gossip message: stored if it decodes and verifies.
Gossiped(raw) ==
  store' = IF raw \in Genuine THEN put_drop(store, DropIdOf(raw), raw) ELSE store

------------------------------------------------------------------------------
(* request, and fetch_drop, fetch_chunk and request_presence on top of it *)

\* up: an open connection; last: number of the request waited for; out: requests not
\* yet answered; answers: responses on their way; had: the peer held what is wanted
\* when the call began.
NoRequest == [on |-> FALSE, result |-> None]

Running(r) == r.on /\ r.result = None

Held(msg) ==
  /\ role = "drops"
  /\ CASE msg.kind = "Want" -> get_drop(store, msg.id).kind = "Drop"
       [] msg.kind = "WantChunk" -> get_chunk(store, msg.id, msg.index).kind = "Chunk"
       [] OTHER -> FALSE

Dial(msg) ==
  /\ ~req.on /\ ~Looking
  /\ req' = [on |-> TRUE, result |-> None, msg |-> msg, up |-> FALSE, last |-> 0,
             out |-> {}, answers |-> {}, had |-> Held(msg)]
  /\ UNCHANGED <<role, provided, store, pub, find, priv>>

\* fetch_drop and fetch_chunk: what the caller makes of a response.
Taken(msg, reply) ==
  CASE msg.kind = "Want" /\ reply.kind = "Drop" -> Ok(reply.raw)
    [] msg.kind = "WantChunk" /\ reply.kind = "Chunk" -> Ok(reply.data)
    [] reply.kind = "Missing" -> Nothing
    [] OTHER -> Err("Protocol")

request_presence(reply) == IF reply.kind = "Attestation" THEN Ok(reply.att) ELSE Nothing

\* ConnectionEstablished: the request is sent, again if it had been sent before.
Established ==
  /\ Running(req) /\ ~req.up /\ req.last < MaxConns
  /\ req' = [req EXCEPT !.up = TRUE, !.last = @ + 1, !.out = @ \cup {req.last + 1}]
  /\ UNCHANGED <<role, provided, store, pub, find, priv>>

\* The peer handles request r and its response is on the way.
Answered(r) ==
  /\ Running(req) /\ req.up
  /\ r \in req.out
  /\ req' = [req EXCEPT !.out = @ \ {r}, !.answers = @ \cup {<<r, Reply(req.msg)>>}]
  /\ UNCHANGED <<role, provided, store, pub, find, priv>>

\* A response arrives; only one to the last request is taken.
Response(a) ==
  /\ Running(req)
  /\ a \in req.answers
  /\ req' = [req EXCEPT !.answers = @ \ {a},
                        !.result = IF a[1] # req.last THEN None
                                   ELSE IF req.msg.kind = "Presence" THEN request_presence(a[2])
                                   ELSE Taken(req.msg, a[2])]
  /\ UNCHANGED <<role, provided, store, pub, find, priv>>

\* The connection closes: what is not answered yet fails, and the loop ignores it.
Closed ==
  /\ Running(req) /\ req.up
  /\ req' = [req EXCEPT !.up = FALSE, !.out = {}]
  /\ UNCHANGED <<role, provided, store, pub, find, priv>>

\* OutgoingConnectionError
DialFailed ==
  /\ Running(req) /\ ~req.up
  /\ req' = [req EXCEPT !.result = Err("Connection")]
  /\ UNCHANGED <<role, provided, store, pub, find, priv>>

RequestTimeout_dial_only ==
  /\ Running(req) /\ ~req.up
  /\ req' = [req EXCEPT !.result = Err("Timeout")]
  /\ UNCHANGED <<role, provided, store, pub, find, priv>>

\* 20 seconds have passed.
RequestTimeout ==
  /\ Running(req)
  /\ req' = [req EXCEPT !.result = Err("Timeout")]
  /\ UNCHANGED <<role, provided, store, pub, find, priv>>

------------------------------------------------------------------------------
(* gossip_publish *)

NoPublish == [pc |-> "idle", result |-> None]

Publish(raw) ==
  /\ pub.pc = "idle" /\ ~Looking
  /\ pub' = [pc |-> "dial", result |-> None, raw |-> raw, down |-> FALSE]
  /\ UNCHANGED <<role, provided, store, req, find, priv>>

\* The loop waits for ConnectionEstablished and for nothing else.
PubEstablished ==
  /\ pub.pc = "dial" /\ ~pub.down
  /\ pub' = [pub EXCEPT !.pc = "settle"]
  /\ UNCHANGED <<role, provided, store, req, find, priv>>

\* The dial has failed: an event the loop ignores.
PubDialFailed ==
  /\ pub.pc = "dial" /\ ~pub.down
  /\ pub' = [pub EXCEPT !.down = TRUE]
  /\ UNCHANGED <<role, provided, store, req, find, priv>>

\* The first settle has timed out.  publish fails if no subscribed peer is known yet.
PubSend ==
  /\ pub.pc = "settle"
  /\ pub' \in {[pub EXCEPT !.pc = "sent"], [pub EXCEPT !.pc = "done", !.result = Err("Transport")]}
  /\ UNCHANGED <<role, provided, store, req, find, priv>>

\* While the second settle runs the message reaches the peer.
PubDelivered ==
  /\ pub.pc = "sent"
  /\ Gossiped(pub.raw)
  /\ pub' = [pub EXCEPT !.pc = "delivered"]
  /\ UNCHANGED <<role, provided, req, find, priv>>

\* The second settle has timed out.
PubDone ==
  /\ pub.pc \in {"sent", "delivered"}
  /\ pub' = [pub EXCEPT !.pc = "done", !.result = Ok("published")]
  /\ UNCHANGED <<role, provided, store, req, find, priv>>

------------------------------------------------------------------------------
(* find_providers, one for each cell of find_providers_private *)

NoFind == [pc |-> "idle", providers |-> FALSE, is_target |-> FALSE]

\* All lookups are started together; each dials with a swarm of its own.  The caller's
\* text is parsed for the ring, but compared as text with how the cells are written:
\* spelled in another way (capital digits), it is the text of none of them.
FindPrivate ==
  /\ ~Looking /\ ~req.on /\ pub.pc = "idle"
  /\ \E spelled \in BOOLEAN :
       find' = [c \in Cell |->
         [pc |-> "dial", providers |-> FALSE, is_target |-> spelled /\ c = target]]
  /\ UNCHANGED <<role, provided, store, req, pub, priv>>

FindStep(c, from, to) ==
  /\ priv = None
  /\ find[c].pc = from
  /\ find' = [find EXCEPT ![c].pc = to]
  /\ UNCHANGED <<role, provided, store, req, pub, priv>>

\* Identify has been received from the peer: get_providers is sent, once.
Identified(c) == FindStep(c, "dial", "queried")

\* The query has found somebody; a result without providers is ignored.
Found(c) ==
  /\ priv = None
  /\ find[c].pc = "queried"
  /\ c \in provided
  /\ find' = [find EXCEPT ![c].pc = "done", ![c].providers = TRUE]
  /\ UNCHANGED <<role, provided, store, req, pub, priv>>

\* 15 seconds have passed, without an answer or without a connection: no providers.
FindTimeout(c) == FindStep(c, "dial", "done") \/ FindStep(c, "queried", "done")

\* pending.next(): the answer for the target ends the call, and drops the lookups that
\* still run; any other answer is put aside, and after the last one there are no
\* providers.
Collect(c) ==
  /\ priv = None
  /\ find[c].pc = "done"
  /\ \/ find[c].is_target /\ priv' = Ok(find[c].providers) /\ UNCHANGED find
     \/ /\ ~find[c].is_target
        /\ find' = [find EXCEPT ![c].pc = "taken"]
        /\ priv' = IF \A k \in Cell \ {c} : find[k].pc = "taken" THEN Ok(FALSE) ELSE None
  /\ UNCHANGED <<role, provided, store, req, pub>>

------------------------------------------------------------------------------
Init ==
  /\ role \in {"drops", "witness"}
  /\ provided \in SUBSET Cell
  /\ store \in Initial
  /\ req = NoRequest
  /\ pub = NoPublish
  /\ find = [c \in Cell |-> NoFind]
  /\ priv = None

RequestNext ==
  \/ Established \/ Closed \/ DialFailed \/ RequestTimeout
  \/ \E r \in 1..MaxConns : Answered(r)
  \/ req.on /\ \E a \in req.answers : Response(a)

PublishNext ==
  \/ \E raw \in Payload : Publish(raw)
  \/ PubEstablished \/ PubDialFailed \/ PubSend \/ PubDelivered \/ PubDone

FindNext ==
  \/ FindPrivate
  \/ \E c \in Cell : Identified(c) \/ Found(c) \/ FindTimeout(c) \/ Collect(c)

Next ==
  \/ \E m \in Ask : Dial(m)
  \/ RequestNext
  \/ PublishNext
  \/ FindNext

\* Timers fire, a finished lookup is collected, and a dial has an outcome, be it a
\* failure.  That a connection comes up or an answer arrives is not assumed.
Fairness ==
  /\ WF_vars(RequestTimeout)
  /\ WF_vars(PubEstablished \/ PubDialFailed)
  /\ WF_vars(PubSend) /\ WF_vars(PubDone)
  /\ \A c \in Cell : WF_vars(FindTimeout(c)) /\ WF_vars(Collect(c))

Spec == Init /\ [][Next]_vars /\ Fairness

------------------------------------------------------------------------------
\* Calls and the peer's store keep their types.
TypeOK ==
  /\ role \in {"drops", "witness"} /\ provided \subseteq Cell
  /\ req.result.is \in {"none", "ok", "nothing", "err"}
  /\ req.on => req.last \in 0..MaxConns /\ req.out \subseteq 1..req.last
  /\ pub.pc \in {"idle", "dial", "settle", "sent", "delivered", "done"}
  /\ \A c \in Cell : find[c].pc \in {"idle", "dial", "queried", "done", "taken"}
  /\ priv.is \in {"none", "ok"}

\* A fetch that succeeds has the bytes of the drop it asked for, whatever gossip
\* brought into the peer's store in the meantime.
FetchedIsAsked ==
  req.on /\ req.msg.kind = "Want" /\ req.result.is = "ok" =>
    DropIdOf(req.result.v) = req.msg.id

\* A drop or chunk the peer held when the call began is never reported missing, with
\* whatever resending, reconnecting and late answers.
HeldIsFound == req.on /\ req.had => req.result # Nothing

\* An attestation that comes back is for the very request, and the request is for the
\* witness's own cell.
AttestedAtHome ==
  req.on /\ req.msg.kind = "Presence" /\ req.result.is = "ok" =>
    role = "witness" /\ req.result.v = req.msg.request /\ req.msg.request.cell = Home

\* The private lookup answers for the target: providers are reported only if the
\* target cell is provided, not when some decoy is.
PrivateIsAboutTarget == priv = Ok(TRUE) => target \in provided

\* What holds of every call: its type, and a result that answers what was asked.
CallInv == TypeOK /\ FetchedIsAsked /\ HeldIsFound /\ AttestedAtHome /\ PrivateIsAboutTarget

\* request always returns: an answer, a connection error or the timeout.
RequestEnds == Running(req) ~> ~Running(req)

\* find_providers_private always returns, also when no lookup is ever answered.
PrivateEnds == Looking ~> priv # None

\* Once connected, gossip_publish returns: both settles are bounded.
ConnectedPublishEnds == pub.pc = "settle" ~> pub.pc = "done"

\* Every call that has a timeout ends, whatever becomes of its connections.
CallsEnd == RequestEnds /\ PrivateEnds /\ ConnectedPublishEnds

\* What gossip_publish's doc says: it returns, with an error if the dial fails.
PublishEnds == pub.pc = "dial" ~> pub.pc = "done"

==============================================================================
