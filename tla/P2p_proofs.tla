----------------------------- MODULE P2p_proofs -----------------------------
(***************************************************************************)
(* The calls of crates/p2p, for any messages, payloads, cells and number   *)
(* of reconnections: what a call returns answers what it asked.            *)
(***************************************************************************)
EXTENDS P2p, TLAPS

\* The record of a lookup.
Lookup ==
  [pc : {"idle", "dial", "queried", "done", "taken"}, providers : BOOLEAN, is_target : BOOLEAN]

\* A store keeps every envelope under its own id.
IsStore(s) ==
  /\ s = [drops |-> s.drops, chunks |-> s.chunks]
  /\ \A id \in DOMAIN s.drops : DropIdOf(s.drops[id]) = id

\* The peer, and the records of the calls other than request, have their types.
Shape ==
  /\ role \in {"drops", "witness"} /\ provided \subseteq Cell
  /\ IsStore(store)
  /\ \/ pub = NoPublish
     \/ pub = [pc |-> pub.pc, result |-> pub.result, raw |-> pub.raw, down |-> pub.down]
  /\ pub.pc \in {"idle", "dial", "settle", "sent", "delivered", "done"}
  /\ find \in [Cell -> Lookup]
  /\ priv \in {None, Ok(TRUE), Ok(FALSE)}

\* A reply that carries what msg wants.
Carries(reply, msg) ==
  \/ msg.kind = "Want" /\ reply.kind = "Drop"
  \/ msg.kind = "WantChunk" /\ reply.kind = "Chunk"

\* A reply is about its request: an attestation attests that request, in the witness's
\* cell, and an envelope is the one of the wanted drop.
IsAbout(reply, msg) ==
  /\ msg.kind = "Presence" /\ reply.kind = "Attestation" =>
       role = "witness" /\ reply.att = msg.request /\ msg.request.cell = Home
  /\ msg.kind = "Want" /\ reply.kind = "Drop" => DropIdOf(reply.raw) = msg.id

\* What the peer held it still holds, so it was in every answer, also the late ones.
AnswersInv ==
  req.on =>
    /\ req.had => Held(req.msg)
    /\ \A a \in req.answers : (req.had => Carries(a[2], req.msg)) /\ IsAbout(a[2], req.msg)

\* Only a lookup of a provided cell has found providers, and only the target's is taken
\* for the target's.
FindInv ==
  \A c \in Cell : (find[c].providers => c \in provided) /\ (find[c].is_target => c = target)

\* A call of request, and what it has made of the answers.
RequestInv ==
  /\ req.on => /\ req = [on |-> TRUE, result |-> req.result, msg |-> req.msg, up |-> req.up,
                         last |-> req.last, out |-> req.out, answers |-> req.answers,
                         had |-> req.had]
               /\ req.last \in 0..MaxConns /\ req.out \subseteq 1..req.last
  /\ req.result.is \in {"none", "ok", "nothing", "err"}
  /\ AnswersInv /\ FetchedIsAsked /\ HeldIsFound /\ AttestedAtHome

\* The inductive invariant.
IInv == Shape /\ RequestInv /\ FindInv /\ PrivateIsAboutTarget

-----------------------------------------------------------------------------
(* What the peer answers *)

\* The peer answers with what it holds, and with the drop that was wanted; a witness
\* attests what was asked, and only in its own cell.
LEMMA ReplyCarries ==
  ASSUME Shape, NEW msg
  PROVE  /\ Held(msg) => Carries(Reply(msg), msg)
         /\ IsAbout(Reply(msg), msg)
<1>1. role = "drops" \/ role = "witness"
  BY DEF Shape
<1>2. Held(msg) => Carries(Reply(msg), msg)
  <2> SUFFICES ASSUME Held(msg) PROVE Carries(Reply(msg), msg)
    OBVIOUS
  <2>1. role = "drops" /\ (msg.kind = "Want" \/ msg.kind = "WantChunk")
    BY DEF Held
  <2>2. Reply(msg) = p2p_respond(msg)
    BY <2>1 DEF Reply
  <2> QED
    BY <2>1, <2>2 DEF Held, Carries, p2p_respond
<1>3. ASSUME msg.kind = "Presence", Reply(msg).kind = "Attestation"
      PROVE  role = "witness" /\ Reply(msg).att = msg.request /\ msg.request.cell = Home
  <2>1. CASE role = "drops"
    BY <1>3, <2>1 DEF Reply, p2p_respond
  <2>2. CASE role = "witness" /\ msg.request.cell = Home
    BY <1>3, <2>2 DEF Reply, serve_witness_cell, Attestation
  <2>3. CASE role = "witness" /\ msg.request.cell # Home
    BY <1>3, <2>3 DEF Reply, serve_witness_cell, Bye
  <2> QED
    BY <1>1, <2>1, <2>2, <2>3
<1>4. ASSUME msg.kind = "Want", Reply(msg).kind = "Drop"
      PROVE  DropIdOf(Reply(msg).raw) = msg.id
  <2>1. CASE role = "drops"
    <3>1. Reply(msg) = get_drop(store, msg.id)
      BY <1>4, <2>1 DEF Reply, p2p_respond
    <3>2. msg.id \in DOMAIN store.drops /\ Reply(msg).raw = store.drops[msg.id]
      BY <1>4, <3>1 DEF get_drop, Drop, Missing
    <3> QED
      BY Zenon, <3>2 DEF Shape, IsStore
  <2>2. CASE role = "witness"
    BY <1>4, <2>2 DEF Reply, serve_witness_cell
  <2> QED
    BY <1>1, <2>1, <2>2
<1> QED
  BY <1>2, <1>3, <1>4 DEF IsAbout

\* Gossip takes nothing out of the store.
LEMMA GossipKeeps ==
  ASSUME Shape, NEW raw, Gossiped(raw), NEW msg, UNCHANGED role, Held(msg)
  PROVE  Held(msg)'
<1>1. store.chunks = store'.chunks /\ DOMAIN store.drops \subseteq DOMAIN store'.drops
  <2>1. CASE raw \notin Genuine
    BY <2>1 DEF Gossiped
  <2>2. CASE raw \in Genuine
    <3>1. store' = [store EXCEPT !.drops = Insert(store.drops, DropIdOf(raw), raw)]
      BY <2>2 DEF Gossiped, put_drop
    <3>2. store'.drops = Insert(store.drops, DropIdOf(raw), raw) /\ store'.chunks = store.chunks
      BY <3>1 DEF Shape, IsStore
    <3> QED
      BY <3>2 DEF Insert
  <2> QED
    BY <2>1, <2>2
<1>2. CASE msg.kind = "Want"
  <2>1. role = "drops" /\ msg.id \in DOMAIN store.drops
    BY <1>2 DEF Held, get_drop, Missing
  <2>2. role' = "drops" /\ msg.id \in DOMAIN store'.drops
    BY <1>1, <2>1
  <2> QED
    BY <1>2, <2>2 DEF Held, get_drop, Drop
<1>3. CASE msg.kind = "WantChunk"
  <2>1. role = "drops" /\ get_chunk(store, msg.id, msg.index).kind = "Chunk"
    BY <1>3 DEF Held
  <2>2. get_chunk(store', msg.id, msg.index) = get_chunk(store, msg.id, msg.index)
    BY <1>1 DEF get_chunk
  <2> QED
    BY <1>3, <2>1, <2>2 DEF Held
<1> QED
  BY <1>2, <1>3 DEF Held

-----------------------------------------------------------------------------
(* Steps *)

\* The outcome of a call that is taken from a reply.
Outcome(reply) ==
  IF req.msg.kind = "Presence" THEN request_presence(reply) ELSE Taken(req.msg, reply)

\* What the caller makes of such a reply answers what it asked.
LEMMA OutcomeAnswers ==
  ASSUME NEW reply, IsAbout(reply, req.msg), NEW had, had => Carries(reply, req.msg)
  PROVE  /\ Outcome(reply).is \in {"ok", "nothing", "err"}
         /\ had => Outcome(reply) # Nothing
         /\ req.msg.kind = "Presence" /\ Outcome(reply).is = "ok" =>
              /\ role = "witness" /\ Outcome(reply).v = req.msg.request
              /\ req.msg.request.cell = Home
         /\ req.msg.kind = "Want" /\ Outcome(reply).is = "ok" =>
              DropIdOf(Outcome(reply).v) = req.msg.id
<1>1. CASE req.msg.kind = "Presence"
  <2>1. Outcome(reply) = IF reply.kind = "Attestation" THEN Ok(reply.att) ELSE Nothing
    BY <1>1 DEF Outcome, request_presence
  <2>2. ~had
    BY <1>1 DEF Carries
  <2>3. CASE reply.kind = "Attestation"
    <3>1. Outcome(reply) = [is |-> "ok", v |-> reply.att]
      BY <2>1, <2>3 DEF Ok
    <3> QED
      BY <1>1, <2>2, <2>3, <3>1 DEF IsAbout
  <2>4. CASE reply.kind # "Attestation"
    BY <2>1, <2>2, <2>4 DEF Nothing
  <2> QED
    BY <2>3, <2>4
<1>2. CASE req.msg.kind # "Presence"
  <2>1. Outcome(reply) = Taken(req.msg, reply)
    BY <1>2 DEF Outcome
  <2>2. had => Outcome(reply).is = "ok"
    BY <2>1 DEF Taken, Carries, Ok
  <2>3. Outcome(reply).is \in {"ok", "nothing", "err"}
    BY <2>1 DEF Taken, Ok, Nothing, Err
  <2>4. ASSUME req.msg.kind = "Want", Outcome(reply).is = "ok"
        PROVE  DropIdOf(Outcome(reply).v) = req.msg.id
    <3>1. reply.kind = "Drop" /\ Outcome(reply).v = reply.raw
      BY <2>1, <2>4 DEF Taken, Ok, Nothing, Err
    <3> QED
      BY Zenon, <2>4, <3>1 DEF IsAbout
  <2> QED
    BY <1>2, <2>2, <2>3, <2>4 DEF Nothing
<1> QED
  BY <1>1, <1>2

\* The running request goes on with new answers, or ends with a result.
Continues(answers, result) ==
  /\ UNCHANGED <<role, store>>
  /\ req' = [on |-> TRUE, result |-> result, msg |-> req.msg, up |-> req'.up, last |-> req'.last,
             out |-> req'.out, answers |-> answers, had |-> req.had]
  /\ req'.last \in 0..MaxConns /\ req'.out \subseteq 1..req'.last

\* Every reply under way answers the request.
AllAnswer(answers) ==
  \A a \in answers : (req.had => Carries(a[2], req.msg)) /\ IsAbout(a[2], req.msg)

\* The result answers the request.
Answers(result) ==
  /\ result.is \in {"none", "ok", "nothing", "err"}
  /\ req.had => result # Nothing
  /\ req.msg.kind = "Presence" /\ result.is = "ok" =>
       role = "witness" /\ result.v = req.msg.request /\ req.msg.request.cell = Home
  /\ req.msg.kind = "Want" /\ result.is = "ok" => DropIdOf(result.v) = req.msg.id

\* A call that goes on with good replies and a good result stays right.
LEMMA RunningStep ==
  ASSUME RequestInv, Running(req), NEW answers, NEW result, Continues(answers, result),
         AllAnswer(answers), Answers(result)
  PROVE  RequestInv'
<1>1. /\ req'.on = TRUE /\ req'.result = result /\ req'.msg = req.msg /\ req'.had = req.had
      /\ req'.answers = answers /\ UNCHANGED <<role, store>>
      /\ req'.last \in 0..MaxConns /\ req'.out \subseteq 1..req'.last
      /\ req' = [on |-> TRUE, result |-> req'.result, msg |-> req'.msg, up |-> req'.up,
                 last |-> req'.last, out |-> req'.out, answers |-> req'.answers, had |-> req'.had]
  BY DEF Continues
<1>2. req.on /\ (req.had => Held(req.msg))
  BY DEF Running, RequestInv, AnswersInv
<1>3. AnswersInv'
  <2>1. req'.had => Held(req.msg)'
    BY <1>1, <1>2 DEF Held
  <2>2. ASSUME NEW a \in req'.answers
        PROVE  (req'.had => Carries(a[2], req'.msg)) /\ IsAbout(a[2], req.msg)'
    BY <1>1, <2>2 DEF AllAnswer, IsAbout
  <2> QED
    BY <2>1, <2>2 DEF AnswersInv, Carries
<1>4. FetchedIsAsked' /\ HeldIsFound' /\ AttestedAtHome'
  BY <1>1 DEF Answers, FetchedIsAsked, HeldIsFound, AttestedAtHome
<1> QED
  BY <1>1, <1>3, <1>4 DEF Answers, RequestInv

\* Every step of request keeps its replies, early and late, to what was asked.
LEMMA RequestStep ==
  ASSUME Shape, RequestInv, (\E m \in Ask : Dial(m)) \/ RequestNext
  PROVE  RequestInv'
<1> USE ConnsAssumption
<1>1. ASSUME NEW m \in Ask, Dial(m) PROVE RequestInv'
  <2>1. UNCHANGED <<role, store>>
    BY <1>1 DEF Dial
  <2>2. /\ req' = [on |-> TRUE, result |-> None, msg |-> m, up |-> FALSE, last |-> 0,
                   out |-> {}, answers |-> {}, had |-> req'.had]
        /\ req'.had = Held(m)
    BY <1>1 DEF Dial
  <2>3. /\ req'.on = TRUE /\ req'.result = None /\ req'.msg = m /\ req'.last = 0
        /\ req'.out = {} /\ req'.answers = {} /\ req'.up = FALSE
    BY <2>2
  <2>4. AnswersInv'
    BY <2>1, <2>2, <2>3 DEF AnswersInv, Held
  <2>5. None.is = "none" /\ None # Nothing
    BY DEF None, Nothing
  <2>6. FetchedIsAsked' /\ HeldIsFound' /\ AttestedAtHome'
    BY <2>3, <2>5 DEF FetchedIsAsked, HeldIsFound, AttestedAtHome
  <2> QED
    BY <2>2, <2>3, <2>4, <2>5, <2>6 DEF RequestInv
<1>2. SUFFICES ASSUME RequestNext PROVE RequestInv'
  BY SMTT(30), <1>1
<1>3. Running(req) /\ UNCHANGED <<role, store>>
  BY Zenon, <1>2 DEF RequestNext, Established, Closed, DialFailed, RequestTimeout, Answered, Response
<1>4. PICK m, up, last, out, ans, had :
        req = [on |-> TRUE, result |-> None, msg |-> m, up |-> up, last |-> last,
               out |-> out, answers |-> ans, had |-> had]
  <2>1. req = [on |-> TRUE, result |-> None, msg |-> req.msg, up |-> req.up, last |-> req.last,
               out |-> req.out, answers |-> req.answers, had |-> req.had]
    BY <1>3 DEF Running, RequestInv
  <2> QED
    BY <2>1
<1>5. /\ req.msg = m /\ req.up = up /\ req.last = last /\ req.out = out
      /\ req.answers = ans /\ req.had = had /\ req.on = TRUE
      /\ last \in 0..MaxConns /\ out \in SUBSET (1..last)
  BY <1>4 DEF RequestInv
<1>6. AllAnswer(ans)
  BY <1>3, <1>5 DEF Running, RequestInv, AnswersInv, AllAnswer
<1>7. Answers(None) /\ \A e : Answers(Err(e))
  BY DEF Answers, None, Nothing, Err
<1>8. CASE Established
  <2>1. req' = [on |-> TRUE, result |-> None, msg |-> m, up |-> TRUE, last |-> last + 1,
                out |-> out \cup {last + 1}, answers |-> ans, had |-> had]
    BY Zenon, <1>4, <1>5, <1>8 DEF Established
  <2>2. last + 1 \in 0..MaxConns /\ out \cup {last + 1} \in SUBSET (1..(last + 1))
    BY <1>4, <1>5, <1>8 DEF Established
  <2>3. Continues(ans, None)
    BY <1>3, <1>5, <2>1, <2>2 DEF Continues
  <2> QED
    BY <1>3, <1>6, <1>7, <2>3, RunningStep
<1>9. CASE Closed
  <2>1. req' = [on |-> TRUE, result |-> None, msg |-> m, up |-> FALSE, last |-> last,
                out |-> {}, answers |-> ans, had |-> had]
    BY Zenon, <1>4, <1>5, <1>9 DEF Closed
  <2>2. Continues(ans, None)
    BY <1>3, <1>5, <2>1 DEF Continues
  <2> QED
    BY <1>3, <1>6, <1>7, <2>2, RunningStep
<1>10. ASSUME NEW e, req' = [req EXCEPT !.result = Err(e)] PROVE RequestInv'
  <2>1. req' = [on |-> TRUE, result |-> Err(e), msg |-> m, up |-> up, last |-> last,
                out |-> out, answers |-> ans, had |-> had]
    BY Zenon, <1>4, <1>5, <1>10
  <2>2. Continues(ans, Err(e))
    BY <1>3, <1>5, <2>1 DEF Continues
  <2> QED
    BY <1>3, <1>6, <1>7, <2>2, RunningStep
<1>11. ASSUME NEW r, Answered(r) PROVE RequestInv'
  <2>1. PICK b : b = Reply(m)
    OBVIOUS
  <2>2. req' = [on |-> TRUE, result |-> None, msg |-> m, up |-> up, last |-> last,
                out |-> out \ {r}, answers |-> ans \cup {<<r, b>>}, had |-> had]
    BY Zenon, <1>4, <1>5, <1>11, <2>1 DEF Answered
  <2>3. (had => Carries(b, m)) /\ IsAbout(b, m)
    <3>1. had => Held(m)
      BY <1>3, <1>5 DEF Running, RequestInv, AnswersInv
    <3> QED
      BY <2>1, <3>1, ReplyCarries
  <2>4. AllAnswer(ans \cup {<<r, b>>})
    BY <1>5, <1>6, <2>3 DEF AllAnswer
  <2>5. Continues(ans \cup {<<r, b>>}, None)
    BY <1>3, <1>5, <2>2 DEF Continues
  <2> QED
    BY <1>3, <1>7, <2>4, <2>5, RunningStep
<1>12. ASSUME NEW a \in req.answers, Response(a) PROVE RequestInv'
  <2>1. PICK o : o = IF a[1] # last THEN None ELSE Outcome(a[2])
    OBVIOUS
  <2>2. req' = [on |-> TRUE, result |-> o, msg |-> m, up |-> up, last |-> last,
                out |-> out, answers |-> ans \ {a}, had |-> had]
    BY Zenon, <1>4, <1>5, <1>12, <2>1 DEF Response, Outcome
  <2>3. Answers(o)
    <3>1. CASE a[1] # last
      BY <1>7, <2>1, <3>1
    <3>2. CASE a[1] = last
      <4>1. o = Outcome(a[2])
        BY <2>1, <3>2
      <4>2. IsAbout(a[2], m) /\ (had => Carries(a[2], m))
        BY <1>5, <1>6, <1>12 DEF AllAnswer
      <4> QED
        BY <1>5, <4>1, <4>2, OutcomeAnswers DEF Answers
    <3> QED
      BY <3>1, <3>2
  <2>4. AllAnswer(ans \ {a})
    BY <1>6 DEF AllAnswer
  <2>5. Continues(ans \ {a}, o)
    BY <1>3, <1>5, <2>2 DEF Continues
  <2> QED
    BY <1>3, <2>3, <2>4, <2>5, RunningStep
<1> QED
  BY <1>2, <1>8, <1>9, <1>10, <1>11, <1>12 DEF RequestNext, DialFailed, RequestTimeout

\* The other calls leave request alone; what gossip adds to the store does not hurt it.
LEMMA OtherStep ==
  ASSUME Shape, RequestInv, PublishNext \/ FindNext
  PROVE  RequestInv' /\ UNCHANGED <<role, provided>>
<1>1. UNCHANGED <<role, provided, req>>
  BY Zenon DEF PublishNext, Publish, PubEstablished, PubDialFailed, PubSend, PubDelivered, PubDone,
         FindNext, FindPrivate, Identified, FindTimeout, FindStep, Found, Collect
<1>2. UNCHANGED store \/ \E raw : Gossiped(raw)
  BY Zenon DEF PublishNext, Publish, PubEstablished, PubDialFailed, PubSend, PubDelivered, PubDone,
         FindNext, FindPrivate, Identified, FindTimeout, FindStep, Found, Collect
<1>3. ASSUME Held(req.msg) PROVE Held(req.msg)'
  <2>1. PICK m : m = req.msg
    OBVIOUS
  <2>2. Held(m)'
    <3>1. CASE UNCHANGED store
      BY <1>1, <1>3, <2>1, <3>1 DEF Held
    <3>2. CASE \E raw : Gossiped(raw)
      BY <1>1, <1>3, <2>1, <3>2, GossipKeeps
    <3> QED
      BY <1>2, <3>1, <3>2
  <2> QED
    BY <1>1, <2>1, <2>2
<1>4. AnswersInv'
  <2>1. req.on => (req.had => Held(req.msg)')
    BY <1>3 DEF RequestInv, AnswersInv
  <2>2. ASSUME req.on, NEW a \in req.answers
        PROVE  (req.had => Carries(a[2], req.msg)) /\ IsAbout(a[2], req.msg)'
    BY <1>1, <2>2 DEF RequestInv, AnswersInv, IsAbout
  <2> QED
    BY <1>1, <2>1, <2>2 DEF AnswersInv, Carries
<1> QED
  BY <1>1, <1>4 DEF RequestInv, FetchedIsAsked, HeldIsFound, AttestedAtHome

\* The calls of publish and of the private lookup keep their types.
LEMMA ShapeStep ==
  ASSUME Shape, [Next]_vars
  PROVE  Shape'
<1>1. CASE UNCHANGED vars \/ (\E m \in Ask : Dial(m)) \/ RequestNext
  <2>1. UNCHANGED <<role, provided, store, pub, find, priv>>
    BY Zenon, <1>1 DEF vars, Dial, RequestNext, Established, Closed, DialFailed, RequestTimeout,
                Answered, Response
  <2> QED
    BY Zenon, <2>1 DEF Shape
<1>2. CASE PublishNext
  <2>1. UNCHANGED <<role, provided, find, priv>>
    BY <1>2 DEF PublishNext, Publish, PubEstablished, PubDialFailed, PubSend, PubDelivered, PubDone
  <2>2. IsStore(store')
    <3>1. CASE UNCHANGED store
      BY Zenon, <3>1 DEF Shape
    <3>2. ASSUME NEW raw, Gossiped(raw) PROVE IsStore(store')
      <4>1. CASE raw \notin Genuine
        BY <3>2, <4>1 DEF Gossiped, Shape
      <4>2. CASE raw \in Genuine
        <5>1. PICK ds, cs : store = [drops |-> ds, chunks |-> cs]
          BY DEF Shape, IsStore
        <5>2. store' = [store EXCEPT !.drops = Insert(store.drops, DropIdOf(raw), raw)]
          BY <3>2, <4>2 DEF Gossiped, put_drop
        <5>3. store' = [drops |-> Insert(ds, DropIdOf(raw), raw), chunks |-> cs] /\ store.drops = ds
          BY <5>1, <5>2
        <5>4. ASSUME NEW id \in DOMAIN Insert(ds, DropIdOf(raw), raw)
              PROVE  DropIdOf(Insert(ds, DropIdOf(raw), raw)[id]) = id
          <6>1. \A k \in DOMAIN ds : DropIdOf(ds[k]) = k
            BY Zenon, <5>3 DEF Shape, IsStore
          <6> QED
            BY Zenon, <5>4, <6>1 DEF Insert
        <5> QED
          BY <5>3, <5>4 DEF IsStore
      <4> QED
        BY <4>1, <4>2
    <3> QED
      BY <1>2, <3>1, <3>2 DEF PublishNext, Publish, PubEstablished, PubDialFailed, PubSend,
                              PubDelivered, PubDone
  <2>3. /\ pub' = [pc |-> pub'.pc, result |-> pub'.result, raw |-> pub'.raw, down |-> pub'.down]
        /\ pub'.pc \in {"idle", "dial", "settle", "sent", "delivered", "done"}
    <3>1. ASSUME NEW raw, Publish(raw)
          PROVE  pub' = [pc |-> "dial", result |-> None, raw |-> raw, down |-> FALSE]
      BY <3>1 DEF Publish
    <3>2. ASSUME pub.pc # "idle"
          PROVE  \E pc, result, raw, down :
                   pub = [pc |-> pc, result |-> result, raw |-> raw, down |-> down]
      BY <3>2 DEF Shape, NoPublish
    <3>3. CASE \E raw \in Payload : Publish(raw)
      BY <3>1, <3>3
    <3>4. CASE PubEstablished \/ PubDialFailed
      BY <3>2, <3>4 DEF PubEstablished, PubDialFailed
    <3>5. CASE PubSend
      BY Zenon, <3>2, <3>5 DEF PubSend
    <3>6. CASE PubDelivered \/ PubDone
      BY Zenon, <3>2, <3>6 DEF PubDelivered, PubDone
    <3> QED
      BY <1>2, <3>3, <3>4, <3>5, <3>6 DEF PublishNext
  <2> QED
    BY Zenon, <2>1, <2>2, <2>3 DEF Shape
<1>3. CASE FindNext
  <2>1. UNCHANGED <<role, provided, store, pub>>
    BY Zenon, <1>3 DEF FindNext, FindPrivate, Identified, FindTimeout, FindStep, Found, Collect
  <2>2. find' \in [Cell -> Lookup]
    <3>1. CASE FindPrivate
      BY <3>1 DEF FindPrivate, Lookup
    <3>2. ASSUME NEW c \in Cell, Identified(c) \/ FindTimeout(c)
          PROVE  find' \in [Cell -> Lookup]
      BY <3>2 DEF Identified, FindTimeout, FindStep, Shape, Lookup
    <3>3. ASSUME NEW c \in Cell, Found(c)
          PROVE  find' \in [Cell -> Lookup]
      BY ZenonT(40), <3>3 DEF Found, Shape, Lookup
    <3>4. ASSUME NEW c \in Cell, Collect(c)
          PROVE  find' \in [Cell -> Lookup]
      <4>1. UNCHANGED find \/ find' = [find EXCEPT ![c].pc = "taken"]
        BY Zenon, <3>4 DEF Collect
      <4> QED
        BY <4>1 DEF Shape, Lookup
    <3> QED
      BY <1>3, <3>1, <3>2, <3>3, <3>4 DEF FindNext
  <2>3. priv' \in {None, Ok(TRUE), Ok(FALSE)}
    <3>1. ASSUME NEW c \in Cell, Collect(c) PROVE priv' \in {None, Ok(TRUE), Ok(FALSE)}
      <4>1. find[c].providers \in BOOLEAN
        BY DEF Shape, Lookup
      <4>2. priv' = None \/ priv' = Ok(FALSE) \/ priv' = Ok(find[c].providers)
        BY Zenon, <3>1 DEF Collect
      <4> QED
        BY Zenon, <4>1, <4>2 DEF Shape
    <3>2. CASE UNCHANGED priv
      BY Zenon, <3>2 DEF Shape
    <3> QED
      BY Zenon, <1>3, <3>1, <3>2 DEF FindNext, FindPrivate, Identified, FindTimeout, FindStep, Found
  <2> QED
    BY Zenon, <2>1, <2>2, <2>3 DEF Shape
<1> QED
  BY <1>1, <1>2, <1>3 DEF Next

\* A lookup finds providers of its own cell only, and the target's is the one returned.
LEMMA FindInvStep ==
  ASSUME Shape, FindInv, PrivateIsAboutTarget, [Next]_vars
  PROVE  FindInv' /\ PrivateIsAboutTarget'
<1>1. CASE UNCHANGED <<find, priv, provided>>
  BY Zenon, <1>1 DEF FindInv, PrivateIsAboutTarget
<1>2. ASSUME FindNext PROVE FindInv' /\ PrivateIsAboutTarget'
  <2>1. UNCHANGED provided
    BY Zenon, <1>2 DEF FindNext, FindPrivate, Identified, FindTimeout, FindStep, Found, Collect
  <2>2. CASE FindPrivate
    <3>1. PICK spelled \in BOOLEAN :
            find' = [c \in Cell |->
              [pc |-> "dial", providers |-> FALSE, is_target |-> spelled /\ c = target]]
      BY Zenon, <2>2 DEF FindPrivate
    <3>2. \A c \in Cell : find'[c].providers = FALSE /\ (find'[c].is_target => c = target)
      BY Zenon, <3>1
    <3>3. FindInv'
      BY Zenon, <3>2 DEF FindInv
    <3>4. UNCHANGED priv
      BY <2>2 DEF FindPrivate
    <3> QED
      BY Zenon, <2>1, <3>3, <3>4 DEF PrivateIsAboutTarget
  <2>3. ASSUME NEW c \in Cell, NEW from, NEW to, FindStep(c, from, to)
        PROVE  FindInv' /\ PrivateIsAboutTarget'
    BY Zenon, <2>1, <2>3 DEF FindStep, FindInv, PrivateIsAboutTarget, Shape, Lookup
  <2>4. ASSUME NEW c \in Cell, Found(c) PROVE FindInv' /\ PrivateIsAboutTarget'
    BY Zenon, <2>1, <2>4 DEF Found, FindInv, PrivateIsAboutTarget, Shape, Lookup
  <2>5. ASSUME NEW c \in Cell, Collect(c) PROVE FindInv' /\ PrivateIsAboutTarget'
    <3>1. CASE ~find[c].is_target
      <4>1. /\ find' = [find EXCEPT ![c].pc = "taken"]
            /\ priv' = None \/ priv' = Ok(FALSE)
        BY Zenon, <2>5, <3>1 DEF Collect
      <4>2. None # Ok(TRUE) /\ Ok(FALSE) # Ok(TRUE)
        BY DEF None, Ok
      <4>3. PrivateIsAboutTarget'
        BY Zenon, <4>1, <4>2 DEF PrivateIsAboutTarget
      <4>4. FindInv'
        BY <2>1, <4>1 DEF FindInv, Shape, Lookup
      <4> QED
        BY Zenon, <4>3, <4>4
    <3>2. CASE find[c].is_target
      <4>1. priv' = Ok(find[c].providers) /\ UNCHANGED find /\ c = target
        BY Zenon, <2>5, <3>2 DEF Collect, FindInv
      <4>2. priv' = Ok(TRUE) => find[c].providers = TRUE
        BY <4>1 DEF Ok
      <4> QED
        BY Zenon, <2>1, <4>1, <4>2 DEF FindInv, PrivateIsAboutTarget
    <3> QED
      BY <3>1, <3>2
  <2> QED
    BY <1>2, <2>2, <2>3, <2>4, <2>5 DEF FindNext, Identified, FindTimeout
<1>3. ASSUME ~UNCHANGED <<find, priv, provided>> PROVE FindNext
  BY Zenon, <1>3 DEF vars, Next, Dial, RequestNext, Established, Closed, DialFailed, RequestTimeout,
              Answered, Response, PublishNext, Publish, PubEstablished, PubDialFailed, PubSend,
              PubDelivered, PubDone
<1> QED
  BY <1>1, <1>2, <1>3

-----------------------------------------------------------------------------
(* The theorems *)

\* The initial states satisfy the inductive invariant.
LEMMA InitInv ==
  ASSUME Init
  PROVE  IInv
<1>1. Shape
  BY StoreAssumption DEF Init, Shape, IsStore, Lookup, NoPublish, NoFind, None, Ok
<1>2. req = [on |-> FALSE, result |-> None] /\ None.is = "none"
  BY DEF Init, NoRequest, None
<1>3. RequestInv
  BY <1>2 DEF RequestInv, AnswersInv, FetchedIsAsked, HeldIsFound, AttestedAtHome
<1>4. FindInv
  BY DEF Init, NoFind, FindInv
<1>5. PrivateIsAboutTarget
  BY DEF Init, PrivateIsAboutTarget, None, Ok
<1> QED
  BY <1>1, <1>3, <1>4, <1>5 DEF IInv

\* The inductive invariant: what a call has in flight answers what it asked, because
\* the peer's store only grows.
THEOREM CallInvariant == Spec => []IInv
<1>1. Init => IInv
  BY InitInv
<1>2. IInv /\ [Next]_vars => IInv'
  <2> SUFFICES ASSUME Shape, RequestInv, FindInv, PrivateIsAboutTarget, [Next]_vars
               PROVE  IInv'
    BY DEF IInv
  <2>1. Shape' /\ FindInv' /\ PrivateIsAboutTarget'
    BY ShapeStep, FindInvStep
  <2>2. CASE UNCHANGED vars
    <3>1. UNCHANGED <<role, store, req>>
      BY <2>2 DEF vars
    <3> QED
      BY <2>1, <3>1 DEF IInv, RequestInv, AnswersInv, FetchedIsAsked, HeldIsFound, AttestedAtHome, Held, IsAbout
  <2>3. CASE Next
    <3>1. RequestInv'
      BY <2>3, RequestStep, OtherStep DEF Next
    <3> QED
      BY <2>1, <3>1 DEF IInv
  <2> QED
    BY <2>2, <2>3
<1> QED
  BY <1>1, <1>2, PTL DEF Spec

\* request, fetch_drop, fetch_chunk, request_presence and find_providers_private, for
\* any number of reconnections: a fetched envelope is the one of the drop that was asked
\* for, what the peer held when the call began is never reported missing, an attestation
\* is for the very request and the witness's own cell, and a private lookup tells of the
\* target only.
THEOREM CallsAnswerWhatWasAsked == Spec => []CallInv
<1>1. IInv => CallInv
  <2> SUFFICES ASSUME IInv PROVE TypeOK
    BY DEF IInv, RequestInv, CallInv
  <2>1. Shape /\ RequestInv
    BY DEF IInv
  <2>2. priv.is \in {"none", "ok"}
    BY <2>1 DEF Shape, None, Ok
  <2>3. \A c \in Cell : find[c].pc \in {"idle", "dial", "queried", "done", "taken"}
    BY <2>1 DEF Shape, Lookup
  <2> QED
    BY <2>1, <2>2, <2>3 DEF TypeOK, Shape, RequestInv
<1> QED
  BY <1>1, CallInvariant, PTL

=============================================================================
