--------------------------- MODULE Exchange_proofs -----------------------------
(***************************************************************************)
(* The exchange of drops, pushes and tree heads between any number of      *)
(* nodes, for any number of chunks, commands and faults: what a server     *)
(* serves, what a push may count on, what a first-hand fetch leaves, and   *)
(* that the tree heads a node was shown are how the log began.             *)
(***************************************************************************)
EXTENDS Exchange, TLAPS

-----------------------------------------------------------------------------
(* The inductive invariant *)

\* A store: two maps, and every envelope kept under its own id.
IsStore(s) ==
  /\ s = [drops |-> s.drops, chunks |-> s.chunks]
  /\ \A x \in DOMAIN s.drops : s.drops[x] = x
  /\ \A x \in DOMAIN s.chunks : s.chunks[x] \in {"torn", "whole"}

\* What listens at an address, in each state a server goes through.
IsServer(s) ==
  \/ s = Down \/ s = Mute
  \/ /\ s.kind = "loading"
     /\ s = [kind |-> "loading", run |-> s.run, store |-> s.store, todo |-> s.todo]
     /\ s.run \in 0..MaxFaults /\ IsStore(s.store) /\ s.todo \subseteq File
     /\ (\A f \in s.todo : f[2] = 0) \/ (\A f \in s.todo : f[2] > 0)
  \/ /\ s.kind = "storage"
     /\ s = [kind |-> "storage", run |-> s.run, store |-> s.store]
     /\ s.run \in 0..MaxFaults /\ IsStore(s.store)
  \/ /\ s.kind = "sth"
     /\ s = [kind |-> "sth", run |-> s.run, store |-> s.store]
     /\ s.run \in 0..MaxFaults /\ s.store \in Seq(Id)

\* create_drop at its at-th file: the chunks come first, then the envelope.
IsCreate(n, j) ==
  /\ j \in [pc : {"open", "fill"}, op : {"create"}, drop : Id, at : Nat \ {0}, data : {"whole"}]
  /\ Origin[j.drop] = n
  /\ j.at <= ChunkCount[j.drop] + 1

\* A fetch that has been answered at least once.
Answered(j) == j.op = "fetch" /\ (j.pc # "ask" \/ j.at > 1)

\* fetch, asking for a part or writing it: the envelope comes first, then the chunks. A
\* fetch that was answered is recorded in got.
IsFetch(n, j, given) ==
  /\ \/ j \in [pc : {"ask"}, op : {"fetch"}, drop : Id, at : Nat \ {0}, peer : Node]
     \/ j \in [pc : {"ask", "open", "fill"}, op : {"fetch"}, drop : Id, at : Nat \ {0}, peer : Node,
               data : {"torn", "whole"}]
  /\ j.peer # n
  /\ j.at <= ChunkCount[j.drop] + 1
  /\ Answered(j) => j.drop \in given

\* push: the envelope (part 0) and then the chunks, one request each.
IsPush(n, j) ==
  /\ j \in [pc : {"put"}, op : {"push"}, drop : Id, at : Nat, peer : Node, run : 0..MaxFaults]
  /\ j.peer # n
  /\ j.at <= ChunkCount[j.drop]

\* What a node's command is at.
IsJob(n, j, given) == j = Idle \/ IsCreate(n, j) \/ IsFetch(n, j, given) \/ IsPush(n, j)

\* The types, as far as the steps depend on them.
Shape ==
  /\ dir \in [Node -> [File -> {"absent", "torn", "whole"}]]
  /\ DOMAIN server = Node /\ \A n \in Node : IsServer(server[n])
  /\ DOMAIN job = Node /\ \A n \in Node : IsJob(n, job[n], got[n])
  /\ log \in [Node -> Seq(Id)]
  /\ seen \in [Node -> [Node -> Seq(Id)]]
  /\ pushed \in [Node -> SUBSET (Id \X (0..MaxFaults))]
  /\ got \in [Node -> SUBSET Id]
  /\ ops \in 0..MaxOps /\ faults \in 0..MaxFaults

\* An in-memory store is being filled or served.
HasStore(n) == server[n].kind \in {"loading", "storage"}

\* A node that neither made a drop nor was given it has nothing of it.
StrangerInv ==
  \A n \in Node, d \in Id : Origin[d] # n /\ d \notin got[n] =>
    /\ \A i \in 0..ChunkCount[d] : dir[n][<<d, i>>] = "absent"
    /\ HasStore(n) => /\ d \notin DOMAIN server[n].store.drops
                      /\ \A i \in Nat : <<d, i>> \notin DOMAIN server[n].store.chunks

\* The order of writes in create_drop: the chunks passed are whole, and no envelope is
\* there before the last chunk.
CreateInv ==
  \A n \in Node : job[n].pc # "idle" /\ job[n].op = "create" =>
    /\ \A i \in 1..ChunkCount[job[n].drop] : i < job[n].at => dir[n][<<job[n].drop, i>>] = "whole"
    /\ job[n].at <= ChunkCount[job[n].drop] => dir[n][<<job[n].drop, 0>>] = "absent"

\* A drop that was made here, and never fetched back, has whole chunks once it has an
\* envelope.
MadeInv ==
  \A n \in Node, d \in Id : Origin[d] = n /\ d \notin got[n] /\ dir[n][<<d, 0>>] # "absent" =>
    \A i \in 1..ChunkCount[d] : dir[n][<<d, i>>] = "whole"

\* The store holds the chunk, whole.
HoldsChunk(s, d, i) == <<d, i>> \in DOMAIN s.chunks /\ s.chunks[<<d, i>>] = "whole"

\* load_store reads all envelopes before any chunk: for a drop made here whose envelope
\* was read, the chunks are in the directory, so each is read already or still to be read.
LoadInv ==
  \A n \in Node, d \in Id :
    /\ server[n].kind = "loading" /\ Origin[d] = n /\ d \notin got[n]
    /\ d \in DOMAIN server[n].store.drops
    => /\ dir[n][<<d, 0>>] # "absent"
       /\ (\A f \in server[n].todo : f[2] > 0) =>
            \A i \in 0..ChunkCount[d] - 1 :
              <<d, i + 1>> \in server[n].todo \/ HoldsChunk(server[n].store, d, i)

\* The first k chunks of d, put under run r of n's server, are held by it as long as
\* it is that run.
Held(n, d, r, k) ==
  CASE server[n].kind \in {"down", "mute"} -> r < faults
    [] server[n].kind = "storage" ->
         \/ r < server[n].run
         \/ /\ r = server[n].run
            /\ d \in DOMAIN server[n].store.drops
            /\ \A i \in 0..k - 1 : <<d, i>> \in DOMAIN server[n].store.chunks
    [] OTHER -> r < server[n].run

\* A server's run is the number of faults there were when it was started.
RunInv == \A n \in Node : server[n].kind \notin {"down", "mute"} => server[n].run <= faults

\* What was acknowledged to a push is held by the server that acknowledged it.
PushInv ==
  /\ \A n \in Node : \A x \in pushed[n] : Held(n, x[1], x[2], ChunkCount[x[1]])
  /\ \A n \in Node : job[n].pc = "put" /\ job[n].at > 0 =>
       Held(job[n].peer, job[n].drop, job[n].run, job[n].at - 1)

\* Heads are of the log as it was: neither one that was seen nor the one served is ahead
\* of the log.
HeadInv ==
  /\ ShownIsLogged
  /\ \A m \in Node : server[m].kind = "sth" => IsPrefix(server[m].store, log[m])

\* A fetch that has been answered at least once.
Fetching(n) == job[n].pc # "idle" /\ Answered(job[n])

\* Without a fault the server that answered a fetch goes on serving the drop.
PeerInv ==
  faults = 0 => \A n \in Node : Fetching(n) =>
    /\ server[job[n].peer].kind = "storage"
    /\ job[n].drop \in DOMAIN server[job[n].peer].store.drops

\* d is at n first hand.
FirstHand(n, d) == faults = 0 /\ n # Origin[d] /\ \A m \in Node \ {n} : d \notin got[m]

\* A drop that this node alone has fetched, without a fault: a torn file is the one
\* being filled, what was passed is whole, and a drop in the log has all its files.
FetchInv ==
  \A n \in Node, d \in Id : FirstHand(n, d) =>
    /\ \A i \in 0..ChunkCount[d] : dir[n][<<d, i>>] = "torn" =>
         job[n].pc = "fill" /\ job[n].op = "fetch" /\ job[n].drop = d /\ job[n].at = i + 1
    /\ Fetching(n) /\ job[n].drop = d =>
         /\ job[n].pc # "ask" => job[n].data = "whole"
         /\ \A i \in 0..job[n].at - 2 : dir[n][<<d, i>>] = "whole"
    /\ (\E i \in DOMAIN log[n] : log[n][i] = d) =>
         \A i \in 0..ChunkCount[d] : dir[n][<<d, i>>] # "absent"

\* What the directories and the stores hold.
StoreInv == StrangerInv /\ CreateInv /\ MadeInv /\ LoadInv /\ SnapshotComplete

\* The inductive invariant.
IInv == Shape /\ StoreInv /\ RunInv /\ PushInv /\ HeadInv /\ PeerInv /\ FetchInv

-----------------------------------------------------------------------------
(* What the operations of Net do to a store *)

\* The files of a drop.
LEMMA FileIs ==
  /\ \A d \in Id, i \in Nat : i <= ChunkCount[d] => <<d, i>> \in File
  /\ \A f \in File : \E d \in Id, i \in Nat :
       i <= ChunkCount[d] /\ f = <<d, i>> /\ f[1] = d /\ f[2] = i
BY ChunkAssumption DEF File

\* t is the store s with an envelope more.
DropAdded(s, t, d) ==
  /\ IsStore(t)
  /\ DOMAIN t.drops = DOMAIN s.drops \cup {d}
  /\ t.chunks = s.chunks

\* t is the store s with chunk i of d added or replaced.
ChunkAdded(s, t, d, i, data) ==
  /\ IsStore(t)
  /\ t.drops = s.drops
  /\ DOMAIN t.chunks = DOMAIN s.chunks \cup {<<d, i>>}
  /\ t.chunks[<<d, i>>] = data
  /\ \A x \in DOMAIN s.chunks : x # <<d, i>> => t.chunks[x] = s.chunks[x]

\* Putting an envelope adds it under its id and changes no other entry.
LEMMA PutDropAdds ==
  ASSUME NEW s, IsStore(s), NEW d
  PROVE  DropAdded(s, put_drop(s, d, d), d)
BY DEF IsStore, put_drop, Insert, DropAdded

\* Putting a chunk adds or replaces this chunk and changes no other entry.
LEMMA PutChunkAdds ==
  ASSUME NEW s, IsStore(s), NEW d, NEW i, NEW data \in {"torn", "whole"}
  PROVE  ChunkAdded(s, put_chunk(s, d, i, data), d, i, data)
<1>1. PICK c : c = Insert(s.chunks, <<d, i>>, data)
  BY Zenon
<1>2. /\ DOMAIN c = DOMAIN s.chunks \cup {<<d, i>>}
      /\ c[<<d, i>>] = data
      /\ \A x \in DOMAIN s.chunks : x # <<d, i>> => c[x] = s.chunks[x]
  BY Zenon, <1>1 DEF Insert
<1>3. PICK t : t = put_chunk(s, d, i, data)
  BY Zenon
<1>4. t = [drops |-> s.drops, chunks |-> c]
  BY Zenon, <1>1, <1>3 DEF IsStore, put_chunk
<1>5. IsStore(t)
  BY Zenon, <1>2, <1>4 DEF IsStore
<1>6. ChunkAdded(s, t, d, i, data)
  BY Zenon, <1>2, <1>4, <1>5 DEF ChunkAdded
<1> QED
  BY Zenon, <1>3, <1>6

\* Hello changes nothing at a server, so an exchange is the answer to its request.
LEMMA ExchangedIs ==
  ASSUME NEW m \in Node, Listening(m), IsServer(server[m]), NEW msg
  PROVE  Exchanged(m, msg) = Answer(server[m], msg)
<1>1. Answer(server[m], Hello).store = server[m].store
  BY Zenon DEF Answer, respond, sth_respond, Turn, Hello
<1>2. [server[m] EXCEPT !.store = server[m].store] = server[m]
  BY Zenon DEF IsServer, Listening, Down, Mute
<1> QED
  BY Zenon, <1>1, <1>2 DEF Exchanged

\* What the storage server answers to the requests of a fetch.
LEMMA WantResponse ==
  ASSUME NEW s, NEW d
  PROVE  respond(s, Want(d)) = Turn(s, get_drop(s, d), TRUE)
BY Zenon DEF respond, Want

\* The answer to WantChunk.
LEMMA WantChunkResponse ==
  ASSUME NEW s, NEW d, NEW i
  PROVE  respond(s, WantChunk(d, i)) = Turn(s, get_chunk(s, d, i), TRUE)
BY Zenon DEF respond, WantChunk

\* What it does with the requests of a push.
LEMMA PutResponse ==
  ASSUME NEW s, NEW d
  PROVE  respond(s, Put(d)) =
           IF d \in Genuine THEN Turn(put_drop(s, d, d), Stored(d), TRUE) ELSE Turn(s, Bye, TRUE)
BY Zenon DEF respond, Put, DropIdOf

\* The answer to PutChunk.
LEMMA PutChunkResponse ==
  ASSUME NEW s, NEW d, NEW i, NEW data
  PROVE  respond(s, PutChunk(d, i, data)) = Turn(put_chunk(s, d, i, data), Stored(d), TRUE)
BY Zenon DEF respond, PutChunk

\* The server of a tree head answers GetSth and no request of a fetch or a push.
LEMMA SthResponse ==
  ASSUME NEW h, NEW msg, msg.kind \notin {"Hello", "GetSth"}
  PROVE  sth_respond(h, msg) = Turn(h, Bye, FALSE)
BY Zenon DEF sth_respond

\* Storing part of a drop leaves every entry of another drop as it is.
Adds(s, t, d) ==
  /\ IsStore(t)
  /\ DOMAIN s.drops \subseteq DOMAIN t.drops
  /\ DOMAIN t.drops \subseteq DOMAIN s.drops \cup {d}
  /\ DOMAIN s.chunks \subseteq DOMAIN t.chunks
  /\ \A e, i : e # d =>
       /\ <<e, i>> \in DOMAIN t.chunks <=> <<e, i>> \in DOMAIN s.chunks
       /\ <<e, i>> \in DOMAIN s.chunks => t.chunks[<<e, i>>] = s.chunks[<<e, i>>]

\* The storage server given an envelope.
LEMMA PutAdds ==
  ASSUME NEW s, IsStore(s), NEW d, NEW r, r = respond(s, Put(d))
  PROVE  /\ Adds(s, r.store, d)
         /\ r.reply.kind = "Stored" => d \in DOMAIN r.store.drops
<1>1. CASE d \in Genuine
  <2>1. r = Turn(put_drop(s, d, d), Stored(d), TRUE)
    BY Zenon, <1>1, PutResponse
  <2>2. DropAdded(s, r.store, d)
    BY <2>1, PutDropAdds DEF Turn
  <2> QED
    BY Zenon, <2>2 DEF Adds, DropAdded
<1>2. CASE d \notin Genuine
  <2>1. r = Turn(s, Bye, TRUE)
    BY Zenon, <1>2, PutResponse
  <2>2. r.store = s /\ r.reply.kind # "Stored"
    BY <2>1 DEF Turn, Bye
  <2> QED
    BY Zenon, <2>2 DEF Adds
<1> QED
  BY Zenon, <1>1, <1>2

\* The storage server given a chunk.
LEMMA PutChunkAddsOnly ==
  ASSUME NEW s, IsStore(s), NEW d, NEW i, NEW data \in {"torn", "whole"},
         NEW r, r = respond(s, PutChunk(d, i, data))
  PROVE  Adds(s, r.store, d) /\ <<d, i>> \in DOMAIN r.store.chunks
<1>1. r = Turn(put_chunk(s, d, i, data), Stored(d), TRUE)
  BY Zenon, PutChunkResponse
<1>2. ChunkAdded(s, r.store, d, i, data)
  BY <1>1, PutChunkAdds DEF Turn
<1> QED
  BY Zenon, <1>2 DEF Adds, ChunkAdded

\* What a push request leaves at the peer: nothing but entries of the drop it sends.
PushEffect(m, d) ==
  /\ DOMAIN server' = Node
  /\ \A x \in Node : x # m => server'[x] = server[x]
  /\ IsServer(server'[m])
  /\ server'[m].kind = server[m].kind
  /\ server[m].kind = "sth" => server'[m] = server[m]
  /\ server[m].kind = "storage" =>
       server'[m].run = server[m].run /\ Adds(server[m].store, server'[m].store, d)

\* Stored says that the peer keeps what was sent.
LEMMA PushHandled ==
  ASSUME NEW n \in Node, NEW m \in Node, NEW d \in Id, NEW k \in Nat, Shape,
         job[n].peer = m, job[n].drop = d, job[n].at = k,
         k <= ChunkCount[d], Readable(n), Listening(m), Handled(m, PushRequest(n))
  PROVE  /\ PushEffect(m, d)
         /\ Exchanged(m, PushRequest(n)).reply.kind = "Stored" =>
              /\ server[m].kind = "storage"
              /\ k = 0 => d \in DOMAIN server'[m].store.drops
              /\ k > 0 => <<d, k - 1>> \in DOMAIN server'[m].store.chunks
<1>1. PICK msg : msg = PushRequest(n)
  BY Zenon
<1>2. PICK r : r = Answer(server[m], msg)
  BY Zenon
<1>3. IsServer(server[m]) /\ DOMAIN server = Node
  BY Zenon DEF Shape
<1>4. Exchanged(m, msg) = r
  BY Zenon, <1>2, <1>3, ExchangedIs
<1>5. /\ DOMAIN server' = Node
      /\ \A x \in Node : x # m => server'[x] = server[x]
      /\ server'[m] = [server[m] EXCEPT !.store = r.store]
  BY Zenon, <1>1, <1>3, <1>4 DEF Handled
<1>6. CASE server[m].kind = "sth"
  <2>1. msg.kind \notin {"Hello", "GetSth"}
    BY Zenon, <1>1 DEF PushRequest, Put, PutChunk
  <2>2. r = Turn(server[m].store, Bye, FALSE)
    BY Zenon, <1>2, <1>6, <2>1, SthResponse DEF Answer
  <2>3. r.store = server[m].store /\ r.reply.kind # "Stored"
    BY Zenon, <2>2 DEF Turn, Bye
  <2>4. server'[m] = server[m]
    BY <1>3, <1>5, <1>6, <2>3 DEF IsServer, Down, Mute
  <2> QED
    BY Zenon, <1>1, <1>3, <1>4, <1>5, <1>6, <2>3, <2>4 DEF PushEffect
<1>7. CASE server[m].kind = "storage"
  <2>1. PICK s : s = server[m].store
    BY Zenon
  <2>2. /\ server[m] = [kind |-> "storage", run |-> server[m].run, store |-> s]
        /\ server[m].run \in 0..MaxFaults
        /\ IsStore(s)
    BY <1>3, <1>7, <2>1 DEF IsServer, Down, Mute
  <2>3. server'[m] = [kind |-> "storage", run |-> server[m].run, store |-> r.store]
    BY <1>5, <2>2
  <2>4. r = respond(s, msg)
    BY Zenon, <1>2, <1>7, <2>1 DEF Answer
  <2>5. /\ Adds(s, r.store, d)
        /\ r.reply.kind = "Stored" /\ k = 0 => d \in DOMAIN r.store.drops
        /\ k > 0 => <<d, k - 1>> \in DOMAIN r.store.chunks
    <3>1. CASE k = 0
      <4>1. msg = Put(d)
        BY Zenon, <1>1, <3>1 DEF PushRequest
      <4> QED
        BY <2>2, <2>4, <3>1, <4>1, PutAdds
    <3>2. CASE k # 0
      <4>1. PICK i, data : i = k - 1 /\ data = dir[n][<<d, k>>] /\ msg = PutChunk(d, i, data)
        BY Zenon, <1>1, <3>2 DEF PushRequest
      <4>2. data \in {"torn", "whole"}
        <5>1. <<d, k>> \in File
          BY Zenon, FileIs
        <5>2. dir[n] \in [File -> {"absent", "torn", "whole"}]
          BY Zenon DEF Shape
        <5> QED
          BY Zenon, <3>2, <4>1, <5>1, <5>2 DEF Readable
      <4>3. Adds(s, r.store, d) /\ <<d, i>> \in DOMAIN r.store.chunks
        BY Zenon, <2>2, <2>4, <4>1, <4>2, PutChunkAddsOnly
      <4> QED
        BY Zenon, <3>2, <4>1, <4>3
    <3> QED
      BY Zenon, <3>1, <3>2
  <2>6. IsServer(server'[m])
    BY <2>2, <2>3, <2>5 DEF IsServer, Adds
  <2>7. PushEffect(m, d)
    BY Zenon, <1>5, <1>7, <2>1, <2>3, <2>5, <2>6 DEF PushEffect
  <2> QED
    BY <1>1, <1>4, <1>7, <2>3, <2>5, <2>7
<1> QED
  BY Zenon, <1>6, <1>7 DEF Listening

-----------------------------------------------------------------------------
(* Types *)

\* What a command's step says of the command.
LEMMA JobKinds ==
  ASSUME Shape, NEW n \in Node
  PROVE  /\ job[n].pc \in {"idle", "open", "fill", "ask", "put"}
         /\ job[n].pc = "idle" <=> job[n] = Idle
         /\ job[n].pc \in {"open", "fill"} => IsCreate(n, job[n]) \/ IsFetch(n, job[n], got[n])
         /\ job[n].pc = "ask" => IsFetch(n, job[n], got[n])
         /\ job[n].pc = "put" => IsPush(n, job[n])
         /\ job[n].pc # "idle" => job[n].drop \in Id /\ job[n].at \in Nat
<1>1. IsJob(n, job[n], got[n])
  BY Zenon DEF Shape
<1>2. CASE job[n] = Idle
  BY <1>2 DEF Idle
<1>3. CASE IsCreate(n, job[n])
  BY <1>3 DEF IsCreate, Idle
<1>4. CASE IsFetch(n, job[n], got[n])
  BY <1>4 DEF IsFetch, Idle
<1>5. CASE IsPush(n, job[n])
  BY <1>5 DEF IsPush, Idle
<1> QED
  BY Zenon, <1>1, <1>2, <1>3, <1>4, <1>5 DEF IsJob

\* What a server's kind says of the server.
LEMMA ServerKinds ==
  ASSUME Shape, NEW n \in Node
  PROVE  /\ server[n].kind \in {"down", "mute", "loading", "storage", "sth"}
         /\ server[n].kind = "down" <=> server[n] = Down
         /\ server[n].kind = "loading" =>
              /\ server[n] = [kind |-> "loading", run |-> server[n].run, store |-> server[n].store,
                              todo |-> server[n].todo]
              /\ server[n].run \in 0..MaxFaults /\ IsStore(server[n].store)
              /\ server[n].todo \subseteq File
              /\ (\A f \in server[n].todo : f[2] = 0) \/ (\A f \in server[n].todo : f[2] > 0)
         /\ server[n].kind = "storage" =>
              /\ server[n] = [kind |-> "storage", run |-> server[n].run, store |-> server[n].store]
              /\ server[n].run \in 0..MaxFaults /\ IsStore(server[n].store)
         /\ server[n].kind = "sth" =>
              /\ server[n] = [kind |-> "sth", run |-> server[n].run, store |-> server[n].store]
              /\ server[n].run \in 0..MaxFaults /\ server[n].store \in Seq(Id)
<1>1. PICK s : s = server[n]
  BY Zenon
<1>2. IsServer(s)
  BY Zenon, <1>1 DEF Shape
<1>3. Down.kind = "down" /\ Mute.kind = "mute"
  BY Zenon DEF Down, Mute
<1> QED
  BY Zenon, <1>1, <1>2, <1>3 DEF IsServer

\* The file a command is at.
LEMMA CurrentIs ==
  ASSUME Shape, NEW n \in Node, job[n].pc \in {"open", "fill"}
  PROVE  /\ Current(n) \in File
         /\ job[n].op = "create" => Current(n) =
              <<job[n].drop, IF job[n].at <= ChunkCount[job[n].drop] THEN job[n].at ELSE 0>>
         /\ job[n].op # "create" => Current(n) = <<job[n].drop, job[n].at - 1>>
         /\ job[n].op \in {"create", "fetch"}
<1>1. PICK d, k, op : d = job[n].drop /\ k = job[n].at /\ op = job[n].op
  BY Zenon
<1>2. d \in Id /\ k \in Nat \ {0} /\ k <= ChunkCount[d] + 1 /\ op \in {"create", "fetch"}
  BY Zenon, <1>1, JobKinds DEF IsCreate, IsFetch
<1>3. ChunkCount[d] \in Nat
  BY Zenon, <1>2, ChunkAssumption
<1>4. Current(n) = FileAt(op, d, k)
  BY Zenon, <1>1 DEF Current
<1>5. /\ op = "create" => FileAt(op, d, k) = <<d, IF k <= ChunkCount[d] THEN k ELSE 0>>
      /\ op # "create" => FileAt(op, d, k) = <<d, k - 1>>
  BY Zenon DEF FileAt
<1>6. FileAt(op, d, k) \in File
  BY <1>2, <1>3, <1>5, FileIs
<1> QED
  BY Zenon, <1>1, <1>2, <1>4, <1>5, <1>6

\* What fetch n is given.
Given(n) == Content(Exchanged(job[n].peer, Request(n)).reply)

\* A fetch that is answered gives up, or goes on with what it was given.
LEMMA AskStep ==
  ASSUME Shape, NEW n \in Node, Ask(n)
  PROVE  /\ IsFetch(n, job[n], got[n])
         /\ Listening(job[n].peer)
         /\ \/ Given(n) = "absent" /\ Goto(n, Idle) /\ got' = got
            \/ /\ Given(n) # "absent"
               /\ Goto(n, [pc |-> "open", op |-> "fetch", drop |-> job[n].drop, at |-> job[n].at,
                           peer |-> job[n].peer, data |-> Given(n)])
               /\ got' = [got EXCEPT ![n] = @ \cup {job[n].drop}]
         /\ UNCHANGED <<dir, server, log, seen, pushed, ops, faults>>
BY Zenon, JobKinds DEF Ask, Given

\* What a listening storage server answers to a fetch: the envelope, a chunk as it has
\* it, or nothing; the server of a tree head answers nothing.
LEMMA Contents ==
  ASSUME Shape, NEW n \in Node, NEW m \in Node, NEW d, NEW k, NEW c,
         job[n].peer = m, job[n].drop = d, job[n].at = k, c = Given(n), Listening(m)
  PROVE  /\ c \in {"absent", "torn", "whole"}
         /\ c # "absent" =>
              /\ server[m].kind = "storage"
              /\ k = 1 => c = "whole" /\ d \in DOMAIN server[m].store.drops
              /\ k # 1 => /\ <<d, k - 2>> \in DOMAIN server[m].store.chunks
                          /\ c = server[m].store.chunks[<<d, k - 2>>]
<1>1. PICK msg : msg = IF k = 1 THEN Want(d) ELSE WantChunk(d, k - 2)
  BY Zenon
<1>2. PICK r : r = Answer(server[m], msg)
  BY Zenon
<1>3. c = Content(r.reply)
  <2>1. msg = Request(n)
    BY Zenon, <1>1 DEF Request
  <2> QED
    BY Zenon, <1>2, <2>1, ExchangedIs DEF Shape, Given
<1>4. CASE server[m].kind = "sth"
  <2>1. msg.kind \notin {"Hello", "GetSth"}
    BY Zenon, <1>1 DEF Want, WantChunk
  <2>2. r = Turn(server[m].store, Bye, FALSE)
    BY Zenon, <1>2, <1>4, <2>1, SthResponse DEF Answer
  <2> QED
    BY Zenon, <1>3, <2>2 DEF Turn, Bye, Content
<1>5. CASE server[m].kind = "storage"
  <2>1. PICK s : s = server[m].store
    BY Zenon
  <2>2. IsStore(s)
    BY Zenon, <1>5, <2>1, ServerKinds
  <2>3. r = respond(s, msg)
    BY Zenon, <1>2, <1>5, <2>1 DEF Answer
  <2>4. CASE k = 1
    <3>1. r.reply = get_drop(s, d)
      BY <1>1, <2>3, <2>4, WantResponse DEF Turn
    <3> QED
      BY <1>3, <1>5, <2>1, <2>4, <3>1 DEF get_drop, Drop, Missing, Content
  <2>5. CASE k # 1
    <3>1. PICK i : i = k - 2
      BY Zenon
    <3>2. msg = WantChunk(d, i)
      BY Zenon, <1>1, <2>5, <3>1
    <3>3. r.reply = get_chunk(s, d, i)
      BY <2>3, <3>2, WantChunkResponse DEF Turn
    <3>4. /\ c # "absent" => <<d, i>> \in DOMAIN s.chunks /\ c = s.chunks[<<d, i>>]
          /\ c \in {"absent", "torn", "whole"}
      BY SMTT(40), <1>3, <2>2, <3>3 DEF get_chunk, Chunk, Missing, Content, IsStore
    <3> QED
      BY Zenon, <1>5, <2>1, <2>5, <3>1, <3>4
  <2> QED
    BY Zenon, <2>4, <2>5
<1> QED
  BY Zenon, <1>4, <1>5 DEF Listening

\* The command k at its next file, and the push k at its next request.
NextFile(k, pc) == [k EXCEPT !.pc = pc, !.at = k.at + 1]

\* The push goes on with its next part, to the run r of the server.
NextPut(k, r) == [k EXCEPT !.at = k.at + 1, !.run = r]

\* The run of the server that the push counts on: the one that took the envelope.
NextRun(n) == IF job[n].at = 0 THEN server[job[n].peer].run ELSE job[n].run

\* What push n has just sent is at the peer.
SentIsHeld(n) ==
  /\ job[n].at = 0 => job[n].drop \in DOMAIN server'[job[n].peer].store.drops
  /\ job[n].at > 0 => <<job[n].drop, job[n].at - 1>> \in DOMAIN server'[job[n].peer].store.chunks

\* A push that sends a file, and what becomes of it.
LEMMA PushStep ==
  ASSUME Shape, NEW n \in Node, PushNext(n) \/ PushAnswerLost(n)
  PROVE  /\ IsPush(n, job[n])
         /\ Listening(job[n].peer)
         /\ PushEffect(job[n].peer, job[n].drop)
         /\ got' = IF server[job[n].peer].kind = "storage"
                   THEN [got EXCEPT ![job[n].peer] = @ \cup {job[n].drop}] ELSE got
         /\ \/ Goto(n, Idle) /\ pushed' = pushed
            \/ /\ server[job[n].peer].kind = "storage"
               /\ SentIsHeld(n)
               /\ \/ /\ job[n].at < ChunkCount[job[n].drop]
                     /\ Goto(n, NextPut(job[n], NextRun(n)))
                     /\ pushed' = pushed
                  \/ /\ job[n].at = ChunkCount[job[n].drop]
                     /\ Goto(n, Idle)
                     /\ pushed' = [pushed EXCEPT ![job[n].peer] = @ \cup {<<job[n].drop, job[n].run>>}]
         /\ UNCHANGED <<dir, log, seen, ops>>
<1> DEFINE m == job[n].peer
           d == job[n].drop
           k == job[n].at
<1>1. IsPush(n, job[n])
  BY Zenon, JobKinds DEF PushNext, PushAnswerLost
<1>2. m \in Node /\ d \in Id /\ k \in Nat /\ m # n /\ k <= ChunkCount[d]
  BY Zenon, <1>1 DEF IsPush
<1>3. Readable(n) /\ Listening(m) /\ Handled(m, PushRequest(n))
  BY Zenon DEF PushNext, PushAnswerLost
<1>4. PICK kind : kind = Exchanged(m, PushRequest(n)).reply.kind
  BY Zenon
<1>5. /\ PushEffect(m, d)
      /\ kind = "Stored" =>
           /\ server[m].kind = "storage"
           /\ SentIsHeld(n)
  BY Zenon, <1>2, <1>3, <1>4, PushHandled DEF SentIsHeld
<1>6. /\ got' = IF server[m].kind = "storage" THEN [got EXCEPT ![m] = @ \cup {d}] ELSE got
      /\ UNCHANGED <<dir, log, seen, ops>>
  BY Zenon DEF PushNext, PushAnswerLost
<1>7. CASE PushAnswerLost(n)
  BY Zenon, <1>1, <1>2, <1>3, <1>5, <1>6, <1>7 DEF PushAnswerLost
<1>8. CASE PushNext(n)
  <2>1. CASE kind # "Stored"
    <3>1. Goto(n, Idle) /\ pushed' = pushed
      BY Zenon, <1>4, <1>8, <2>1 DEF PushNext
    <3> QED
      BY Zenon, <1>1, <1>2, <1>3, <1>5, <1>6, <3>1
  <2>2. CASE kind = "Stored" /\ k < ChunkCount[d]
    <3>1. Goto(n, NextPut(job[n], NextRun(n))) /\ pushed' = pushed
      BY Zenon, <1>4, <1>8, <2>2 DEF PushNext, NextPut, NextRun
    <3> QED
      BY Zenon, <1>1, <1>2, <1>3, <1>5, <1>6, <2>2, <3>1
  <2>3. CASE kind = "Stored" /\ ~(k < ChunkCount[d])
    <3>1. Goto(n, Idle) /\ pushed' = [pushed EXCEPT ![m] = @ \cup {<<d, job[n].run>>}]
      BY Zenon, <1>4, <1>8, <2>3 DEF PushNext
    <3>2. k = ChunkCount[d]
      BY <1>2, <2>3, ChunkAssumption
    <3> QED
      BY Zenon, <1>1, <1>2, <1>3, <1>5, <1>6, <2>3, <3>1, <3>2
  <2> QED
    BY ZenonT(40), <2>1, <2>2, <2>3
<1> QED
  BY Zenon, <1>7, <1>8

\* What came to a node stays counted.
LEMMA GotGrows ==
  ASSUME Shape, [Next]_vars, NEW x \in Node
  PROVE  got[x] \subseteq got'[x]
<1>1. DOMAIN got = Node
  BY Zenon DEF Shape
<1>2. ASSUME NEW n \in Node, Ask(n) PROVE got[x] \subseteq got'[x]
  BY Zenon, <1>1, <1>2 DEF Ask
<1>3. ASSUME NEW n \in Node, PushNext(n) \/ PushAnswerLost(n) PROVE got[x] \subseteq got'[x]
  BY Zenon, <1>1, <1>3 DEF PushNext, PushAnswerLost
<1>4. CASE UNCHANGED got
  BY Zenon, <1>4
<1>5. ASSUME Next
      PROVE  \/ UNCHANGED got
             \/ \E n \in Node : Ask(n) \/ PushNext(n) \/ PushAnswerLost(n)
  BY ZenonT(60), <1>5 DEF Next, Run, Served, OpenFile, FillFile, PushUnreadable, Refused, Crash, Stop, FallSilent,
              LoadStart, SthServe, LoadFile, Create, Fetch, Push, SthFetch, Start
<1> QED
  BY Zenon, <1>2, <1>3, <1>4, <1>5 DEF vars

\* Commands keep their type when one of them goes on and what came to a node grows.
LEMMA GotoShape ==
  ASSUME Shape, NEW n \in Node, NEW j, Goto(n, j), IsJob(n, j, got'[n]),
         \A x \in Node : got[x] \subseteq got'[x]
  PROVE  DOMAIN job' = Node /\ \A x \in Node : IsJob(x, job'[x], got'[x])
<1>1. DOMAIN job' = Node /\ \A x \in Node : x # n => job'[x] = job[x]
  BY Zenon DEF Shape, Goto
<1>2. job'[n] = j
  BY Zenon DEF Shape, Goto
<1>3. \A x \in Node : IsJob(x, job[x], got[x])
  BY Zenon DEF Shape
<1>4. ASSUME NEW x \in Node PROVE IsJob(x, job[x], got'[x])
  BY Zenon, <1>3 DEF IsJob, IsFetch
<1> QED
  BY Zenon, <1>1, <1>2, <1>4

\* create_drop goes on to its next file.
LEMMA CreateGoesOn ==
  ASSUME NEW n, NEW k, IsCreate(n, k), k.at <= ChunkCount[k.drop],
         NEW j, j = NextFile(k, "open")
  PROVE  /\ IsCreate(n, j)
         /\ j.pc = "open" /\ j.op = "create" /\ j.drop = k.drop /\ j.at = k.at + 1
<1>1. PICK h : h = [k EXCEPT !.pc = "open"]
  BY Zenon
<1>2. j = [h EXCEPT !.at = k.at + 1]
  BY Zenon, <1>1 DEF NextFile
<1>3. /\ h \in [pc : {"open", "fill"}, op : {"create"}, drop : Id, at : Nat \ {0}, data : {"whole"}]
      /\ h.pc = "open" /\ h.drop = k.drop /\ h.at = k.at
  BY Zenon, <1>1 DEF IsCreate
<1> QED
  BY <1>2, <1>3, ChunkAssumption DEF IsCreate

\* fetch goes on to its next request.
LEMMA FetchGoesOn ==
  ASSUME NEW n, NEW k, NEW given, IsFetch(n, k, given), k.pc = "fill", k.at <= ChunkCount[k.drop],
         NEW j, j = NextFile(k, "ask")
  PROVE  /\ IsFetch(n, j, given)
         /\ j.pc = "ask" /\ j.op = "fetch" /\ j.drop = k.drop /\ j.at = k.at + 1 /\ j.peer = k.peer
<1>1. PICK h : h = [k EXCEPT !.pc = "ask"]
  BY Zenon
<1>2. j = [h EXCEPT !.at = k.at + 1]
  BY Zenon, <1>1 DEF NextFile
<1>3. /\ h \in [pc : {"ask", "open", "fill"}, op : {"fetch"}, drop : Id, at : Nat \ {0},
                peer : Node, data : {"torn", "whole"}]
      /\ h.pc = "ask" /\ h.drop = k.drop /\ h.peer = k.peer /\ h.at = k.at
  BY Zenon, <1>1 DEF IsFetch
<1> QED
  BY <1>2, <1>3, ChunkAssumption DEF IsFetch, Answered

\* push goes on to its next file.
LEMMA PushGoesOn ==
  ASSUME NEW n, NEW k, IsPush(n, k), k.at < ChunkCount[k.drop], NEW r \in 0..MaxFaults,
         NEW j, j = NextPut(k, r)
  PROVE  /\ IsPush(n, j)
         /\ j.pc = "put" /\ j.drop = k.drop /\ j.at = k.at + 1 /\ j.peer = k.peer /\ j.run = r
<1>1. PICK h : h = [k EXCEPT !.at = k.at + 1]
  BY Zenon
<1>2. j = [h EXCEPT !.run = r]
  BY Zenon, <1>1 DEF NextPut
<1>3. IsPush(n, h) /\ h.drop = k.drop /\ h.at = k.at + 1 /\ h.peer = k.peer
  BY <1>1, ChunkAssumption DEF IsPush
<1> QED
  BY Zenon, <1>2, <1>3, ChunkAssumption DEF IsPush

\* n writes v to its file f.
Writes(n, f, v) ==
  /\ dir' \in [Node -> [File -> {"absent", "torn", "whole"}]]
  /\ dir'[n][f] = v
  /\ \A x \in Node, g \in File : x # n \/ g # f => dir'[x][g] = dir[x][g]

\* The job that follows a file that was written.
LEMMA FillStep ==
  ASSUME Shape, NEW n \in Node, FillFile(n), NEW j, j = job[n]
  PROVE  /\ IsCreate(n, j) \/ IsFetch(n, j, got[n])
         /\ \/ /\ j.at <= ChunkCount[j.drop]
               /\ UNCHANGED log
               /\ IsCreate(n, j) =>
                    /\ IsCreate(n, job'[n])
                    /\ job'[n].pc = "open" /\ job'[n].op = "create"
                    /\ job'[n].drop = j.drop /\ job'[n].at = j.at + 1
               /\ IsFetch(n, j, got[n]) =>
                    /\ IsFetch(n, job'[n], got[n])
                    /\ job'[n].pc = "ask" /\ job'[n].op = "fetch"
                    /\ job'[n].drop = j.drop /\ job'[n].at = j.at + 1 /\ job'[n].peer = j.peer
            \/ /\ j.at = ChunkCount[j.drop] + 1
               /\ job'[n] = Idle
               /\ log' = [log EXCEPT ![n] = Append(@, j.drop)]
         /\ DOMAIN job' = Node /\ \A x \in Node : x # n => job'[x] = job[x]
         /\ dir' = [dir EXCEPT ![n][Current(n)] = j.data]
         /\ UNCHANGED <<server, seen, pushed, got, ops, faults>>
<1>1. (IsCreate(n, j) \/ IsFetch(n, j, got[n])) /\ j.pc = "fill"
  BY Zenon, JobKinds DEF FillFile
<1>2. j.drop \in Id /\ j.at \in Nat /\ ChunkCount[j.drop] \in Nat /\ j.at <= ChunkCount[j.drop] + 1
  BY Zenon, <1>1, ChunkAssumption DEF IsCreate, IsFetch
<1>3. DOMAIN job = Node
  BY Zenon DEF Shape
<1>4. /\ DOMAIN job' = Node /\ \A x \in Node : x # n => job'[x] = job[x]
      /\ dir' = [dir EXCEPT ![n][Current(n)] = j.data]
      /\ UNCHANGED <<server, seen, pushed, got, ops, faults>>
  BY Zenon, <1>3 DEF FillFile, Goto
<1>5. CASE j.at <= ChunkCount[j.drop]
  <2>1. job'[n] = NextFile(j, IF j.op = "fetch" THEN "ask" ELSE "open") /\ UNCHANGED log
    BY Zenon, <1>3, <1>5 DEF FillFile, Goto, NextFile
  <2>2. CASE IsCreate(n, j)
    <3>1. j.op = "create"
      BY Zenon, <2>2 DEF IsCreate
    <3>2. job'[n] = NextFile(j, "open")
      BY Zenon, <2>1, <3>1
    <3>3. ~IsFetch(n, j, got[n])
      BY Zenon, <3>1 DEF IsFetch
    <3>4. /\ IsCreate(n, job'[n])
          /\ job'[n].pc = "open" /\ job'[n].op = "create"
          /\ job'[n].drop = j.drop /\ job'[n].at = j.at + 1
      <4>1. PICK h : h = job'[n]
        BY Zenon
      <4> QED
        BY <1>5, <2>2, <3>2, <4>1, CreateGoesOn
    <3> QED
      BY Zenon, <1>4, <1>5, <2>1, <2>2, <3>3, <3>4
  <2>3. CASE IsFetch(n, j, got[n])
    <3>1. j.op = "fetch"
      BY Zenon, <2>3 DEF IsFetch
    <3>2. job'[n] = NextFile(j, "ask")
      BY Zenon, <2>1, <3>1
    <3>3. ~IsCreate(n, j)
      BY Zenon, <3>1 DEF IsCreate
    <3>4. /\ IsFetch(n, job'[n], got[n])
          /\ job'[n].pc = "ask" /\ job'[n].op = "fetch"
          /\ job'[n].drop = j.drop /\ job'[n].at = j.at + 1 /\ job'[n].peer = j.peer
      <4>1. PICK h, given : h = job'[n] /\ given = got[n]
        BY Zenon
      <4> QED
        BY <1>1, <1>5, <2>3, <3>2, <4>1, FetchGoesOn
    <3> QED
      BY Zenon, <1>4, <1>5, <2>1, <2>3, <3>3, <3>4
  <2> QED
    BY Zenon, <1>1, <2>2, <2>3
<1>6. CASE ~(j.at <= ChunkCount[j.drop])
  <2>1. job'[n] = Idle /\ log' = [log EXCEPT ![n] = Append(@, j.drop)]
    BY Zenon, <1>3, <1>6 DEF FillFile, Goto
  <2>2. j.at = ChunkCount[j.drop] + 1
    BY <1>2, <1>6
  <2> QED
    BY Zenon, <1>1, <1>4, <2>1, <2>2
<1> QED
  BY Zenon, <1>5, <1>6

\* Commands keep their type.
LEMMA JobShape ==
  ASSUME Shape, [Next]_vars
  PROVE  DOMAIN job' = Node /\ \A x \in Node : IsJob(x, job'[x], got'[x])
<1>1. \A x \in Node : got[x] \subseteq got'[x]
  BY Zenon, GotGrows
<1>2. CASE UNCHANGED job
  BY Zenon, <1>1, <1>2 DEF Shape, IsJob, IsFetch
<1>3. ASSUME NEW n \in Node, NEW j, Goto(n, j), IsJob(n, j, got'[n])
      PROVE  DOMAIN job' = Node /\ \A x \in Node : IsJob(x, job'[x], got'[x])
  BY Zenon, <1>1, <1>3, GotoShape
<1>4. ASSUME NEW n \in Node, Goto(n, Idle)
      PROVE  DOMAIN job' = Node /\ \A x \in Node : IsJob(x, job'[x], got'[x])
  BY Zenon, <1>3, <1>4 DEF IsJob
<1>5. ASSUME NEW n \in Node, NEW d \in Id, Create(n, d)
      PROVE  \E j : Goto(n, j) /\ IsJob(n, j, got'[n])
  BY SMTT(30), <1>5, ChunkAssumption DEF Create, Start, IsJob, IsCreate
<1>6. ASSUME NEW n \in Node, NEW m \in Node, NEW d \in Id, Fetch(n, m, d)
      PROVE  \E j : Goto(n, j) /\ IsJob(n, j, got'[n])
  BY SMTT(30), <1>6, ChunkAssumption DEF Fetch, Start, IsJob, IsFetch, Answered
<1>7. ASSUME NEW n \in Node, NEW m \in Node, NEW d \in Id, Push(n, m, d)
      PROVE  \E j : Goto(n, j) /\ IsJob(n, j, got'[n])
  BY <1>7, ChunkAssumption, BoundAssumption DEF Push, Start, IsJob, IsPush
<1>8. ASSUME NEW n \in Node, OpenFile(n)
      PROVE  \E j : Goto(n, j) /\ IsJob(n, j, got'[n])
  <2>1. PICK k : k = job[n]
    BY Zenon
  <2>2. IsCreate(n, k) \/ IsFetch(n, k, got'[n])
    BY Zenon, <1>8, <2>1, JobKinds DEF OpenFile
  <2>3. k.pc = "open" /\ Goto(n, [k EXCEPT !.pc = "fill"])
    BY Zenon, <1>8, <2>1 DEF OpenFile
  <2>4. IsCreate(n, [k EXCEPT !.pc = "fill"]) \/ IsFetch(n, [k EXCEPT !.pc = "fill"], got'[n])
    BY Zenon, <2>2, <2>3 DEF IsCreate, IsFetch, Answered
  <2> QED
    BY Zenon, <2>3, <2>4 DEF IsJob
<1>9. ASSUME NEW n \in Node, FillFile(n)
      PROVE  DOMAIN job' = Node /\ \A x \in Node : IsJob(x, job'[x], got'[x])
  <2>1. PICK j : j = job[n]
    BY Zenon
  <2>2. /\ DOMAIN job' = Node /\ \A x \in Node : x # n => job'[x] = job[x]
        /\ IsJob(n, job'[n], got'[n])
        /\ got' = got
    BY Zenon, <1>9, <2>1, FillStep DEF IsJob
  <2> QED
    BY Zenon, <2>2 DEF Shape
<1>10. ASSUME NEW n \in Node, Ask(n)
       PROVE  \E j : Goto(n, j) /\ IsJob(n, j, got'[n])
  <2>1. PICK m, d, k, c : m = job[n].peer /\ d = job[n].drop /\ k = job[n].at /\ c = Given(n)
    BY Zenon
  <2>2. /\ m \in Node /\ m # n /\ d \in Id /\ k \in Nat \ {0} /\ k <= ChunkCount[d] + 1
        /\ Listening(m)
    BY Zenon, <1>10, <2>1, AskStep DEF IsFetch
  <2>3. c \in {"absent", "torn", "whole"}
    BY Zenon, <2>1, <2>2, Contents
  <2>4. CASE c = "absent"
    BY Zenon, <1>10, <2>1, <2>4, AskStep DEF IsJob
  <2>5. CASE c # "absent"
    <3>1. PICK j : j = [pc |-> "open", op |-> "fetch", drop |-> d, at |-> k, peer |-> m, data |-> c]
      BY Zenon
    <3>2. Goto(n, j) /\ got' = [got EXCEPT ![n] = @ \cup {d}]
      BY Zenon, <1>10, <2>1, <2>5, <3>1, AskStep
    <3>3. d \in got'[n]
      BY Zenon, <3>2 DEF Shape
    <3>4. IsFetch(n, j, got'[n])
      BY Zenon, <2>2, <2>3, <2>5, <3>1, <3>3 DEF IsFetch
    <3> QED
      BY Zenon, <3>2, <3>4 DEF IsJob
  <2> QED
    BY Zenon, <2>4, <2>5
<1>11. ASSUME NEW n \in Node, PushNext(n)
       PROVE  \E j : Goto(n, j) /\ IsJob(n, j, got'[n])
  <2>1. PICK q, r : q = job[n] /\ r = NextRun(n)
    BY Zenon
  <2>2. IsPush(n, q) /\ q.peer \in Node
    BY Zenon, <1>11, <2>1, PushStep DEF IsPush
  <2>3. CASE Goto(n, Idle)
    BY Zenon, <2>3 DEF IsJob
  <2>4. CASE ~Goto(n, Idle)
    <3>1. server[q.peer].kind = "storage" /\ q.at < ChunkCount[q.drop] /\ Goto(n, NextPut(q, r))
      BY Zenon, <1>11, <2>1, <2>4, PushStep
    <3>2. r \in 0..MaxFaults
      BY Zenon, <2>1, <2>2, <3>1, ServerKinds DEF IsPush, NextRun
    <3>3. IsPush(n, NextPut(q, r))
      BY Zenon, <2>2, <3>1, <3>2, PushGoesOn
    <3> QED
      BY Zenon, <3>1, <3>3 DEF IsJob
  <2> QED
    BY Zenon, <2>3, <2>4
<1>12. ASSUME NEW n \in Node, PushUnreadable(n) \/ Refused(n) \/ Crash(n) \/ PushAnswerLost(n)
       PROVE  Goto(n, Idle)
  BY Zenon, <1>12 DEF PushUnreadable, Refused, Crash, PushAnswerLost
<1>13. ASSUME NEW n \in Node,
              \/ Stop(n) \/ FallSilent(n) \/ LoadStart(n) \/ SthServe(n)
              \/ \E f \in File : LoadFile(n, f)
              \/ \E m \in Node : SthFetch(n, m)
       PROVE  UNCHANGED job
  BY Zenon, <1>13 DEF Stop, FallSilent, LoadStart, SthServe, LoadFile, SthFetch
<1>14. CASE UNCHANGED vars
  BY Zenon, <1>2, <1>14 DEF vars
<1>15. ASSUME Next
       PROVE  \/ UNCHANGED job
              \/ \E n \in Node : FillFile(n)
              \/ \E n \in Node : \E j : Goto(n, j) /\ IsJob(n, j, got'[n])
  BY Zenon, <1>5, <1>6, <1>7, <1>8, <1>10, <1>11, <1>12, <1>13, <1>15 DEF Next, Run, Served, IsJob
<1> QED
  BY Zenon, <1>2, <1>3, <1>9, <1>14, <1>15

\* t is what reading file i of drop d with this content makes of the store s.
IsLoaded(s, t, d, i, content) ==
  /\ IsStore(t)
  /\ content = "absent" => t = s
  /\ content # "absent" /\ i = 0 => DropAdded(s, t, IF content = "whole" THEN d ELSE Torn)
  /\ content # "absent" /\ i > 0 => ChunkAdded(s, t, d, i - 1, content)

\* What load_store makes of one file.
LEMMA LoadedIs ==
  ASSUME NEW s, IsStore(s), NEW d, NEW i \in Nat, NEW content \in {"absent", "torn", "whole"}
  PROVE  IsLoaded(s, Loaded(s, <<d, i>>, content), d, i, content)
<1>1. PICK t : t = Loaded(s, <<d, i>>, content)
  BY Zenon
<1>2. CASE content = "absent"
  BY Zenon, <1>1, <1>2 DEF Loaded, IsLoaded
<1>3. CASE content # "absent" /\ i = 0
  <2>1. PICK raw : raw = IF content = "whole" THEN d ELSE Torn
    BY Zenon
  <2>2. t = put_drop(s, raw, raw)
    BY <1>1, <1>3, <2>1 DEF Loaded, DropIdOf
  <2>3. DropAdded(s, t, raw)
    BY Zenon, <2>2, PutDropAdds
  <2> QED
    BY <1>1, <1>3, <2>1, <2>3 DEF IsLoaded, DropAdded
<1>4. CASE content # "absent" /\ i > 0
  <2>1. PICK k : k = i - 1
    BY Zenon
  <2>2. t = put_chunk(s, d, k, content)
    BY <1>1, <1>4, <2>1 DEF Loaded
  <2>3. ChunkAdded(s, t, d, k, content)
    BY Zenon, <1>4, <2>2, PutChunkAdds
  <2>4. IsStore(t)
    BY Zenon, <2>3 DEF ChunkAdded
  <2> QED
    BY <1>1, <1>4, <2>1, <2>3, <2>4 DEF IsLoaded
<1> QED
  BY <1>2, <1>3, <1>4

\* The files under chunks/.
ChunkFiles == {f \in File : f[2] > 0}

\* load_store goes on with its list, from the envelopes to the chunks, or serves.
LoadGoesOn(n, f, s, t) ==
  /\ s.kind = "loading" /\ f \in s.todo
  /\ DOMAIN server' = Node /\ \A x \in Node : x # n => server'[x] = server[x]
  /\ \/ /\ s.todo \ {f} = {} /\ f[2] > 0
        /\ server'[n] = [kind |-> "storage", run |-> s.run, store |-> t]
     \/ /\ s.todo \ {f} = {} /\ f[2] = 0
        /\ server'[n] = [kind |-> "loading", run |-> s.run, store |-> t, todo |-> ChunkFiles]
     \/ /\ s.todo \ {f} # {}
        /\ server'[n] = [kind |-> "loading", run |-> s.run, store |-> t, todo |-> s.todo \ {f}]

\* load_store reads a file.
LEMMA LoadStep ==
  ASSUME Shape, NEW n \in Node, NEW f \in File, LoadFile(n, f),
         NEW s, s = server[n], NEW t, t = Loaded(s.store, f, dir[n][f])
  PROVE  LoadGoesOn(n, f, s, t)
<1>1. s.kind = "loading" /\ f \in s.todo
  BY Zenon DEF LoadFile
<1>2. s = [kind |-> "loading", run |-> s.run, store |-> s.store, todo |-> s.todo]
  BY Zenon, <1>1, ServerKinds
<1>3. DOMAIN server = Node
  BY Zenon DEF Shape
<1>4. PICK left, todo : left = s.todo \ {f} /\ todo = IF left = {} THEN ChunkFiles ELSE left
  BY Zenon
<1>5. PICK h : h = [s EXCEPT !.store = t]
  BY Zenon
<1>6. h = [kind |-> "loading", run |-> s.run, store |-> t, todo |-> s.todo]
  BY <1>2, <1>5
<1>7. server' = [server EXCEPT ![n] =
        IF left = {} /\ f[2] > 0 THEN [kind |-> "storage", run |-> s.run, store |-> t]
        ELSE [s EXCEPT !.store = t, !.todo = todo]]
  BY Zenon, <1>4 DEF LoadFile, ChunkFiles
<1>8. [s EXCEPT !.store = t, !.todo = todo] = [h EXCEPT !.todo = todo]
  BY Zenon, <1>5
<1>9. [h EXCEPT !.todo = todo] = [kind |-> "loading", run |-> s.run, store |-> t, todo |-> todo]
  BY <1>6
<1>10. server' = [server EXCEPT ![n] =
         IF left = {} /\ f[2] > 0 THEN [kind |-> "storage", run |-> s.run, store |-> t]
         ELSE [kind |-> "loading", run |-> s.run, store |-> t, todo |-> todo]]
  BY Zenon, <1>7, <1>8, <1>9
<1>11. f[2] > 0 \/ f[2] = 0
  BY FileIs
<1> QED
  BY Zenon, <1>1, <1>3, <1>4, <1>10, <1>11 DEF LoadGoesOn

\* Servers keep their type.
LEMMA ServerShape ==
  ASSUME Shape, [Next]_vars
  PROVE  DOMAIN server' = Node /\ \A x \in Node : IsServer(server'[x])
<1>1. DOMAIN server = Node /\ \A x \in Node : IsServer(server[x])
  BY Zenon DEF Shape
<1>2. faults \in 0..MaxFaults
  BY Zenon DEF Shape
<1>3. ASSUME NEW n \in Node, LoadStart(n)
      PROVE  DOMAIN server' = Node /\ \A x \in Node : IsServer(server'[x])
  <2>1. PICK s : s = [kind |-> "loading", run |-> faults, store |-> EmptyStore,
                      todo |-> {f \in File : f[2] = 0}]
    BY Zenon
  <2>2. IsStore(EmptyStore)
    BY DEF IsStore, EmptyStore
  <2>3. IsServer(s)
    BY Zenon, <1>2, <2>1, <2>2 DEF IsServer
  <2>4. server' = [server EXCEPT ![n] = s]
    BY Zenon, <1>3, <2>1 DEF LoadStart
  <2> QED
    BY Zenon, <1>1, <2>3, <2>4
<1>4. ASSUME NEW n \in Node, SthServe(n)
      PROVE  DOMAIN server' = Node /\ \A x \in Node : IsServer(server'[x])
  <2>1. PICK h \in {log[n], <<>>} :
          server' = [server EXCEPT ![n] = [kind |-> "sth", run |-> faults, store |-> h]]
    BY Zenon, <1>4 DEF SthServe
  <2>2. h \in Seq(Id)
    <3>1. log[n] \in Seq(Id)
      BY Zenon DEF Shape
    <3>2. <<>> \in Seq(Id)
      OBVIOUS
    <3> QED
      BY Zenon, <3>1, <3>2
  <2>3. PICK s : s = [kind |-> "sth", run |-> faults, store |-> h]
    BY Zenon
  <2>4. IsServer(s) /\ server' = [server EXCEPT ![n] = s]
    BY Zenon, <1>2, <2>1, <2>2, <2>3 DEF IsServer
  <2> QED
    BY Zenon, <1>1, <2>4
<1>5. ASSUME NEW n \in Node, Stop(n) \/ FallSilent(n)
      PROVE  DOMAIN server' = Node /\ \A x \in Node : IsServer(server'[x])
  BY ZenonT(40), <1>1, <1>5 DEF Stop, FallSilent, IsServer
<1>6. ASSUME NEW n \in Node, NEW f \in File, LoadFile(n, f)
      PROVE  DOMAIN server' = Node /\ \A x \in Node : IsServer(server'[x])
  <2>1. PICK s, t : s = server[n] /\ t = Loaded(s.store, f, dir[n][f])
    BY Zenon
  <2>0. LoadGoesOn(n, f, s, t)
    BY Zenon, <1>6, <2>1, LoadStep
  <2>2. /\ s.kind = "loading" /\ f \in s.todo
        /\ DOMAIN server' = Node /\ \A x \in Node : x # n => server'[x] = server[x]
        /\ \/ /\ s.todo \ {f} = {} /\ f[2] > 0
              /\ server'[n] = [kind |-> "storage", run |-> s.run, store |-> t]
           \/ /\ s.todo \ {f} = {} /\ f[2] = 0
              /\ server'[n] = [kind |-> "loading", run |-> s.run, store |-> t, todo |-> ChunkFiles]
           \/ /\ s.todo \ {f} # {}
              /\ server'[n] = [kind |-> "loading", run |-> s.run, store |-> t, todo |-> s.todo \ {f}]
    BY Zenon, <2>0 DEF LoadGoesOn
  <2>3. /\ s.run \in 0..MaxFaults /\ IsStore(s.store) /\ s.todo \subseteq File
        /\ (\A g \in s.todo : g[2] = 0) \/ (\A g \in s.todo : g[2] > 0)
    BY ZenonT(40), <2>1, <2>2, ServerKinds
  <2>4. dir[n][f] \in {"absent", "torn", "whole"}
    BY DEF Shape
  <2>5. IsStore(t)
    <3>1. PICK d \in Id, i \in Nat : f = <<d, i>>
      BY Zenon, FileIs
    <3>2. PICK q, content : q = s.store /\ content = dir[n][f]
      BY Zenon
    <3>3. IsLoaded(q, t, d, i, content)
      BY Zenon, <2>1, <2>3, <2>4, <3>1, <3>2, LoadedIs
    <3> QED
      BY Zenon, <3>3 DEF IsLoaded
  <2>6. IsServer(server'[n])
    BY <2>2, <2>3, <2>5 DEF IsServer, ChunkFiles
  <2> QED
    BY Zenon, <1>1, <2>2, <2>6
<1>7. ASSUME NEW n \in Node, PushNext(n) \/ PushAnswerLost(n)
      PROVE  DOMAIN server' = Node /\ \A x \in Node : IsServer(server'[x])
  BY Zenon, <1>1, <1>7, PushStep DEF PushEffect
<1>8. CASE UNCHANGED server
  BY Zenon, <1>1, <1>8
<1>9. ASSUME Next
      PROVE  \/ UNCHANGED server
             \/ \E n \in Node : \/ LoadStart(n) \/ SthServe(n) \/ Stop(n) \/ FallSilent(n)
                                \/ \E f \in File : LoadFile(n, f)
                                \/ PushNext(n) \/ PushAnswerLost(n)
  BY ZenonT(40), <1>9 DEF Next, Run, Served, OpenFile, FillFile, Ask, PushUnreadable, Refused, Crash,
              Create, Fetch, Push, SthFetch, Start
<1> QED
  BY Zenon, <1>3, <1>4, <1>5, <1>6, <1>7, <1>8, <1>9 DEF vars


-----------------------------------------------------------------------------
(* Steps, variable by variable *)

\* What a node's command and directory are after a step: as before, or one of its own
\* commands has gone on.
LEMMA DirSteps ==
  ASSUME [Next]_vars, NEW x \in Node, Shape
  PROVE  OpenFile(x) \/ FillFile(x) \/ dir'[x] = dir[x]
<1>1. DOMAIN dir = Node
  BY Zenon DEF Shape
<1>2. ASSUME NEW n \in Node, OpenFile(n) \/ FillFile(n), n # x
      PROVE  dir'[x] = dir[x]
  BY Zenon, <1>1, <1>2 DEF OpenFile, FillFile
<1>3. ASSUME Next
      PROVE  UNCHANGED dir \/ \E n \in Node : OpenFile(n) \/ FillFile(n)
  BY ZenonT(40), <1>3 DEF Next, Run, Served, Ask, PushNext, PushUnreadable, Refused, Crash, Stop, FallSilent, PushAnswerLost,
              LoadStart, SthServe, LoadFile, Create, Fetch, Push, SthFetch, Start
<1> QED
  BY Zenon, <1>2, <1>3 DEF vars

\* A command that writes a file writes it for a drop made here or given to this node.
LEMMA WriterHas ==
  ASSUME Shape, NEW n \in Node, job[n].pc \in {"open", "fill"}
  PROVE  /\ job[n].op = "create" => IsCreate(n, job[n]) /\ Origin[job[n].drop] = n
         /\ job[n].op # "create" => IsFetch(n, job[n], got[n]) /\ job[n].drop \in got[n]
<1>1. PICK j : j = job[n]
  BY Zenon
<1>2. IsCreate(n, j) \/ IsFetch(n, j, got[n])
  BY Zenon, <1>1, JobKinds
<1> QED
  BY Zenon, <1>1, <1>2 DEF IsCreate, IsFetch, Answered

\* The write that opens or fills a file changes this file only.
LEMMA WriteStep ==
  ASSUME Shape, NEW n \in Node, OpenFile(n) \/ FillFile(n)
  PROVE  /\ job[n].pc \in {"open", "fill"}
         /\ OpenFile(n) => Writes(n, Current(n), "torn")
         /\ FillFile(n) => Writes(n, Current(n), job[n].data)
         /\ job[n].data \in {"torn", "whole"}
         /\ Current(n) \in File
<1>1. job[n].pc \in {"open", "fill"}
  BY Zenon DEF OpenFile, FillFile
<1>2. Current(n) \in File
  BY Zenon, <1>1, CurrentIs
<1>3. job[n].data \in {"torn", "whole"}
  BY Zenon, <1>1, WriterHas DEF IsCreate, IsFetch
<1>4. PICK v : v = IF OpenFile(n) THEN "torn" ELSE job[n].data
  BY Zenon
<1>5. dir' = [dir EXCEPT ![n][Current(n)] = v]
  BY Zenon, <1>4 DEF OpenFile, FillFile
<1>6. PICK f : f = Current(n)
  BY Zenon
<1>7. Writes(n, f, v)
  BY Zenon, <1>2, <1>3, <1>4, <1>5, <1>6 DEF Writes, Shape
<1>8. OpenFile(n) => ~FillFile(n)
  BY Zenon DEF OpenFile, FillFile
<1> QED
  BY Zenon, <1>1, <1>2, <1>3, <1>4, <1>6, <1>7, <1>8

\* Reading file f into the store of server n.
Reads(n, f) ==
  /\ f \in File /\ LoadFile(n, f)
  /\ server[n].kind = "loading" /\ f \in server[n].todo
  /\ IsLoaded(server[n].store, server'[n].store, f[1], f[2], dir[n][f])
  /\ server'[n].run = server[n].run
  /\ \/ /\ server[n].todo \ {f} = {} /\ f[2] > 0
        /\ server'[n].kind = "storage"
     \/ /\ server[n].todo \ {f} = {} /\ f[2] = 0
        /\ server'[n].kind = "loading" /\ server'[n].todo = ChunkFiles
     \/ /\ server[n].todo \ {f} # {}
        /\ server'[n].kind = "loading" /\ server'[n].todo = server[n].todo \ {f}
  /\ UNCHANGED <<dir, got, faults>>

\* A push has put something of e into the store of server n.
Receives(n, e) ==
  /\ server[n].kind = "storage" /\ server'[n].kind = "storage"
  /\ server'[n].run = server[n].run
  /\ Adds(server[n].store, server'[n].store, e)
  /\ e \in got'[n]

\* sth_serve starts with the log as it is, or with nothing.
Signs(n) ==
  /\ UNCHANGED <<log, seen>>
  /\ server'[n].kind = "sth" /\ server'[n].run = faults
  /\ server'[n].store = log[n] \/ server'[n].store = <<>>

\* A server stops or falls silent.
Ends(n) == server'[n] \in {Down, Mute} /\ faults' = faults + 1

\* What a step does to the server of a node.
ServerStep(n) ==
  \/ server'[n] = server[n]
  \/ LoadStart(n) /\ server[n] = Down /\ server'[n] =
       [kind |-> "loading", run |-> faults, store |-> EmptyStore, todo |-> {f \in File : f[2] = 0}]
  \/ server[n] = Down /\ Signs(n)
  \/ Ends(n)
  \/ \E f \in File : Reads(n, f)
  \/ \E e \in Id : Receives(n, e)

\* Reading a file, seen from the server that reads it.
LEMMA ReadStep ==
  ASSUME Shape, NEW n \in Node, NEW f \in File, LoadFile(n, f)
  PROVE  Reads(n, f) /\ \A x \in Node : x # n => server'[x] = server[x]
<1>1. PICK s, t : s = server[n] /\ t = Loaded(s.store, f, dir[n][f])
  BY Zenon
<1>0. LoadGoesOn(n, f, s, t)
  BY Zenon, <1>1, LoadStep
<1>2. /\ s.kind = "loading" /\ f \in s.todo
      /\ DOMAIN server' = Node /\ \A x \in Node : x # n => server'[x] = server[x]
      /\ \/ /\ s.todo \ {f} = {} /\ f[2] > 0
            /\ server'[n] = [kind |-> "storage", run |-> s.run, store |-> t]
         \/ /\ s.todo \ {f} = {} /\ f[2] = 0
            /\ server'[n] = [kind |-> "loading", run |-> s.run, store |-> t, todo |-> ChunkFiles]
         \/ /\ s.todo \ {f} # {}
            /\ server'[n] = [kind |-> "loading", run |-> s.run, store |-> t, todo |-> s.todo \ {f}]
  BY Zenon, <1>0 DEF LoadGoesOn
<1>3. UNCHANGED <<dir, job, log, seen, pushed, got, ops, faults>>
  BY Zenon DEF LoadFile
<1>4. PICK d \in Id, i \in Nat : f = <<d, i>> /\ f[1] = d /\ f[2] = i
  BY Zenon, FileIs
<1>5. PICK q, content : q = s.store /\ content = dir[n][f]
  BY Zenon
<1>6. IsStore(q) /\ content \in {"absent", "torn", "whole"}
  BY SMTT(40), <1>1, <1>2, <1>5, ServerKinds DEF Shape
<1>7. IsLoaded(q, t, d, i, content)
  BY SMTT(30), <1>1, <1>4, <1>5, <1>6, LoadedIs
<1>8. server'[n].store = t /\ server'[n].run = s.run
  BY <1>2
<1>9. IsLoaded(server[n].store, server'[n].store, f[1], f[2], dir[n][f])
  BY Zenon, <1>1, <1>4, <1>5, <1>7, <1>8
<1>10. \/ /\ server[n].todo \ {f} = {} /\ f[2] > 0
          /\ server'[n].kind = "storage"
       \/ /\ server[n].todo \ {f} = {} /\ f[2] = 0
          /\ server'[n].kind = "loading" /\ server'[n].todo = ChunkFiles
       \/ /\ server[n].todo \ {f} # {}
          /\ server'[n].kind = "loading" /\ server'[n].todo = server[n].todo \ {f}
  BY <1>1, <1>2
<1> QED
  BY Zenon, <1>1, <1>2, <1>3, <1>8, <1>9, <1>10 DEF Reads

\* A push, seen from the server it sends to.
LEMMA ReceiveStep ==
  ASSUME Shape, NEW n \in Node, PushNext(n) \/ PushAnswerLost(n), NEW x \in Node
  PROVE  server'[x] = server[x] \/ \E e \in Id : Receives(x, e)
<1>1. PICK m, d : m = job[n].peer /\ d = job[n].drop
  BY Zenon
<1>2. /\ m \in Node /\ d \in Id /\ Listening(m) /\ PushEffect(m, d)
      /\ got' = IF server[m].kind = "storage" THEN [got EXCEPT ![m] = @ \cup {d}] ELSE got
  BY Zenon, <1>1, PushStep DEF IsPush
<1>3. CASE x # m \/ server[m].kind = "sth"
  BY Zenon, <1>2, <1>3 DEF PushEffect
<1>4. CASE x = m /\ server[m].kind = "storage"
  <2>1. DOMAIN got = Node
    BY Zenon DEF Shape
  <2>2. d \in got'[m]
    BY Zenon, <1>2, <1>4, <2>1
  <2> QED
    BY Zenon, <1>2, <1>4, <2>2 DEF PushEffect, Receives
<1> QED
  BY Zenon, <1>2, <1>3, <1>4 DEF Listening

\* Every step does one of these things to a server.
LEMMA ServerSteps ==
  ASSUME Shape, [Next]_vars, NEW x \in Node
  PROVE  ServerStep(x)
<1>1. DOMAIN server = Node
  BY Zenon DEF Shape
<1>2. ASSUME NEW n \in Node, LoadStart(n) PROVE ServerStep(x)
  <2>1. x # n => server'[x] = server[x]
    BY Zenon, <1>1, <1>2 DEF LoadStart
  <2>2. server[n] = Down /\ server'[n] =
          [kind |-> "loading", run |-> faults, store |-> EmptyStore, todo |-> {f \in File : f[2] = 0}]
    BY Zenon, <1>1, <1>2 DEF LoadStart
  <2> QED
    BY Zenon, <1>2, <2>1, <2>2 DEF ServerStep
<1>3. ASSUME NEW n \in Node, SthServe(n) PROVE ServerStep(x)
  <2>1. x # n => server'[x] = server[x]
    BY Zenon, <1>1, <1>3 DEF SthServe
  <2>2. server[n] = Down /\ UNCHANGED <<log, seen>>
    BY Zenon, <1>3 DEF SthServe
  <2>3. PICK h \in {log[n], <<>>} : server'[n] = [kind |-> "sth", run |-> faults, store |-> h]
    BY Zenon, <1>1, <1>3 DEF SthServe
  <2>4. Signs(n)
    BY <2>2, <2>3 DEF Signs
  <2> QED
    BY Zenon, <2>1, <2>2, <2>4 DEF ServerStep
<1>4. ASSUME NEW n \in Node, Stop(n) \/ FallSilent(n) PROVE ServerStep(x)
  <2>1. x # n => server'[x] = server[x]
    BY Zenon, <1>1, <1>4 DEF Stop, FallSilent
  <2>2. Ends(n)
    BY Zenon, <1>1, <1>4 DEF Stop, FallSilent, Fault, Ends
  <2> QED
    BY Zenon, <2>1, <2>2 DEF ServerStep
<1>5. ASSUME NEW n \in Node, NEW f \in File, LoadFile(n, f) PROVE ServerStep(x)
  BY Zenon, <1>5, ReadStep DEF ServerStep
<1>6. ASSUME NEW n \in Node, PushNext(n) \/ PushAnswerLost(n) PROVE ServerStep(x)
  BY Zenon, <1>6, ReceiveStep DEF ServerStep
<1>7. CASE UNCHANGED server
  BY Zenon, <1>7 DEF ServerStep
<1>8. ASSUME Next
      PROVE  \/ UNCHANGED server
             \/ \E n \in Node : \/ LoadStart(n) \/ SthServe(n) \/ Stop(n) \/ FallSilent(n)
                                \/ \E f \in File : LoadFile(n, f)
                                \/ PushNext(n) \/ PushAnswerLost(n)
  BY ZenonT(40), <1>8 DEF Next, Run, Served, OpenFile, FillFile, Ask, PushUnreadable, Refused, Crash,
              Create, Fetch, Push, SthFetch, Start
<1> QED
  BY Zenon, <1>2, <1>3, <1>4, <1>5, <1>6, <1>7, <1>8 DEF vars

\* What a step does to the command of a node.
JobStep(n) ==
  \/ job'[n] = job[n] /\ dir'[n] = dir[n] /\ log'[n] = log[n]
  \/ /\ job'[n] = Idle /\ dir'[n] = dir[n] /\ log'[n] = log[n]
     /\ faults' = 0 => job[n].pc \notin {"open", "fill"}
  \/ OpenFile(n) \/ FillFile(n) \/ Ask(n) \/ PushNext(n)
  \/ \E d \in Id : Create(n, d)
  \/ \E m \in Node, d \in Id : Fetch(n, m, d) \/ Push(n, m, d)

\* Every step does one of these things to a node's command.
LEMMA JobSteps ==
  ASSUME Shape, [Next]_vars, NEW x \in Node
  PROVE  JobStep(x)
<1>1. DOMAIN dir = Node /\ DOMAIN job = Node /\ DOMAIN log = Node /\ faults \in Nat
  BY BoundAssumption DEF Shape
<1>2. ASSUME NEW n \in Node, Run(n) \/ Served(n), n # x PROVE JobStep(x)
  BY Zenon, <1>1, <1>2 DEF Run, Served, OpenFile, FillFile, Ask, PushNext, PushUnreadable, Refused, Goto, JobStep
<1>3. ASSUME Run(x) \/ Served(x) PROVE JobStep(x)
  <2>1. CASE PushUnreadable(x) \/ Refused(x)
    BY Zenon, <1>1, <2>1 DEF PushUnreadable, Refused, Goto, JobStep
  <2> QED
    BY ZenonT(40), <1>3, <2>1 DEF Run, Served, JobStep
<1>4. ASSUME NEW n \in Node, Crash(n) \/ PushAnswerLost(n) PROVE JobStep(x)
  <2>1. faults' # 0 /\ Goto(n, Idle) /\ UNCHANGED <<dir, log>>
    BY <1>1, <1>4 DEF Crash, PushAnswerLost, Fault
  <2>2. job'[n] = Idle /\ \A y \in Node : y # n => job'[y] = job[y]
    BY Zenon, <1>1, <2>1 DEF Goto
  <2> QED
    BY Zenon, <2>1, <2>2 DEF JobStep
<1>5. ASSUME NEW n \in Node, NEW d \in Id, Create(n, d) PROVE JobStep(x)
  <2>1. CASE n = x
    BY Zenon, <1>5, <2>1 DEF JobStep
  <2>2. CASE n # x
    BY Zenon, <1>1, <1>5, <2>2 DEF Create, Start, Goto, JobStep
  <2> QED
    BY Zenon, <2>1, <2>2
<1>6. ASSUME NEW n \in Node, NEW m \in Node, NEW d \in Id, Fetch(n, m, d) \/ Push(n, m, d)
      PROVE  JobStep(x)
  <2>1. CASE n = x
    BY ZenonT(40), <1>6, <2>1 DEF JobStep
  <2>2. CASE n # x
    BY ZenonT(40), <1>1, <1>6, <2>2 DEF Fetch, Push, Start, Goto, JobStep
  <2> QED
    BY Zenon, <2>1, <2>2
<1>7. CASE UNCHANGED <<dir, job, log>>
  BY Zenon, <1>7 DEF JobStep
<1>8. ASSUME NEW n \in Node,
             \/ Stop(n) \/ FallSilent(n) \/ LoadStart(n) \/ SthServe(n)
             \/ \E f \in File : LoadFile(n, f)
             \/ \E m \in Node : SthFetch(n, m)
      PROVE  UNCHANGED <<dir, job, log>>
  BY Zenon, <1>8 DEF Stop, FallSilent, LoadStart, SthServe, LoadFile, SthFetch
<1>9. CASE Next
  BY Zenon, <1>2, <1>3, <1>4, <1>5, <1>6, <1>7, <1>8, <1>9 DEF Next
<1> QED
  BY Zenon, <1>7, <1>9 DEF vars

\* Faults are counted, and stay within their bound.
LEMMA FaultSteps ==
  ASSUME Shape, [Next]_vars
  PROVE  /\ faults' \in 0..MaxFaults /\ ops' \in 0..MaxOps
         /\ faults <= faults'
<1>1. faults \in 0..MaxFaults /\ ops \in 0..MaxOps
  BY Zenon DEF Shape
<1>2. ASSUME NEW n \in Node, Run(n) \/ Served(n) PROVE UNCHANGED <<ops, faults>>
  BY Zenon, <1>2 DEF Run, Served, OpenFile, FillFile, Ask, PushNext, PushUnreadable, Refused
<1>3. ASSUME NEW n \in Node,
             \/ LoadStart(n) \/ SthServe(n)
             \/ \E f \in File : LoadFile(n, f)
             \/ \E m \in Node : SthFetch(n, m)
      PROVE  UNCHANGED <<ops, faults>>
  BY Zenon, <1>3 DEF LoadStart, SthServe, LoadFile, SthFetch
<1>4. ASSUME NEW n \in Node, Crash(n) \/ Stop(n) \/ FallSilent(n) \/ PushAnswerLost(n)
      PROVE  UNCHANGED ops /\ faults < MaxFaults /\ faults' = faults + 1
  BY Zenon, <1>4 DEF Crash, Stop, FallSilent, PushAnswerLost, Fault
<1>5. ASSUME NEW n \in Node,
             \/ \E d \in Id : Create(n, d)
             \/ \E m \in Node, d \in Id : Fetch(n, m, d) \/ Push(n, m, d)
      PROVE  UNCHANGED faults /\ ops < MaxOps /\ ops' = ops + 1
  BY Zenon, <1>5 DEF Create, Fetch, Push, Start
<1>6. ASSUME Next
      PROVE  \/ UNCHANGED <<ops, faults>>
             \/ UNCHANGED ops /\ faults < MaxFaults /\ faults' = faults + 1
             \/ UNCHANGED faults /\ ops < MaxOps /\ ops' = ops + 1
  BY Zenon, <1>2, <1>3, <1>4, <1>5, <1>6 DEF Next
<1>7. CASE UNCHANGED vars
  BY <1>1, <1>7, BoundAssumption DEF vars
<1> QED
  BY <1>1, <1>6, <1>7, BoundAssumption

\* A fetch that was shown a head of m's log has got what m's server has signed.
LEMMA SthStep ==
  ASSUME Shape, NEW n \in Node, NEW m \in Node, SthFetch(n, m)
  PROVE  /\ server[m].kind = "sth" /\ server[m].store \in Seq(Id)
         /\ seen' = [seen EXCEPT ![n][m] = server[m].store]
<1>1. PICK r : r = Answer(server[m], GetSth)
  BY Zenon
<1>2. Listening(m) /\ r.reply.kind = "Sth" /\ seen' = [seen EXCEPT ![n][m] = r.reply.head]
  BY Zenon, <1>1, ExchangedIs DEF SthFetch, Shape
<1>3. server[m].kind = "sth"
  <2>1. CASE server[m].kind = "storage"
    <3>1. PICK s : s = server[m].store
      BY Zenon
    <3>2. respond(s, GetSth) = Turn(s, Bye, FALSE)
      BY Zenon DEF respond, GetSth
    <3> QED
      BY <1>1, <1>2, <2>1, <3>1, <3>2 DEF Answer, Turn, Bye
  <2> QED
    BY Zenon, <1>2, <2>1 DEF Listening
<1>4. PICK h : h = server[m].store
  BY Zenon
<1>5. sth_respond(h, GetSth) = Turn(h, Sth(h), TRUE)
  BY Zenon DEF sth_respond, GetSth
<1>6. r.reply.head = h
  BY <1>1, <1>3, <1>4, <1>5 DEF Answer, Turn, Sth
<1> QED
  BY Zenon, <1>2, <1>3, <1>4, <1>6, ServerKinds

\* Logs only grow, by one drop at a time, and heads are replaced by sth_fetch.
LEMMA LogSteps ==
  ASSUME Shape, [Next]_vars
  PROVE  \/ UNCHANGED <<log, seen>>
         \/ \E n \in Node, d \in Id : log' = [log EXCEPT ![n] = Append(@, d)] /\ UNCHANGED <<server, seen>>
         \/ \E n, m \in Node : SthFetch(n, m) /\ UNCHANGED <<server, log>>
<1>1. ASSUME NEW n \in Node, FillFile(n)
      PROVE  \/ UNCHANGED <<log, seen>>
             \/ \E d \in Id : log' = [log EXCEPT ![n] = Append(@, d)] /\ UNCHANGED <<server, seen>>
  <2>1. job[n].drop \in Id
    BY Zenon, <1>1, JobKinds DEF FillFile
  <2> QED
    BY Zenon, <1>1, <2>1 DEF FillFile
<1>2. ASSUME NEW n \in Node, NEW m \in Node, SthFetch(n, m)
      PROVE  UNCHANGED <<server, log>>
  BY Zenon, <1>2 DEF SthFetch
<1>3. ASSUME NEW n \in Node, Run(n) \/ Served(n), ~FillFile(n) PROVE UNCHANGED <<log, seen>>
  BY Zenon, <1>3 DEF Run, Served, OpenFile, Ask, PushNext, PushUnreadable, Refused
<1>4. ASSUME NEW n \in Node,
             \/ Crash(n) \/ Stop(n) \/ FallSilent(n) \/ PushAnswerLost(n) \/ LoadStart(n) \/ SthServe(n)
             \/ \E f \in File : LoadFile(n, f)
      PROVE  UNCHANGED <<log, seen>>
  BY Zenon, <1>4 DEF Crash, Stop, FallSilent, PushAnswerLost, LoadStart, SthServe, LoadFile
<1>5. ASSUME NEW n \in Node,
             \/ \E d \in Id : Create(n, d)
             \/ \E m \in Node, d \in Id : Fetch(n, m, d) \/ Push(n, m, d)
      PROVE  UNCHANGED <<log, seen>>
  BY Zenon, <1>5 DEF Create, Fetch, Push, Start
<1>6. ASSUME Next
      PROVE  \/ UNCHANGED <<log, seen>>
             \/ \E n \in Node : FillFile(n)
             \/ \E n, m \in Node : SthFetch(n, m)
  BY Zenon, <1>3, <1>4, <1>5, <1>6 DEF Next
<1> QED
  BY Zenon, <1>1, <1>2, <1>6 DEF vars

\* Pushes are recorded by the pushing command.
LEMMA PushedSteps ==
  ASSUME [Next]_vars
  PROVE  UNCHANGED pushed \/ \E n \in Node : PushNext(n)
<1>1. ASSUME NEW n \in Node, Run(n) \/ Served(n), ~PushNext(n) PROVE UNCHANGED pushed
  BY Zenon, <1>1 DEF Run, Served, OpenFile, FillFile, Ask, PushUnreadable, Refused
<1>2. ASSUME NEW n \in Node,
             \/ Crash(n) \/ Stop(n) \/ FallSilent(n) \/ PushAnswerLost(n) \/ LoadStart(n) \/ SthServe(n)
             \/ \E f \in File : LoadFile(n, f)
             \/ \E m \in Node : SthFetch(n, m)
      PROVE  UNCHANGED pushed
  BY Zenon, <1>2 DEF Crash, Stop, FallSilent, PushAnswerLost, LoadStart, SthServe, LoadFile, SthFetch
<1>3. ASSUME NEW n \in Node,
             \/ \E d \in Id : Create(n, d)
             \/ \E m \in Node, d \in Id : Fetch(n, m, d) \/ Push(n, m, d)
      PROVE  UNCHANGED pushed
  BY ZenonT(40), <1>3 DEF Create, Fetch, Push, Start
<1> QED
  BY Zenon, <1>1, <1>2, <1>3 DEF Next, vars

\* What came to a node is a set of drops.
LEMMA GotShape ==
  ASSUME Shape, [Next]_vars
  PROVE  got' \in [Node -> SUBSET Id]
<1>1. got \in [Node -> SUBSET Id]
  BY Zenon DEF Shape
<1>2. ASSUME NEW n \in Node, Ask(n) PROVE got' \in [Node -> SUBSET Id]
  <2>1. job[n].drop \in Id
    BY ZenonT(40), <1>2, JobKinds DEF Ask
  <2>2. got' = got \/ got' = [got EXCEPT ![n] = @ \cup {job[n].drop}]
    BY Zenon, <1>2 DEF Ask
  <2> QED
    BY Zenon, <1>1, <2>1, <2>2
<1>3. ASSUME NEW n \in Node, PushNext(n) \/ PushAnswerLost(n) PROVE got' \in [Node -> SUBSET Id]
  <2>1. PICK m, d : m = job[n].peer /\ d = job[n].drop
    BY Zenon
  <2>2. m \in Node /\ d \in Id
    BY Zenon, <1>3, <2>1, PushStep DEF IsPush
  <2>3. got' = got \/ got' = [got EXCEPT ![m] = @ \cup {d}]
    BY Zenon, <1>3, <2>1, PushStep
  <2> QED
    BY Zenon, <1>1, <2>2, <2>3
<1>4. ASSUME Next
      PROVE  \/ UNCHANGED got
             \/ \E n \in Node : Ask(n) \/ PushNext(n) \/ PushAnswerLost(n)
  BY ZenonT(40), <1>4 DEF Next, Run, Served, OpenFile, FillFile, PushUnreadable, Refused, Crash, Stop, FallSilent,
              LoadStart, SthServe, LoadFile, Create, Fetch, Push, SthFetch, Start
<1> QED
  BY Zenon, <1>1, <1>2, <1>3, <1>4 DEF vars

\* Files, servers, commands, logs and heads keep their types.
LEMMA ShapeStep ==
  ASSUME Shape, [Next]_vars
  PROVE  Shape'
<1>1. dir' \in [Node -> [File -> {"absent", "torn", "whole"}]]
  <2>1. ASSUME NEW n \in Node, OpenFile(n) \/ FillFile(n)
        PROVE  dir' \in [Node -> [File -> {"absent", "torn", "whole"}]]
    BY Zenon, <2>1, WriteStep DEF Writes
  <2>2. ASSUME Next
        PROVE  UNCHANGED dir \/ \E n \in Node : OpenFile(n) \/ FillFile(n)
    BY ZenonT(40), <2>2 DEF Next, Run, Served, Ask, PushNext, PushUnreadable, Refused, Crash, Stop, FallSilent, PushAnswerLost,
                LoadStart, SthServe, LoadFile, Create, Fetch, Push, SthFetch, Start
  <2> QED
    BY Zenon, <2>1, <2>2 DEF vars, Shape
<1>2. DOMAIN server' = Node /\ \A n \in Node : IsServer(server'[n])
  BY Zenon, ServerShape
<1>3. DOMAIN job' = Node /\ \A n \in Node : IsJob(n, job'[n], got'[n])
  BY Zenon, JobShape
<1>4. log' \in [Node -> Seq(Id)] /\ seen' \in [Node -> [Node -> Seq(Id)]]
  <2>1. log \in [Node -> Seq(Id)] /\ seen \in [Node -> [Node -> Seq(Id)]]
    BY Zenon DEF Shape
  <2>2. ASSUME NEW n \in Node, NEW d \in Id, log' = [log EXCEPT ![n] = Append(@, d)]
        PROVE  log' \in [Node -> Seq(Id)]
    BY <2>1, <2>2
  <2>3. ASSUME NEW n \in Node, NEW m \in Node, SthFetch(n, m)
        PROVE  seen' \in [Node -> [Node -> Seq(Id)]]
    <3>1. PICK h \in Seq(Id) : seen' = [seen EXCEPT ![n][m] = h]
      BY <2>3, SthStep
    <3> QED
      BY Zenon, <2>1, <3>1
  <2> QED
    BY Zenon, <2>1, <2>2, <2>3, LogSteps
<1>5. pushed' \in [Node -> SUBSET (Id \X (0..MaxFaults))]
  <2>1. pushed \in [Node -> SUBSET (Id \X (0..MaxFaults))]
    BY Zenon DEF Shape
  <2>2. ASSUME NEW n \in Node, PushNext(n)
        PROVE  pushed' \in [Node -> SUBSET (Id \X (0..MaxFaults))]
    <3>1. PICK m, d, r : m = job[n].peer /\ d = job[n].drop /\ r = job[n].run
      BY Zenon
    <3>2. m \in Node /\ d \in Id /\ r \in 0..MaxFaults
      BY Zenon, <2>2, <3>1, PushStep DEF IsPush
    <3>3. pushed' = pushed \/ pushed' = [pushed EXCEPT ![m] = @ \cup {<<d, r>>}]
      BY Zenon, <2>2, <3>1, PushStep
    <3> QED
      BY <2>1, <3>2, <3>3
  <2> QED
    BY Zenon, <2>1, <2>2, PushedSteps
<1>6. got' \in [Node -> SUBSET Id]
  BY Zenon, GotShape
<1>7. ops' \in 0..MaxOps /\ faults' \in 0..MaxFaults
  BY Zenon, FaultSteps
<1> QED
  BY Zenon, <1>1, <1>2, <1>3, <1>4, <1>5, <1>6, <1>7 DEF Shape

-----------------------------------------------------------------------------
(* Files and snapshots *)

\* A node that neither made d nor was given it writes no file of it.
LEMMA StrangerWritesNothing ==
  ASSUME Shape, [Next]_vars, NEW x \in Node, NEW d \in Id, Origin[d] # x, d \notin got[x],
         NEW i \in Nat, i <= ChunkCount[d]
  PROVE  dir'[x][<<d, i>>] = dir[x][<<d, i>>]
<1>1. <<d, i>> \in File
  BY Zenon, FileIs
<1>2. ASSUME OpenFile(x) \/ FillFile(x)
      PROVE  dir'[x][<<d, i>>] = dir[x][<<d, i>>]
  <2>1. job[x].drop # d /\ job[x].pc \in {"open", "fill"}
    BY Zenon, <1>2, WriteStep, WriterHas
  <2>2. PICK k : Current(x) = <<job[x].drop, k>>
    BY Zenon, <2>1, CurrentIs
  <2>3. <<d, i>> # Current(x)
    BY <2>1, <2>2
  <2> QED
    BY SMTT(40), <1>1, <1>2, <2>3, WriteStep DEF Writes
<1> QED
  BY Zenon, <1>2, DirSteps

\* The entries of d are the same in two stores.
SameDrop(s, t, d) ==
  /\ d \in DOMAIN t.drops <=> d \in DOMAIN s.drops
  /\ \A i : /\ <<d, i>> \in DOMAIN t.chunks <=> <<d, i>> \in DOMAIN s.chunks
            /\ <<d, i>> \in DOMAIN s.chunks => t.chunks[<<d, i>>] = s.chunks[<<d, i>>]

\* Reading a file of another drop, or a file that is absent, leaves d's entries alone.
LEMMA ReadsOther ==
  ASSUME Shape, NEW x \in Node, NEW d \in Id, NEW f \in File, Reads(x, f),
         f[1] # d \/ dir[x][f] = "absent"
  PROVE  SameDrop(server[x].store, server'[x].store, d)
<1>1. PICK s, t, e, i, c : s = server[x].store /\ t = server'[x].store /\ e = f[1] /\ i = f[2]
                           /\ c = dir[x][f]
  BY Zenon
<1>2. IsLoaded(s, t, e, i, c)
  BY Zenon, <1>1 DEF Reads
<1>3. i \in Nat
  BY Zenon, <1>1, FileIs
<1>4. CASE c = "absent"
  BY Zenon, <1>1, <1>2, <1>4 DEF IsLoaded, SameDrop
<1>5. CASE c # "absent" /\ i = 0
  <2>1. DropAdded(s, t, IF c = "whole" THEN e ELSE Torn)
    BY Zenon, <1>2, <1>5 DEF IsLoaded
  <2>2. (IF c = "whole" THEN e ELSE Torn) # d
    BY Zenon, <1>1, <1>5, TornAssumption
  <2> QED
    BY Zenon, <1>1, <2>1, <2>2 DEF DropAdded, SameDrop
<1>6. CASE c # "absent" /\ i > 0
  <2>1. ChunkAdded(s, t, e, i - 1, c)
    BY Zenon, <1>2, <1>6 DEF IsLoaded
  <2>2. e # d
    BY Zenon, <1>1, <1>6
  <2> QED
    BY SMTT(40), <1>1, <2>1, <2>2 DEF ChunkAdded, SameDrop
<1> QED
  BY <1>3, <1>4, <1>5, <1>6

\* A push of another drop leaves d's entries alone.
LEMMA ReceivesOther ==
  ASSUME NEW x \in Node, NEW d, NEW e, Receives(x, e), e # d
  PROVE  SameDrop(server[x].store, server'[x].store, d)
BY Zenon DEF Receives, Adds, SameDrop

\* A node has no part of a drop it neither made nor was given.
LEMMA StrangerStep ==
  ASSUME Shape, [Next]_vars, StrangerInv
  PROVE  StrangerInv'
<1> SUFFICES ASSUME NEW x \in Node, NEW d \in Id, Origin[d] # x, d \notin got'[x]
             PROVE  /\ \A i \in 0..ChunkCount[d] : dir'[x][<<d, i>>] = "absent"
                    /\ HasStore(x)' => /\ d \notin DOMAIN server'[x].store.drops
                                       /\ \A i \in Nat : <<d, i>> \notin DOMAIN server'[x].store.chunks
  BY Zenon DEF StrangerInv, HasStore
<1>1. d \notin got[x]
  BY Zenon, GotGrows
<1>2. /\ \A i \in 0..ChunkCount[d] : dir[x][<<d, i>>] = "absent"
      /\ HasStore(x) => /\ d \notin DOMAIN server[x].store.drops
                        /\ \A i \in Nat : <<d, i>> \notin DOMAIN server[x].store.chunks
  BY Zenon, <1>1 DEF StrangerInv
<1>3. ASSUME NEW i \in 0..ChunkCount[d] PROVE dir'[x][<<d, i>>] = "absent"
  BY SMTT(40), <1>1, <1>2, ChunkAssumption, StrangerWritesNothing
<1>4. ASSUME HasStore(x), SameDrop(server[x].store, server'[x].store, d)
      PROVE  /\ d \notin DOMAIN server'[x].store.drops
             /\ \A i \in Nat : <<d, i>> \notin DOMAIN server'[x].store.chunks
  BY Zenon, <1>2, <1>4 DEF SameDrop
<1>5. ASSUME HasStore(x)'
      PROVE  /\ d \notin DOMAIN server'[x].store.drops
             /\ \A i \in Nat : <<d, i>> \notin DOMAIN server'[x].store.chunks
  <2>1. CASE server'[x] = server[x]
    BY Zenon, <1>2, <1>5, <2>1 DEF HasStore
  <2>2. CASE server'[x] = [kind |-> "loading", run |-> faults, store |-> EmptyStore,
                           todo |-> {f \in File : f[2] = 0}]
    BY <2>2 DEF EmptyStore
  <2>3. CASE Signs(x) \/ Ends(x)
    BY SMTT(40), <1>5, <2>3 DEF HasStore, Signs, Ends, Down, Mute
  <2>4. ASSUME NEW f \in File, Reads(x, f)
        PROVE  HasStore(x) /\ SameDrop(server[x].store, server'[x].store, d)
    <3>1. f[1] # d \/ dir[x][f] = "absent"
      <4>1. PICK e \in Id, i \in Nat : i <= ChunkCount[e] /\ f = <<e, i>> /\ f[1] = e
        BY Zenon, FileIs
      <4> QED
        BY <1>2, <4>1, ChunkAssumption
    <3> QED
      BY Zenon, <2>4, <3>1, ReadsOther DEF HasStore, Reads
  <2>5. ASSUME NEW e \in Id, Receives(x, e)
        PROVE  HasStore(x) /\ SameDrop(server[x].store, server'[x].store, d)
    BY Zenon, <2>5, ReceivesOther DEF HasStore, Receives
  <2> QED
    BY ZenonT(40), <1>4, <2>1, <2>2, <2>3, <2>4, <2>5, ServerSteps DEF ServerStep
<1> QED
  BY Zenon, <1>3, <1>5

\* What a step does to the files of a drop that create_drop is writing.
LEMMA CreateStep ==
  ASSUME Shape, [Next]_vars, CreateInv
  PROVE  CreateInv'
<1> SUFFICES ASSUME NEW x \in Node, NEW j, j = job'[x], j.pc # "idle", j.op = "create"
             PROVE  /\ \A i \in 1..ChunkCount[j.drop] : i < j.at => dir'[x][<<j.drop, i>>] = "whole"
                    /\ j.at <= ChunkCount[j.drop] => dir'[x][<<j.drop, 0>>] = "absent"
  BY Zenon DEF CreateInv
<1>1. job'[x] # Idle
  BY DEF Idle
<1>2. ASSUME NEW k, k = job[x], k.pc # "idle", k.op = "create"
      PROVE  /\ \A i \in 1..ChunkCount[k.drop] : i < k.at => dir[x][<<k.drop, i>>] = "whole"
             /\ k.at <= ChunkCount[k.drop] => dir[x][<<k.drop, 0>>] = "absent"
  BY Zenon, <1>2 DEF CreateInv
<1>3. CASE job'[x] = job[x] /\ dir'[x] = dir[x]
  BY Zenon, <1>2, <1>3
<1>4. ASSUME OpenFile(x) \/ FillFile(x), IsCreate(x, job[x])
      PROVE  /\ \A i \in 1..ChunkCount[j.drop] : i < j.at => dir'[x][<<j.drop, i>>] = "whole"
             /\ j.at <= ChunkCount[j.drop] => dir'[x][<<j.drop, 0>>] = "absent"
  <2>1. PICK k, d, a, v : k = job[x] /\ d = job[x].drop /\ a = job[x].at /\ v = dir'[x][Current(x)]
    BY Zenon
  <2>2. /\ k.pc \in {"open", "fill"} /\ k.op = "create" /\ k.data = "whole"
        /\ d \in Id /\ a \in Nat \ {0} /\ a <= ChunkCount[d] + 1 /\ ChunkCount[d] \in Nat
    BY Zenon, <1>4, <2>1, ChunkAssumption DEF IsCreate
  <2>3. /\ \A i \in 1..ChunkCount[d] : i < a => dir[x][<<d, i>>] = "whole"
        /\ a <= ChunkCount[d] => dir[x][<<d, 0>>] = "absent"
    BY Zenon, <1>2, <2>1, <2>2
  <2>4. Current(x) = <<d, IF a <= ChunkCount[d] THEN a ELSE 0>>
    BY Zenon, <2>1, <2>2, CurrentIs
  <2>5. Writes(x, Current(x), v) /\ (FillFile(x) => v = "whole")
    BY Zenon, <1>4, <2>1, <2>2, WriteStep DEF Writes
  <2>6. \A i \in 0..ChunkCount[d] : <<d, i>> \in File
    BY SMTT(40), <2>2, FileIs
  <2>7. /\ \A i \in 1..ChunkCount[d] : i < a => dir'[x][<<d, i>>] = "whole"
        /\ a <= ChunkCount[d] => dir'[x][<<d, 0>>] = "absent"
    BY SMTT(40), <2>2, <2>3, <2>4, <2>5, <2>6 DEF Writes
  <2>8. CASE OpenFile(x)
    <3>1. j = [k EXCEPT !.pc = "fill"]
      BY Zenon, <2>1, <2>8 DEF OpenFile, Goto, Shape
    <3>2. j.drop = d /\ j.at = a
      BY Zenon, <1>4, <2>1, <3>1 DEF IsCreate
    <3> QED
      BY Zenon, <2>7, <3>2
  <2>9. CASE FillFile(x)
    <3>1. a <= ChunkCount[d] /\ j.drop = d /\ j.at = a + 1
      BY Zenon, <1>1, <1>4, <2>1, <2>9, FillStep
    <3>2. dir'[x][<<d, a>>] = "whole"
      BY Zenon, <2>1, <2>4, <2>5, <2>9, <3>1
    <3> QED
      BY SMTT(40), <2>2, <2>7, <3>1, <3>2
  <2> QED
    BY Zenon, <1>4, <2>8, <2>9
<1>5. ASSUME OpenFile(x) \/ FillFile(x) PROVE IsCreate(x, job[x])
  <2>1. job[x].pc \in {"open", "fill"}
    BY Zenon, <1>5 DEF OpenFile, FillFile
  <2>2. SUFFICES ASSUME IsFetch(x, job[x], got[x]) PROVE FALSE
    BY Zenon, <2>1, WriterHas
  <2>3. CASE OpenFile(x)
    <3>1. PICK k : k = job[x]
      BY Zenon
    <3>2. j = [k EXCEPT !.pc = "fill"]
      BY Zenon, <2>3, <3>1 DEF OpenFile, Goto, Shape
    <3>3. j.op = "fetch"
      BY Zenon, <2>2, <3>1, <3>2 DEF IsFetch
    <3> QED
      BY Zenon, <3>3
  <2>4. CASE FillFile(x)
    BY Zenon, <1>1, <2>2, <2>4, FillStep
  <2> QED
    BY Zenon, <1>5, <2>3, <2>4
<1>6. ASSUME NEW d \in Id, Create(x, d)
      PROVE  /\ \A i \in 1..ChunkCount[j.drop] : i < j.at => dir'[x][<<j.drop, i>>] = "whole"
             /\ j.at <= ChunkCount[j.drop] => dir'[x][<<j.drop, 0>>] = "absent"
  <2>1. j = [pc |-> "open", op |-> "create", drop |-> d, at |-> 1, data |-> "whole"] /\ UNCHANGED dir
    BY Zenon, <1>6 DEF Create, Start, Goto, Shape
  <2>2. dir[x][<<d, 0>>] = "absent"
    BY SMTT(40), <1>6, FileIs, ChunkAssumption DEF Create
  <2> QED
    BY SMTT(40), <2>1, <2>2
<1>7. ASSUME NEW m \in Node, NEW d \in Id, Fetch(x, m, d) \/ Push(x, m, d)
      PROVE  FALSE
  <2>1. DOMAIN job = Node
    BY Zenon DEF Shape
  <2>2. CASE Fetch(x, m, d)
    <3>1. j = [pc |-> "ask", op |-> "fetch", drop |-> d, at |-> 1, peer |-> m]
      BY Zenon, <2>1, <2>2 DEF Fetch, Start, Goto
    <3> QED
      BY <3>1
  <2>3. CASE Push(x, m, d)
    <3>1. j = [pc |-> "put", op |-> "push", drop |-> d, at |-> 0, peer |-> m, run |-> 0]
      BY Zenon, <2>1, <2>3 DEF Push, Start, Goto
    <3> QED
      BY SMTT(40), <3>1
  <2> QED
    BY Zenon, <1>7, <2>2, <2>3
<1>8. ASSUME Ask(x) PROVE FALSE
  <2>1. PICK m, d, k, c : m = job[x].peer /\ d = job[x].drop /\ k = job[x].at /\ c = Given(x)
    BY Zenon
  <2>2. j = [pc |-> "open", op |-> "fetch", drop |-> d, at |-> k, peer |-> m, data |-> c]
    BY Zenon, <1>1, <1>8, <2>1, AskStep DEF Goto, Shape
  <2> QED
    BY <2>2
<1>9. ASSUME PushNext(x) PROVE FALSE
  <2>1. PICK k, r : k = job[x] /\ r = NextRun(x)
    BY Zenon
  <2>2. j = NextPut(k, r) /\ IsPush(x, k)
    BY ZenonT(40), <1>1, <1>9, <2>1, PushStep DEF Goto, Shape
  <2>3. j.op = "push"
    BY Zenon, <2>2 DEF NextPut, IsPush
  <2> QED
    BY Zenon, <2>3
<1> QED
  BY Zenon, <1>1, <1>3, <1>4, <1>5, <1>6, <1>7, <1>8, <1>9, JobSteps DEF JobStep

\* The envelope is written when all chunks are there.
LEMMA MadeStep ==
  ASSUME Shape, [Next]_vars, CreateInv, MadeInv
  PROVE  MadeInv'
<1> SUFFICES ASSUME NEW x \in Node, NEW d \in Id, Origin[d] = x, d \notin got'[x],
                    dir'[x][<<d, 0>>] # "absent", NEW i \in 1..ChunkCount[d]
             PROVE  dir'[x][<<d, i>>] = "whole"
  BY Zenon DEF MadeInv
<1>1. d \notin got[x]
  BY Zenon, GotGrows
<1>2. dir[x][<<d, 0>>] # "absent" => dir[x][<<d, i>>] = "whole"
  BY Zenon, <1>1 DEF MadeInv
<1>3. ChunkCount[d] \in Nat /\ <<d, 0>> \in File /\ <<d, i>> \in File
  BY FileIs, ChunkAssumption
<1>4. CASE dir'[x] = dir[x]
  BY Zenon, <1>2, <1>4
<1>5. ASSUME OpenFile(x) \/ FillFile(x)
      PROVE  dir'[x][<<d, i>>] = "whole"
  <2>1. PICK k, a, v : k = job[x] /\ a = job[x].at /\ v = dir'[x][Current(x)]
    BY Zenon
  <2>2. k.pc \in {"open", "fill"} /\ Writes(x, Current(x), v)
    BY ZenonT(40), <1>5, <2>1, WriteStep DEF Writes
  <2>3. CASE k.drop # d
    <3>1. PICK e : Current(x) = <<k.drop, e>>
      BY Zenon, <2>1, <2>2, CurrentIs
    <3> QED
      BY SMTT(40), <1>2, <1>3, <2>2, <2>3, <3>1 DEF Writes
  <2>4. CASE k.drop = d
    <3>1. IsCreate(x, k) /\ k.op = "create"
      BY Zenon, <1>1, <2>1, <2>2, <2>4, WriterHas
    <3>2. /\ a < i \/ a = i \/ a > i
          /\ i < a => dir[x][<<d, i>>] = "whole"
          /\ a <= ChunkCount[d] => dir[x][<<d, 0>>] = "absent"
          /\ a \in Nat \ {0}
      BY SMTT(40), <2>1, <2>2, <2>4, <3>1 DEF CreateInv, IsCreate
    <3>3. Current(x) = <<d, IF a <= ChunkCount[d] THEN a ELSE 0>>
      BY Zenon, <2>1, <2>2, <2>4, <3>1, CurrentIs
    <3>4. a > ChunkCount[d]
      BY <1>3, <2>2, <3>2, <3>3 DEF Writes
    <3> QED
      BY SMTT(40), <1>3, <2>2, <3>2, <3>3, <3>4 DEF Writes
  <2> QED
    BY Zenon, <2>3, <2>4
<1> QED
  BY ZenonT(40), <1>4, <1>5, DirSteps


-----------------------------------------------------------------------------
(* What a store holds *)

\* A file that is there, whole or torn, stays there.
LEMMA FileStays ==
  ASSUME Shape, [Next]_vars, NEW x \in Node, NEW f \in File, dir[x][f] # "absent"
  PROVE  dir'[x][f] # "absent"
<1>1. ASSUME OpenFile(x) \/ FillFile(x) PROVE dir'[x][f] # "absent"
  <2>1. PICK v \in {"torn", "whole"} : Writes(x, Current(x), v)
    BY Zenon, <1>1, WriteStep
  <2> QED
    BY Zenon, <2>1 DEF Writes
<1> QED
  BY Zenon, <1>1, DirSteps

\* Reading the file of chunk i of d, or any other file, with d's chunks whole on disk.
LEMMA ReadsChunk ==
  ASSUME Shape, NEW x \in Node, NEW d \in Id, NEW i \in 0..ChunkCount[d] - 1,
         NEW f \in File, Reads(x, f),
         dir[x][<<d, i + 1>>] = "whole",
         f = <<d, i + 1>> \/ HoldsChunk(server[x].store, d, i)
  PROVE  HoldsChunk(server'[x].store, d, i)
<1>1. PICK s, t : s = server[x].store /\ t = server'[x].store
  BY Zenon
<1>2. PICK e \in Id, k \in Nat : f = <<e, k>> /\ f[1] = e /\ f[2] = k
  BY Zenon, FileIs
<1>3. PICK c : c = dir[x][f]
  BY Zenon
<1>4. IsLoaded(s, t, e, k, c)
  BY Zenon, <1>1, <1>2, <1>3 DEF Reads
<1>5. CASE c = "absent"
  <2>1. t = s
    BY ZenonT(40), <1>4, <1>5 DEF IsLoaded
  <2> QED
    BY ZenonT(40), <1>1, <1>3, <1>5, <2>1
<1>6. CASE c # "absent" /\ k = 0
  <2>1. t.chunks = s.chunks
    BY ZenonT(40), <1>4, <1>6 DEF IsLoaded, DropAdded
  <2>2. f # <<d, i + 1>>
    BY SMTT(40), <1>2, <1>6
  <2> QED
    BY ZenonT(40), <1>1, <2>1, <2>2 DEF HoldsChunk
<1>7. CASE c # "absent" /\ k > 0
  <2>1. ChunkAdded(s, t, e, k - 1, c)
    BY Zenon, <1>4, <1>7 DEF IsLoaded
  <2>2. CASE e = d /\ k = i + 1
    <3>1. k - 1 = i /\ c = "whole"
      BY SMTT(40), <1>2, <1>3, <2>2
    <3> QED
      BY ZenonT(40), <1>1, <2>1, <2>2, <3>1 DEF ChunkAdded, HoldsChunk
  <2>3. CASE ~(e = d /\ k = i + 1)
    <3>1. <<d, i>> # <<e, k - 1>> /\ f # <<d, i + 1>>
      BY SMTT(40), <1>2, <2>3
    <3> QED
      BY Zenon, <1>1, <2>1, <3>1 DEF ChunkAdded, HoldsChunk
  <2> QED
    BY Zenon, <2>2, <2>3
<1> QED
  BY SMTT(40), <1>2, <1>5, <1>6, <1>7

\* An envelope in the store after a file was read: it was there before, or this file is it.
LEMMA ReadsEnvelope ==
  ASSUME Shape, NEW x \in Node, NEW d \in Id, NEW f \in File, Reads(x, f),
         d \in DOMAIN server'[x].store.drops
  PROVE  \/ d \in DOMAIN server[x].store.drops
         \/ f[2] = 0 /\ dir[x][<<d, 0>>] # "absent"
<1>1. PICK s, t : s = server[x].store /\ t = server'[x].store
  BY Zenon
<1>2. PICK e \in Id, k \in Nat : f = <<e, k>> /\ f[1] = e /\ f[2] = k
  BY Zenon, FileIs
<1>3. PICK c : c = dir[x][f]
  BY Zenon
<1>4. IsLoaded(s, t, e, k, c)
  BY ZenonT(40), <1>1, <1>2, <1>3 DEF Reads
<1>5. CASE c = "absent"
  BY Zenon, <1>1, <1>4, <1>5 DEF IsLoaded
<1>6. CASE c # "absent" /\ k = 0
  <2>1. DropAdded(s, t, IF c = "whole" THEN e ELSE Torn)
    BY Zenon, <1>4, <1>6 DEF IsLoaded
  <2>2. d \in DOMAIN s.drops \/ d = e
    BY Zenon, <1>1, <2>1, TornAssumption DEF DropAdded
  <2> QED
    BY Zenon, <1>1, <1>2, <1>3, <1>6, <2>2
<1>7. CASE c # "absent" /\ k > 0
  <2>1. ChunkAdded(s, t, e, k - 1, c)
    BY Zenon, <1>4, <1>7 DEF IsLoaded
  <2> QED
    BY Zenon, <1>1, <2>1 DEF ChunkAdded
<1> QED
  BY SMTT(40), <1>2, <1>5, <1>6, <1>7

\* load_store, while it reads: an envelope it has was on disk; the chunks it still has
\* to read are on its list.
LEMMA LoadInvStep ==
  ASSUME Shape, [Next]_vars, MadeInv, LoadInv
  PROVE  LoadInv'
<1> SUFFICES ASSUME NEW x \in Node, NEW d \in Id, server'[x].kind = "loading", Origin[d] = x,
                    d \notin got'[x], d \in DOMAIN server'[x].store.drops
             PROVE  /\ dir'[x][<<d, 0>>] # "absent"
                    /\ (\A f \in server'[x].todo : f[2] > 0) =>
                         \A i \in 0..ChunkCount[d] - 1 :
                           <<d, i + 1>> \in server'[x].todo \/ HoldsChunk(server'[x].store, d, i)
  BY ZenonT(40) DEF LoadInv, HoldsChunk
<1>1. d \notin got[x]
  BY Zenon, GotGrows
<1>2. ASSUME server[x].kind = "loading", d \in DOMAIN server[x].store.drops
      PROVE  /\ dir[x][<<d, 0>>] # "absent"
             /\ (\A f \in server[x].todo : f[2] > 0) =>
                  \A i \in 0..ChunkCount[d] - 1 :
                    <<d, i + 1>> \in server[x].todo \/ HoldsChunk(server[x].store, d, i)
  BY Zenon, <1>1, <1>2 DEF LoadInv
<1>3. CASE server'[x] = server[x]
  <2>1. <<d, 0>> \in File
    BY SMTT(40), FileIs, ChunkAssumption
  <2> QED
    BY Zenon, <1>2, <1>3, <2>1, FileStays
<1>4. ASSUME NEW f \in File, Reads(x, f)
      PROVE  /\ dir'[x][<<d, 0>>] # "absent"
             /\ (\A g \in server'[x].todo : g[2] > 0) =>
                  \A i \in 0..ChunkCount[d] - 1 :
                    <<d, i + 1>> \in server'[x].todo \/ HoldsChunk(server'[x].store, d, i)
  <2>1. dir' = dir /\ server[x].kind = "loading" /\ f \in server[x].todo
    BY Zenon, <1>4 DEF Reads
  <2>2. dir[x][<<d, 0>>] # "absent" /\ (f[2] > 0 => d \in DOMAIN server[x].store.drops)
    <3>1. \/ d \in DOMAIN server[x].store.drops
          \/ f[2] = 0 /\ dir[x][<<d, 0>>] # "absent"
      BY Zenon, <1>4, ReadsEnvelope
    <3>2. CASE d \in DOMAIN server[x].store.drops
      BY Zenon, <1>2, <2>1, <3>2
    <3>3. CASE f[2] = 0 /\ dir[x][<<d, 0>>] # "absent"
      BY SMTT(40), <3>3
    <3> QED
      BY Zenon, <3>1, <3>2, <3>3
  <2>3. ASSUME \A g \in server'[x].todo : g[2] > 0, NEW i \in 0..ChunkCount[d] - 1
        PROVE  <<d, i + 1>> \in server'[x].todo \/ HoldsChunk(server'[x].store, d, i)
    <3>1. i + 1 \in 1..ChunkCount[d] /\ <<d, i + 1>> \in File
      BY SMTT(40), ChunkAssumption, FileIs
    <3>2. dir[x][<<d, i + 1>>] = "whole"
      BY Zenon, <1>1, <2>2, <3>1 DEF MadeInv
    <3>3. CASE server'[x].todo = ChunkFiles
      BY SMTT(40), <3>1, <3>3 DEF ChunkFiles
    <3>4. CASE server[x].todo \ {f} # {} /\ server'[x].todo = server[x].todo \ {f}
      <4>1. PICK g \in server[x].todo : g[2] > 0
        BY Zenon, <2>3, <3>4
      <4>2. \A h \in server[x].todo : h[2] > 0
        <5>1. (\A h \in server[x].todo : h[2] = 0) \/ (\A h \in server[x].todo : h[2] > 0)
          BY Zenon, <2>1, ServerKinds
        <5> QED
          BY SMTT(40), <4>1, <5>1
      <4>3. d \in DOMAIN server[x].store.drops
        BY Zenon, <2>1, <2>2, <4>2
      <4>4. <<d, i + 1>> \in server[x].todo \/ HoldsChunk(server[x].store, d, i)
        BY Zenon, <1>2, <2>1, <4>2, <4>3
      <4> QED
        BY Zenon, <1>4, <3>2, <3>4, <4>4, ReadsChunk
    <3> QED
      BY ZenonT(40), <1>4, <3>3, <3>4 DEF Reads
  <2> QED
    BY Zenon, <2>1, <2>2, <2>3
<1>5. ASSUME NEW e \in Id, Receives(x, e) PROVE FALSE
  BY Zenon, <1>5 DEF Receives
<1>6. CASE server'[x] = [kind |-> "loading", run |-> faults, store |-> EmptyStore,
                         todo |-> {f \in File : f[2] = 0}]
  BY SMTT(40), <1>6 DEF EmptyStore
<1>7. CASE Signs(x) \/ Ends(x)
  BY SMTT(40), <1>7 DEF Signs, Ends, Down, Mute
<1> QED
  BY ZenonT(40), <1>3, <1>4, <1>5, <1>6, <1>7, ServerSteps DEF ServerStep

\* A snapshot that is served is complete.
LEMMA SnapshotStep ==
  ASSUME Shape, [Next]_vars, MadeInv, LoadInv, SnapshotComplete
  PROVE  SnapshotComplete'
<1> SUFFICES ASSUME NEW x \in Node, NEW d \in Id, server'[x].kind = "storage", Origin[d] = x,
                    d \notin got'[x], d \in DOMAIN server'[x].store.drops,
                    NEW i \in 0..ChunkCount[d] - 1
             PROVE  HoldsChunk(server'[x].store, d, i)
  BY Zenon DEF SnapshotComplete, HoldsChunk
<1>1. d \notin got[x]
  BY Zenon, GotGrows
<1>2. ASSUME server[x].kind = "storage", d \in DOMAIN server[x].store.drops
      PROVE  HoldsChunk(server[x].store, d, i)
  BY Zenon, <1>1, <1>2 DEF SnapshotComplete, HoldsChunk
<1>3. CASE server'[x] = server[x]
  BY Zenon, <1>2, <1>3
<1>4. ASSUME NEW f \in File, Reads(x, f)
      PROVE  HoldsChunk(server'[x].store, d, i)
  <2>1. /\ server[x].kind = "loading" /\ f \in server[x].todo
        /\ server[x].todo \ {f} = {} /\ f[2] > 0
    BY Zenon, <1>4 DEF Reads
  <2>2. f[2] # 0
    BY <2>1
  <2>3. d \in DOMAIN server[x].store.drops
    BY ZenonT(40), <1>4, <2>2, ReadsEnvelope
  <2>4. \A g \in server[x].todo : g[2] > 0
    BY Zenon, <2>1
  <2>5. /\ dir[x][<<d, 0>>] # "absent"
        /\ <<d, i + 1>> \in server[x].todo \/ HoldsChunk(server[x].store, d, i)
    BY Zenon, <1>1, <2>1, <2>3, <2>4 DEF LoadInv
  <2>6. i + 1 \in 1..ChunkCount[d]
    BY SMTT(40), ChunkAssumption
  <2>7. dir[x][<<d, i + 1>>] = "whole"
    BY Zenon, <1>1, <2>5, <2>6 DEF MadeInv
  <2> QED
    BY Zenon, <1>4, <2>1, <2>5, <2>7, ReadsChunk
<1>5. ASSUME NEW e \in Id, Receives(x, e)
      PROVE  HoldsChunk(server'[x].store, d, i)
  <2>1. SameDrop(server[x].store, server'[x].store, d)
    BY Zenon, <1>5, ReceivesOther DEF Receives
  <2> QED
    BY Zenon, <1>2, <1>5, <2>1 DEF Receives, SameDrop, HoldsChunk
<1>6. CASE \/ server'[x] = [kind |-> "loading", run |-> faults, store |-> EmptyStore,
                            todo |-> {f \in File : f[2] = 0}]
           \/ Signs(x) \/ Ends(x)
  BY SMTT(30), <1>6 DEF Signs, Ends, Down, Mute
<1> QED
  BY ZenonT(40), <1>3, <1>4, <1>5, <1>6, ServerSteps DEF ServerStep

-----------------------------------------------------------------------------
(* Pushes *)

\* The run a server is.
LEMMA RunIs ==
  ASSUME Shape, NEW n \in Node, server[n].kind \notin {"down", "mute"}
  PROVE  server[n].run \in Nat
<1>1. PICK s : s = server[n]
  BY Zenon
<1>2. IsServer(s) /\ s # Down /\ s # Mute
  BY <1>1 DEF Shape, Down, Mute
<1> QED
  BY <1>1, <1>2, BoundAssumption DEF IsServer

\* The run of a server counts the faults up to its start.
LEMMA RunStep ==
  ASSUME Shape, [Next]_vars, RunInv
  PROVE  RunInv'
<1> SUFFICES ASSUME NEW x \in Node, server'[x].kind \notin {"down", "mute"}
             PROVE  server'[x].run <= faults'
  BY Zenon DEF RunInv
<1>1. faults \in Nat /\ faults' \in Nat /\ faults <= faults'
  BY FaultSteps, BoundAssumption DEF Shape
<1>2. server[x].kind \notin {"down", "mute"} => server[x].run \in Nat /\ server[x].run <= faults
  BY Zenon, RunIs DEF RunInv
<1>3. CASE server'[x] = server[x]
  BY <1>1, <1>2, <1>3
<1>4. CASE \/ server'[x] = [kind |-> "loading", run |-> faults, store |-> EmptyStore,
                            todo |-> {f \in File : f[2] = 0}]
           \/ Signs(x)
  BY <1>1, <1>4 DEF Signs
<1>5. CASE Ends(x)
  BY <1>5 DEF Ends, Down, Mute
<1>6. ASSUME NEW f \in File, Reads(x, f) PROVE server'[x].run <= faults'
  BY Zenon, <1>1, <1>2, <1>6 DEF Reads
<1>7. ASSUME NEW e \in Id, Receives(x, e) PROVE server'[x].run <= faults'
  BY <1>1, <1>2, <1>7 DEF Receives
<1> QED
  BY Zenon, <1>3, <1>4, <1>5, <1>6, <1>7, ServerSteps DEF ServerStep

\* What a run of a server holds, it holds until it stops; a later run has a later number.
LEMMA HeldStays ==
  ASSUME Shape, [Next]_vars, RunInv, NEW x \in Node, NEW d, NEW r \in Nat, NEW k \in Nat,
         Held(x, d, r, k)
  PROVE  Held(x, d, r, k)'
<1>1. faults \in Nat /\ faults' \in Nat /\ faults <= faults'
  BY FaultSteps, BoundAssumption DEF Shape
<1>2. server[x].kind \notin {"down", "mute"} => server[x].run \in Nat /\ server[x].run <= faults
  BY Zenon, RunIs DEF RunInv
<1>3. server[x].kind \in {"down", "mute", "loading", "storage", "sth"}
  BY Zenon, ServerKinds
<1>4. /\ server[x].kind \in {"down", "mute"} => r < faults
      /\ server[x].kind = "storage" =>
           \/ r < server[x].run
           \/ /\ r = server[x].run
              /\ d \in DOMAIN server[x].store.drops
              /\ \A i \in 0..k - 1 : <<d, i>> \in DOMAIN server[x].store.chunks
      /\ server[x].kind \in {"loading", "sth"} => r < server[x].run
  BY Zenon, <1>3 DEF Held
<1>5. CASE server'[x] = server[x]
  BY SMTT(30), <1>1, <1>3, <1>4, <1>5 DEF Held
<1>6. CASE /\ server[x] = Down
           /\ \/ server'[x] = [kind |-> "loading", run |-> faults, store |-> EmptyStore,
                               todo |-> {f \in File : f[2] = 0}]
              \/ Signs(x)
  BY <1>4, <1>6 DEF Held, Signs, Down
<1>7. CASE Ends(x)
  <2>1. server'[x].kind \in {"down", "mute"} /\ faults' = faults + 1
    BY <1>7 DEF Ends, Down, Mute
  <2>2. r < faults'
    BY SMTT(30), <1>1, <1>2, <1>3, <1>4, <2>1
  <2> QED
    BY Zenon, <2>1, <2>2 DEF Held
<1>8. ASSUME NEW f \in File, Reads(x, f) PROVE Held(x, d, r, k)'
  <2>1. /\ server[x].kind = "loading" /\ server'[x].run = server[x].run
        /\ server'[x].kind \in {"loading", "storage"}
    BY Zenon, <1>8 DEF Reads
  <2> QED
    BY Zenon, <1>4, <2>1 DEF Held
<1>9. ASSUME NEW e \in Id, Receives(x, e) PROVE Held(x, d, r, k)'
  BY Zenon, <1>4, <1>9 DEF Receives, Adds, Held
<1> QED
  BY Zenon, <1>5, <1>6, <1>7, <1>8, <1>9, ServerSteps DEF ServerStep

\* A push that has sent something either waits or has just been told that it is stored.
LEMMA PutAfter ==
  ASSUME Shape, [Next]_vars, NEW x \in Node, job'[x].pc = "put", job'[x].at > 0, job'[x] # job[x],
         NEW k, k = job[x], NEW q, q = NextRun(x)
  PROVE  /\ PushNext(x) /\ job'[x] = NextPut(k, q) /\ IsPush(x, k) /\ k.at < ChunkCount[k.drop]
         /\ server[k.peer].kind = "storage" /\ SentIsHeld(x)
<1>1. job'[x] # Idle /\ DOMAIN job = Node
  BY DEF Idle, Shape
<1>2. ASSUME OpenFile(x) PROVE FALSE
  <2>1. job'[x] = [k EXCEPT !.pc = "fill"] /\ (IsCreate(x, k) \/ IsFetch(x, k, got[x]))
    BY Zenon, <1>1, <1>2, JobKinds DEF OpenFile, Goto
  <2>2. job'[x].pc = "fill"
    BY Zenon, <2>1 DEF IsCreate, IsFetch
  <2> QED
    BY Zenon, <2>2
<1>3. ASSUME FillFile(x) PROVE FALSE
  BY Zenon, <1>1, <1>3, FillStep
<1>4. ASSUME Ask(x) PROVE FALSE
  <2>1. PICK m, d, a, c : m = k.peer /\ d = k.drop /\ a = k.at /\ c = Given(x)
    BY Zenon
  <2>2. job'[x] = [pc |-> "open", op |-> "fetch", drop |-> d, at |-> a, peer |-> m, data |-> c]
    BY Zenon, <1>1, <1>4, <2>1, AskStep DEF Goto
  <2> QED
    BY <2>2
<1>5. ASSUME NEW d \in Id, Create(x, d) PROVE FALSE
  BY Zenon, <1>1, <1>5 DEF Create, Start, Goto
<1>6. ASSUME NEW m \in Node, NEW d \in Id, Fetch(x, m, d) \/ Push(x, m, d) PROVE FALSE
  BY <1>1, <1>6 DEF Fetch, Push, Start, Goto
<1>7. PushNext(x)
  BY Zenon, <1>1, <1>2, <1>3, <1>4, <1>5, <1>6, JobSteps DEF JobStep
<1> QED
  BY Zenon, <1>1, <1>7, PushStep DEF Goto

\* What push n was told is stored is held by the run that was sent the envelope.
LEMMA StoredIsHeld ==
  ASSUME Shape, [Next]_vars, RunInv, PushInv, NEW n \in Node, PushNext(n),
         NEW m, m = job[n].peer, NEW d, d = job[n].drop, NEW k, k = job[n].at,
         NEW r, r = NextRun(n),
         server[m].kind = "storage", SentIsHeld(n)
  PROVE  Held(m, d, r, k)'
<1>1. IsPush(n, job[n]) /\ PushEffect(m, d)
  BY Zenon, PushStep
<1>2. m \in Node /\ d \in Id /\ k \in Nat /\ job[n].run \in Nat
  BY <1>1, BoundAssumption DEF IsPush
<1>3. server'[m].kind = "storage" /\ server'[m].run = server[m].run
  BY Zenon, <1>1 DEF PushEffect
<1>4. CASE k = 0
  <2>1. r = server[m].run
    BY Zenon, <1>4 DEF NextRun
  <2>2. d \in DOMAIN server'[m].store.drops
    BY Zenon, <1>4 DEF SentIsHeld
  <2> QED
    BY <1>3, <1>4, <2>1, <2>2 DEF Held
<1>5. CASE k > 0
  <2>1. r = job[n].run
    BY <1>5 DEF NextRun
  <2>2. Held(m, d, r, k - 1)
    BY Zenon, <1>1, <1>5, <2>1 DEF PushInv, IsPush
  <2>3. k - 1 \in Nat /\ r \in Nat
    BY <1>2, <1>5, <2>1
  <2>4. PICK i \in Nat : i = k - 1
    BY Zenon, <2>3
  <2>5. Held(m, d, r, i)'
    BY Zenon, <1>2, <2>2, <2>3, <2>4, HeldStays
  <2>6. <<d, i>> \in DOMAIN server'[m].store.chunks
    BY Zenon, <1>5, <2>4 DEF SentIsHeld
  <2>7. \A j \in 0..k - 1 : j = i \/ j \in 0..i - 1
    BY <1>2, <1>5, <2>4
  <2>8. \/ r < server'[m].run
        \/ /\ r = server'[m].run
           /\ d \in DOMAIN server'[m].store.drops
           /\ \A j \in 0..i - 1 : <<d, j>> \in DOMAIN server'[m].store.chunks
    BY Zenon, <1>3, <2>5 DEF Held
  <2> QED
    BY Zenon, <1>3, <2>6, <2>7, <2>8 DEF Held
<1> QED
  BY <1>2, <1>4, <1>5

\* What was reported as stored stays with the run it was sent to, and a push that goes
\* on has everything it sent there.
LEMMA PushInvStep ==
  ASSUME Shape, [Next]_vars, RunInv, PushInv
  PROVE  PushInv'
<1>1. ASSUME NEW x \in Node, NEW p \in pushed'[x]
      PROVE  Held(x, p[1], p[2], ChunkCount[p[1]])'
  <2>1. p \in Id \X (0..MaxFaults)
    BY Zenon, <1>1, ShapeStep DEF Shape
  <2>2. PICK d \in Id, r \in Nat, c \in Nat : p[1] = d /\ p[2] = r /\ c = ChunkCount[d] /\ p = <<d, r>>
    BY <2>1, ChunkAssumption, BoundAssumption
  <2>3. CASE p \in pushed[x]
    <3>1. Held(x, d, r, c)
      BY Zenon, <2>2, <2>3 DEF PushInv
    <3>2. Held(x, d, r, c)'
      BY Zenon, <3>1, HeldStays
    <3> QED
      BY Zenon, <2>2, <3>2
  <2>4. CASE p \notin pushed[x]
    <3>1. PICK n \in Node : PushNext(n)
      BY Zenon, <1>1, <2>4, PushedSteps
    <3>2. PICK m, e, k, q : m = job[n].peer /\ e = job[n].drop /\ k = job[n].at /\ q = job[n].run
      BY Zenon
    <3>3. IsPush(n, job[n]) /\ m \in Node /\ e \in Id
      BY Zenon, <3>1, <3>2, PushStep DEF IsPush
    <3>4. DOMAIN pushed = Node
      BY Zenon DEF Shape
    <3>5. /\ server[m].kind = "storage" /\ SentIsHeld(n)
          /\ k = ChunkCount[e]
          /\ pushed' = [pushed EXCEPT ![m] = @ \cup {<<e, q>>}]
      BY Zenon, <1>1, <2>4, <3>1, <3>2, PushStep
    <3>6. x = m /\ p = <<e, q>>
      BY Zenon, <1>1, <2>4, <3>3, <3>4, <3>5
    <3>7. q = NextRun(n)
      BY Zenon, <3>2, <3>3, <3>5, ChunkAssumption DEF NextRun
    <3>8. Held(m, e, q, k)'
      BY Zenon, <3>1, <3>2, <3>5, <3>7, StoredIsHeld
    <3> QED
      BY Zenon, <2>2, <3>5, <3>6, <3>8
  <2> QED
    BY Zenon, <2>3, <2>4
<1>2. ASSUME NEW x \in Node, NEW j, j = job'[x], j.pc = "put", j.at > 0,
             NEW m, m = j.peer, NEW d, d = j.drop, NEW r, r = j.run, NEW i, i = j.at - 1
      PROVE  Held(m, d, r, i)'
  <2>1. CASE job'[x] = job[x]
    <3>1. IsPush(x, job[x])
      BY Zenon, <1>2, <2>1, JobKinds
    <3>2. m \in Node /\ d \in Id /\ r \in Nat /\ i \in Nat
      BY <1>2, <2>1, <3>1, BoundAssumption DEF IsPush
    <3>3. Held(m, d, r, i)
      BY Zenon, <1>2, <2>1 DEF PushInv
    <3> QED
      BY Zenon, <3>2, <3>3, HeldStays
  <2>2. CASE job'[x] # job[x]
    <3>1. PICK k, q : k = job[x] /\ q = NextRun(x)
      BY Zenon
    <3>2. /\ PushNext(x) /\ j = NextPut(k, q) /\ IsPush(x, k) /\ k.at < ChunkCount[k.drop]
          /\ server[k.peer].kind = "storage" /\ SentIsHeld(x)
      BY Zenon, <1>2, <2>2, <3>1, PutAfter
    <3>3. q \in 0..MaxFaults
      BY Zenon, <3>1, <3>2, ServerKinds DEF IsPush, NextRun
    <3>4. j.peer = k.peer /\ j.drop = k.drop /\ j.at = k.at + 1 /\ j.run = q
      BY <3>2, <3>3, PushGoesOn
    <3>5. i = k.at
      BY <1>2, <3>2, <3>4 DEF IsPush
    <3> QED
      BY Zenon, <1>2, <3>1, <3>2, <3>4, <3>5, StoredIsHeld
  <2> QED
    BY Zenon, <2>1, <2>2
<1> QED
  BY Zenon, <1>1, <1>2 DEF PushInv

-----------------------------------------------------------------------------
(* Tree heads *)

\* Prefixes compose.
LEMMA PrefixOrder ==
  ASSUME NEW r \in Seq(Id), NEW s \in Seq(Id), NEW t \in Seq(Id), IsPrefix(r, s), IsPrefix(s, t)
  PROVE  IsPrefix(r, t) /\ IsPrefix(r, r)
<1>1. Len(r) \in Nat /\ Len(s) \in Nat /\ Len(t) \in Nat
  OBVIOUS
<1>2. \A i \in 1..Len(r) : i \in 1..Len(s)
  BY <1>1 DEF IsPrefix
<1> QED
  BY <1>1, <1>2 DEF IsPrefix

\* A list is a prefix of itself.
LEMMA PrefixSame ==
  ASSUME NEW s \in Seq(Id)
  PROVE  IsPrefix(s, s)
BY DEF IsPrefix

\* A list is a prefix of the list with one element more.
LEMMA PrefixAppend ==
  ASSUME NEW s \in Seq(Id), NEW d \in Id
  PROVE  IsPrefix(s, Append(s, d))
BY DEF IsPrefix

\* Logs grow.
LEMMA LogGrows ==
  ASSUME Shape, [Next]_vars, NEW m \in Node
  PROVE  IsPrefix(log[m], log'[m])
<1>1. log \in [Node -> Seq(Id)]
  BY Zenon DEF Shape
<1>2. ASSUME NEW n \in Node, NEW d \in Id, log' = [log EXCEPT ![n] = Append(@, d)]
      PROVE  IsPrefix(log[m], log'[m])
  <2>1. PICK s \in Seq(Id) : s = log[m]
    BY Zenon, <1>1
  <2>2. log'[m] = s \/ log'[m] = Append(s, d)
    BY Zenon, <1>1, <1>2, <2>1
  <2> QED
    BY Zenon, <2>1, <2>2, PrefixSame, PrefixAppend
<1>3. CASE UNCHANGED log
  <2>1. PICK s \in Seq(Id) : s = log[m]
    BY Zenon, <1>1
  <2> QED
    BY Zenon, <1>3, <2>1, PrefixSame
<1> QED
  BY Zenon, <1>2, <1>3, LogSteps

\* The head a node has of m after a step: the one it had, or the one m's server signed.
LEMMA SeenSteps ==
  ASSUME Shape, [Next]_vars, NEW n \in Node, NEW m \in Node
  PROVE  \/ seen'[n][m] = seen[n][m]
         \/ server[m].kind = "sth" /\ server' = server /\ log' = log /\ seen'[n][m] = server[m].store
<1>1. seen \in [Node -> [Node -> Seq(Id)]]
  BY Zenon DEF Shape
<1>2. ASSUME NEW a \in Node, NEW b \in Node, SthFetch(a, b)
      PROVE  \/ seen'[n][m] = seen[n][m]
             \/ server[m].kind = "sth" /\ server' = server /\ log' = log /\ seen'[n][m] = server[m].store
  <2>1. PICK h : h = server[b].store
    BY Zenon
  <2>2. server[b].kind = "sth" /\ seen' = [seen EXCEPT ![a][b] = h]
    BY Zenon, <1>2, <2>1, SthStep
  <2>3. (a = n /\ b = m) \/ seen'[n][m] = seen[n][m]
    BY Zenon, <1>1, <2>2
  <2>4. a = n /\ b = m => seen'[n][m] = h
    BY Zenon, <1>1, <2>2
  <2>5. server' = server /\ log' = log
    BY Zenon, <1>2 DEF SthFetch
  <2> QED
    BY Zenon, <2>1, <2>2, <2>3, <2>4, <2>5
<1> QED
  BY Zenon, <1>2, LogSteps

\* Whoever serves, restarts or asks: the heads stay in the order of the log.
LEMMA HeadStep ==
  ASSUME Shape, [Next]_vars, HeadInv
  PROVE  HeadInv'
<1> SUFFICES ASSUME NEW m \in Node
             PROVE  /\ \A n \in Node : IsPrefix(seen'[n][m], log'[m])
                    /\ server'[m].kind = "sth" => IsPrefix(server'[m].store, log'[m])
  BY Zenon DEF HeadInv, ShownIsLogged
<1>1. PICK a \in Seq(Id), b \in Seq(Id) : a = log[m] /\ b = log'[m]
  BY Zenon, ShapeStep DEF Shape
<1>2. IsPrefix(a, b)
  BY Zenon, <1>1, LogGrows
<1>3. ASSUME server[m].kind = "sth"
      PROVE  server[m].store \in Seq(Id) /\ IsPrefix(server[m].store, a) /\ IsPrefix(server[m].store, b)
  <2>1. server[m].store \in Seq(Id) /\ IsPrefix(server[m].store, a)
    BY ZenonT(40), <1>1, <1>3, ServerKinds DEF HeadInv
  <2> QED
    BY Zenon, <1>2, <2>1, PrefixOrder
<1>4. ASSUME NEW n \in Node
      PROVE  IsPrefix(seen'[n][m], b)
  <2>1. PICK s \in Seq(Id) : s = seen[n][m]
    BY Zenon DEF Shape
  <2>2. IsPrefix(s, a)
    BY Zenon, <1>1, <2>1 DEF HeadInv, ShownIsLogged
  <2>3. IsPrefix(s, b)
    BY Zenon, <1>2, <2>2, PrefixOrder
  <2> QED
    BY Zenon, <1>3, <2>1, <2>3, SeenSteps
<1>5. CASE server'[m] = server[m]
  BY Zenon, <1>1, <1>3, <1>4, <1>5
<1>6. CASE Signs(m)
  <2>1. server'[m].store = b \/ server'[m].store = <<>>
    BY Zenon, <1>1, <1>6 DEF Signs
  <2>2. IsPrefix(b, b) /\ IsPrefix(<<>>, b)
    BY SMTT(30) DEF IsPrefix
  <2> QED
    BY Zenon, <1>1, <1>4, <2>1, <2>2
<1>7. ASSUME server'[m] # server[m],
             \/ Ends(m)
             \/ server'[m] = [kind |-> "loading", run |-> faults, store |-> EmptyStore,
                              todo |-> {f \in File : f[2] = 0}]
             \/ \E f \in File : Reads(m, f)
             \/ \E e \in Id : Receives(m, e)
      PROVE  server'[m].kind # "sth"
  BY <1>7 DEF Ends, Down, Mute, Reads, Receives
<1> QED
  BY Zenon, <1>1, <1>4, <1>5, <1>6, <1>7, ServerSteps DEF ServerStep

-----------------------------------------------------------------------------
(* A drop from first hand *)

\* A fetch that has been answered, after a step.
LEMMA FetchAfter ==
  ASSUME Shape, [Next]_vars, NEW x \in Node, Fetching(x)'
  PROVE  \/ /\ job'[x] = job[x] /\ Fetching(x) /\ dir'[x] = dir[x]
         \/ /\ OpenFile(x) /\ Fetching(x) /\ IsFetch(x, job[x], got[x])
            /\ job'[x].pc = "fill" /\ job'[x].drop = job[x].drop /\ job'[x].at = job[x].at
            /\ job'[x].peer = job[x].peer /\ job'[x].data = job[x].data /\ job'[x].op = "fetch"
         \/ /\ FillFile(x) /\ Fetching(x) /\ IsFetch(x, job[x], got[x])
            /\ job'[x].pc = "ask" /\ job'[x].drop = job[x].drop /\ job'[x].at = job[x].at + 1
            /\ job'[x].peer = job[x].peer
         \/ /\ Ask(x) /\ IsFetch(x, job[x], got[x]) /\ Listening(job[x].peer) /\ Given(x) # "absent"
            /\ job'[x] = [pc |-> "open", op |-> "fetch", drop |-> job[x].drop, at |-> job[x].at,
                          peer |-> job[x].peer, data |-> Given(x)]
            /\ UNCHANGED <<dir, server>>
<1>1. PICK j, k : j = job'[x] /\ k = job[x]
  BY Zenon
<1>2. j.pc # "idle" /\ j.op = "fetch" /\ (j.pc # "ask" \/ j.at > 1) /\ j # Idle
  BY <1>1 DEF Fetching, Answered, Idle
<1>3. DOMAIN job = Node
  BY Zenon DEF Shape
<1>4. CASE j = k /\ dir'[x] = dir[x]
  BY Zenon, <1>1, <1>4 DEF Fetching
<1>5. ASSUME OpenFile(x)
      PROVE  /\ Fetching(x) /\ IsFetch(x, k, got[x])
             /\ j.pc = "fill" /\ j.drop = k.drop /\ j.at = k.at
             /\ j.peer = k.peer /\ j.data = k.data
  <2>1. j = [k EXCEPT !.pc = "fill"] /\ (IsCreate(x, k) \/ IsFetch(x, k, got[x])) /\ k.pc = "open"
    BY Zenon, <1>1, <1>3, <1>5, JobKinds DEF OpenFile, Goto
  <2>2. ~IsCreate(x, k)
    BY Zenon, <1>2, <2>1 DEF IsCreate
  <2>3. IsFetch(x, k, got[x]) /\ k.op = "fetch"
    BY Zenon, <2>1, <2>2 DEF IsFetch
  <2>4. j.pc = "fill" /\ j.drop = k.drop /\ j.at = k.at /\ j.peer = k.peer /\ j.data = k.data
    BY Zenon, <2>1, <2>3 DEF IsFetch
  <2> QED
    BY Zenon, <1>1, <2>1, <2>3, <2>4 DEF Fetching, Answered
<1>6. ASSUME FillFile(x)
      PROVE  /\ Fetching(x) /\ IsFetch(x, k, got[x])
             /\ j.pc = "ask" /\ j.drop = k.drop /\ j.at = k.at + 1
             /\ j.peer = k.peer
  <2>1. IsCreate(x, k) => j.op = "create"
    BY Zenon, <1>1, <1>2, <1>6, FillStep
  <2>2. IsFetch(x, k, got[x])
    BY Zenon, <1>1, <1>2, <1>6, <2>1, FillStep
  <2>3. j.pc = "ask" /\ j.drop = k.drop /\ j.at = k.at + 1 /\ j.peer = k.peer
    BY <1>1, <1>2, <1>6, <2>2, FillStep
  <2>4. k.pc = "fill" /\ k.op = "fetch"
    BY Zenon, <1>1, <1>6, <2>2 DEF FillFile, IsFetch
  <2> QED
    BY Zenon, <1>1, <2>2, <2>3, <2>4 DEF Fetching, Answered
<1>7. ASSUME Ask(x)
      PROVE  /\ IsFetch(x, job[x], got[x]) /\ Listening(job[x].peer) /\ Given(x) # "absent"
             /\ job'[x] = [pc |-> "open", op |-> "fetch", drop |-> job[x].drop, at |-> job[x].at,
                           peer |-> job[x].peer, data |-> Given(x)]
             /\ UNCHANGED <<dir, server>>
  BY Zenon, <1>1, <1>2, <1>3, <1>7, AskStep DEF Goto
<1>8. ASSUME PushNext(x) PROVE FALSE
  <2>1. PICK r : r = NextRun(x)
    BY Zenon
  <2>2. j = NextPut(k, r) /\ IsPush(x, k)
    BY Zenon, <1>1, <1>2, <1>3, <1>8, <2>1, PushStep DEF Goto
  <2>3. j.op = "push"
    BY Zenon, <2>2 DEF NextPut, IsPush
  <2> QED
    BY Zenon, <1>2, <2>3
<1>9. ASSUME NEW d \in Id, Create(x, d) PROVE FALSE
  BY Zenon, <1>1, <1>2, <1>3, <1>9 DEF Create, Start, Goto
<1>10. ASSUME NEW m \in Node, NEW d \in Id, Fetch(x, m, d) \/ Push(x, m, d) PROVE FALSE
  BY <1>1, <1>2, <1>3, <1>10 DEF Fetch, Push, Start, Goto
<1>11. JobStep(x)
  BY Zenon, JobSteps
<1> QED
  BY ZenonT(40), <1>1, <1>2, <1>4, <1>5, <1>6, <1>7, <1>8, <1>9, <1>10, <1>11 DEF JobStep

\* Without faults, a storage server that has an envelope keeps it.
LEMMA PeerKeeps ==
  ASSUME Shape, [Next]_vars, faults' = 0, NEW m \in Node, NEW d,
         server[m].kind = "storage", d \in DOMAIN server[m].store.drops
  PROVE  server'[m].kind = "storage" /\ d \in DOMAIN server'[m].store.drops
<1>1. faults \in Nat
  BY BoundAssumption DEF Shape
<1>2. server[m] # Down
  BY DEF Down
<1>3. ~(faults' = faults + 1)
  BY <1>1
<1>4. ASSUME NEW f \in File, Reads(m, f) PROVE FALSE
  BY Zenon, <1>4 DEF Reads
<1>5. ASSUME NEW e \in Id, Receives(m, e)
      PROVE  server'[m].kind = "storage" /\ d \in DOMAIN server'[m].store.drops
  BY Zenon, <1>5 DEF Receives, Adds
<1> QED
  BY Zenon, <1>2, <1>3, <1>4, <1>5, ServerSteps DEF ServerStep, Ends

\* The server that answered a fetch is a storage server with the envelope.
LEMMA PeerStep ==
  ASSUME Shape, [Next]_vars, PeerInv
  PROVE  PeerInv'
<1> SUFFICES ASSUME faults' = 0, NEW x \in Node, Fetching(x)'
             PROVE  /\ server'[job'[x].peer].kind = "storage"
                    /\ job'[x].drop \in DOMAIN server'[job'[x].peer].store.drops
  BY Zenon DEF PeerInv, Fetching
<1>1. faults = 0
  BY FaultSteps, BoundAssumption DEF Shape
<1>2. ASSUME Fetching(x), job'[x].peer = job[x].peer, job'[x].drop = job[x].drop
      PROVE  /\ server'[job'[x].peer].kind = "storage"
             /\ job'[x].drop \in DOMAIN server'[job'[x].peer].store.drops
  <2>1. PICK m, d : m = job[x].peer /\ d = job[x].drop
    BY Zenon
  <2>2. m \in Node
    <3>1. IsJob(x, job[x], got[x]) /\ job[x].op = "fetch" /\ job[x] # Idle
      BY <1>2 DEF Shape, Fetching, Answered, Idle
    <3>2. ~IsCreate(x, job[x]) /\ ~IsPush(x, job[x])
      BY Zenon, <3>1 DEF IsCreate, IsPush
    <3> QED
      BY Zenon, <2>1, <3>1, <3>2 DEF IsJob, IsFetch
  <2>3. server[m].kind = "storage" /\ d \in DOMAIN server[m].store.drops
    BY Zenon, <1>1, <1>2, <2>1 DEF PeerInv
  <2>4. server'[m].kind = "storage" /\ d \in DOMAIN server'[m].store.drops
    BY Zenon, <2>2, <2>3, PeerKeeps
  <2> QED
    BY Zenon, <1>2, <2>1, <2>4
<1>3. ASSUME Ask(x), IsFetch(x, job[x], got[x]), Listening(job[x].peer), Given(x) # "absent",
             job'[x].peer = job[x].peer, job'[x].drop = job[x].drop, UNCHANGED server
      PROVE  /\ server'[job'[x].peer].kind = "storage"
             /\ job'[x].drop \in DOMAIN server'[job'[x].peer].store.drops
  <2>1. PICK m, d, k, c : m = job[x].peer /\ d = job[x].drop /\ k = job[x].at /\ c = Given(x)
    BY Zenon
  <2>2. m \in Node
    BY Zenon, <1>3, <2>1 DEF IsFetch
  <2>3. CASE k = 1
    <3>1. Listening(m) /\ c # "absent"
      BY Zenon, <1>3, <2>1
    <3>2. server[m].kind = "storage"
      BY Zenon, <2>1, <2>2, <3>1, Contents
    <3>3. k = 1 => d \in DOMAIN server[m].store.drops
      BY ZenonT(40), <2>1, <2>2, <3>1, Contents
    <3> QED
      BY Zenon, <1>3, <2>1, <2>3, <3>2, <3>3
  <2>4. CASE k # 1
    <3>1. Fetching(x)
      BY <1>3, <2>1, <2>4 DEF Fetching, Answered, IsFetch
    <3> QED
      BY Zenon, <1>2, <1>3, <3>1
  <2> QED
    BY Zenon, <2>3, <2>4
<1>4. PICK j : j = job'[x]
  BY Zenon
<1>5. CASE Ask(x) /\ IsFetch(x, job[x], got[x]) /\ Listening(job[x].peer) /\ Given(x) # "absent"
           /\ job'[x] = [pc |-> "open", op |-> "fetch", drop |-> job[x].drop, at |-> job[x].at,
                         peer |-> job[x].peer, data |-> Given(x)]
           /\ UNCHANGED <<dir, server>>
  BY SMTT(40), <1>3, <1>5
<1>6. CASE Fetching(x) /\ job'[x].peer = job[x].peer /\ job'[x].drop = job[x].drop
  BY Zenon, <1>2, <1>6
<1> QED
  BY ZenonT(40), <1>5, <1>6, FetchAfter

\* What a fetch is given of a drop at first hand is whole: its peer made the drop.
LEMMA GivenWhole ==
  ASSUME Shape, StrangerInv, SnapshotComplete, PeerInv,
         NEW n \in Node, NEW d \in Id, FirstHand(n, d),
         IsFetch(n, job[n], got[n]), job[n].pc = "ask", Listening(job[n].peer), Given(n) # "absent",
         job[n].drop = d
  PROVE  Given(n) = "whole"
<1>1. PICK m, k, c : m = job[n].peer /\ k = job[n].at /\ c = Given(n)
  BY Zenon
<1>2. m \in Node /\ m # n /\ k \in Nat \ {0} /\ k <= ChunkCount[d] + 1 /\ job[n].op = "fetch"
  BY Zenon, <1>1 DEF IsFetch
<1>3. d \notin got[m]
  BY Zenon, <1>2 DEF FirstHand
<1>4. CASE k = 1
  <2>1. c # "absent" /\ Listening(m)
    BY Zenon, <1>1
  <2>2. k = 1 => c = "whole"
    BY ZenonT(40), <1>1, <1>2, <2>1, Contents
  <2> QED
    BY Zenon, <1>1, <1>4, <2>2
<1>5. CASE k # 1
  <2>1. server[m].kind = "storage" /\ d \in DOMAIN server[m].store.drops
    <3>1. Fetching(n)
      BY SMTT(40), <1>1, <1>2, <1>5 DEF Fetching, Answered
    <3> QED
      BY Zenon, <1>1, <3>1 DEF PeerInv, FirstHand
  <2>2. Origin[d] = m
    BY Zenon, <1>2, <1>3, <2>1 DEF StrangerInv, HasStore
  <2>3. PICK i : i = k - 2
    BY Zenon
  <2>4. i \in 0..ChunkCount[d] - 1
    <3>1. PICK cc \in Nat : cc = ChunkCount[d]
      BY Zenon, ChunkAssumption
    <3>2. k \in Nat \ {0} /\ k <= cc + 1
      BY Zenon, <1>2, <3>1
    <3>3. i \in 0..cc - 1
      BY <1>5, <2>3, <3>2
    <3> QED
      BY Zenon, <3>1, <3>3
  <2>5. c = server[m].store.chunks[<<d, i>>]
    <3>1. c # "absent" /\ Listening(m)
      BY Zenon, <1>1
    <3>2. k # 1 => c = server[m].store.chunks[<<d, k - 2>>]
      BY SMTT(40), <1>1, <1>2, <3>1, Contents
    <3> QED
      BY Zenon, <1>5, <2>3, <3>2
  <2>6. server[m].store.chunks[<<d, i>>] = "whole"
    BY SMTT(30), <1>2, <1>3, <2>1, <2>2, <2>4 DEF SnapshotComplete
  <2> QED
    BY Zenon, <1>1, <2>5, <2>6
<1> QED
  BY Zenon, <1>4, <1>5

\* First hand now was first hand before.
LEMMA FirstHandBefore ==
  ASSUME Shape, [Next]_vars, NEW x \in Node, NEW d \in Id, FirstHand(x, d)'
  PROVE  FirstHand(x, d) /\ faults' = 0 /\ Origin[d] # x
<1>1. faults = 0
  BY SMTT(40), FaultSteps, BoundAssumption DEF Shape, FirstHand
<1> QED
  BY Zenon, <1>1, GotGrows DEF FirstHand

\* A writer with job k writes v: what becomes of file i of a drop d made elsewhere.
Fetched(x, k, v, d, i) ==
  /\ k.drop # d => dir'[x][<<d, i>>] = dir[x][<<d, i>>]
  /\ k.drop = d => /\ IsFetch(x, k, got[x]) /\ Fetching(x) /\ k.op = "fetch"
                   /\ i = k.at - 1 => dir'[x][<<d, i>>] = v
                   /\ i # k.at - 1 => dir'[x][<<d, i>>] = dir[x][<<d, i>>]

\* What a command of node x that writes a file does to the files of a drop made elsewhere.
LEMMA FetchWrites ==
  ASSUME Shape, NEW x \in Node, NEW d \in Id, Origin[d] # x,
         NEW k, k = job[x], k.pc \in {"open", "fill"}, NEW v, Writes(x, Current(x), v),
         NEW i \in 0..ChunkCount[d]
  PROVE  Fetched(x, k, v, d, i)
<1> USE DEF Fetched
<1>1. PICK f : f = Current(x)
  BY Zenon
<1>2. <<d, i>> \in File
  BY FileIs, ChunkAssumption
<1>3. \E e : f = <<k.drop, e>>
  BY Zenon, <1>1, CurrentIs
<1>4. CASE k.drop # d
  BY SMTT(40), <1>1, <1>2, <1>3, <1>4 DEF Writes
<1>5. CASE k.drop = d
  <2>1. IsFetch(x, k, got[x])
    BY Zenon, <1>5, WriterHas
  <2>2. Fetching(x) /\ k.op = "fetch" /\ k.at \in Nat
    BY Zenon, <2>1 DEF Fetching, Answered, IsFetch
  <2>3. f = <<d, k.at - 1>>
    BY Zenon, <1>1, <1>5, <2>2, CurrentIs
  <2>4. CASE i = k.at - 1
    BY Zenon, <1>1, <1>5, <2>1, <2>2, <2>3, <2>4 DEF Writes
  <2>5. CASE i # k.at - 1
    <3>1. <<d, i>> # f
      BY Zenon, <2>3, <2>5
    <3> QED
      BY Zenon, <1>1, <1>2, <1>5, <2>1, <2>2, <2>5, <3>1 DEF Writes
  <2> QED
    BY Zenon, <2>4, <2>5
<1> QED
  BY Zenon, <1>4, <1>5

\* A file of the drop is torn only while fetch writes it.
LEMMA TornStep ==
  ASSUME Shape, [Next]_vars, FetchInv, NEW x \in Node, NEW d \in Id, FirstHand(x, d)',
         NEW i \in 0..ChunkCount[d], dir'[x][<<d, i>>] = "torn"
  PROVE  job'[x].pc = "fill" /\ job'[x].op = "fetch" /\ job'[x].drop = d /\ job'[x].at = i + 1
<1>1. FirstHand(x, d) /\ faults' = 0 /\ Origin[d] # x
  BY Zenon, FirstHandBefore
<1>2. PICK j, k : j = job'[x] /\ k = job[x]
  BY Zenon
<1>3. dir[x][<<d, i>>] = "torn" => k.pc = "fill" /\ k.op = "fetch" /\ k.drop = d /\ k.at = i + 1
  BY Zenon, <1>1, <1>2 DEF FetchInv
<1>4. DOMAIN job = Node
  BY Zenon DEF Shape
<1>5. CASE j = k /\ dir'[x] = dir[x]
  BY Zenon, <1>2, <1>3, <1>5
<1>6. CASE dir'[x] = dir[x] /\ k.pc \notin {"open", "fill"}
  BY Zenon, <1>3, <1>6
<1>7. ASSUME OpenFile(x)
      PROVE  j.pc = "fill" /\ j.op = "fetch" /\ j.drop = d /\ j.at = i + 1
  <2>1. k.pc = "open" /\ j = [k EXCEPT !.pc = "fill"] /\ Writes(x, Current(x), "torn")
    BY ZenonT(40), <1>2, <1>4, <1>7, WriteStep DEF OpenFile, Goto
  <2>2. dir[x][<<d, i>>] # "torn"
    BY Zenon, <1>3, <2>1
  <2>3. Fetched(x, k, "torn", d, i)
    BY Zenon, <1>1, <1>2, <2>1, FetchWrites
  <2>4. k.drop = d /\ i = k.at - 1 /\ IsFetch(x, k, got[x])
    BY Zenon, <2>2, <2>3 DEF Fetched
  <2> QED
    <3>1. k.op = "fetch" /\ k.at \in Nat
      BY Zenon, <2>4 DEF IsFetch
    <3>2. k.at = i + 1
      BY <2>4, <3>1
    <3>3. j.pc = "fill" /\ j.op = k.op /\ j.drop = k.drop /\ j.at = k.at
      BY <2>1, <2>4 DEF IsFetch
    <3> QED
      BY Zenon, <2>4, <3>1, <3>2, <3>3
<1>8. ASSUME FillFile(x) PROVE FALSE
  <2>1. k.pc = "fill" /\ Writes(x, Current(x), k.data)
    BY ZenonT(40), <1>2, <1>8, WriteStep DEF FillFile
  <2>2. Fetched(x, k, k.data, d, i)
    BY Zenon, <1>1, <1>2, <2>1, FetchWrites
  <2>3. CASE k.drop # d
    BY Zenon, <1>3, <2>3, <2>2 DEF Fetched
  <2>4. CASE k.drop = d
    <3>1. IsFetch(x, k, got[x]) /\ Fetching(x)
      BY Zenon, <2>4, <2>2 DEF Fetched
    <3>2. k.data = "whole"
      BY Zenon, <1>1, <1>2, <2>1, <2>4, <3>1 DEF FetchInv
    <3>3. i # k.at - 1
      BY Zenon, <2>4, <2>2, <3>2 DEF Fetched
    <3>4. dir[x][<<d, i>>] = "torn"
      BY Zenon, <2>4, <2>2, <3>3 DEF Fetched
    <3>5. k.at = i + 1 /\ i \in Int
      BY <1>3, <3>4, ChunkAssumption
    <3> QED
      BY SMTT(40), <3>3, <3>5
  <2> QED
    BY Zenon, <2>3, <2>4
<1>9. ASSUME Ask(x) \/ PushNext(x) PROVE dir'[x] = dir[x] /\ k.pc \notin {"open", "fill"}
  BY Zenon, <1>2, <1>9 DEF Ask, PushNext
<1>10. ASSUME \/ \E e \in Id : Create(x, e)
              \/ \E m \in Node, e \in Id : Fetch(x, m, e) \/ Push(x, m, e)
       PROVE  dir'[x] = dir[x] /\ k.pc \notin {"open", "fill"}
  <2>1. job[x] = Idle /\ UNCHANGED dir
    BY Zenon, <1>10 DEF Create, Fetch, Push, Start
  <2> QED
    BY SMTT(40), <1>2, <2>1 DEF Idle
<1>11. JobStep(x)
  BY Zenon, JobSteps
<1> QED
  BY ZenonT(40), <1>1, <1>2, <1>5, <1>6, <1>7, <1>8, <1>9, <1>10, <1>11 DEF JobStep

\* What fetch has written of the drop, and what it is about to write, is whole.
LEMMA WholeStep ==
  ASSUME Shape, [Next]_vars, StrangerInv, SnapshotComplete, PeerInv, FetchInv,
         NEW x \in Node, NEW d \in Id, FirstHand(x, d)', Fetching(x)', job'[x].drop = d
  PROVE  /\ job'[x].pc # "ask" => job'[x].data = "whole"
         /\ \A i \in 0..job'[x].at - 2 : dir'[x][<<d, i>>] = "whole"
<1>1. FirstHand(x, d) /\ Origin[d] # x
  BY Zenon, FirstHandBefore
<1>2. PICK j, k : j = job'[x] /\ k = job[x]
  BY Zenon
<1>3. ASSUME Fetching(x), k.drop = d
      PROVE  /\ k.pc # "ask" => k.data = "whole"
             /\ \A i \in 0..k.at - 2 : dir[x][<<d, i>>] = "whole"
  BY Zenon, <1>1, <1>2, <1>3 DEF FetchInv
<1>4. CASE job'[x] = job[x] /\ Fetching(x) /\ dir'[x] = dir[x]
  BY Zenon, <1>2, <1>3, <1>4
<1>5. ASSUME OpenFile(x), Fetching(x), IsFetch(x, k, got[x]),
             j.pc = "fill", j.drop = k.drop, j.at = k.at, j.data = k.data
      PROVE  /\ j.pc # "ask" => j.data = "whole"
             /\ \A i \in 0..j.at - 2 : dir'[x][<<d, i>>] = "whole"
  <2>1. k.drop = d /\ k.pc = "open" /\ Writes(x, Current(x), "torn")
    BY ZenonT(40), <1>2, <1>5, WriteStep DEF OpenFile
  <2>2. k.data = "whole" /\ \A i \in 0..k.at - 2 : dir[x][<<d, i>>] = "whole"
    BY Zenon, <1>3, <1>5, <2>1
  <2>3. ASSUME NEW i \in 0..k.at - 2 PROVE dir'[x][<<d, i>>] = "whole"
    <3>1. k.at \in Nat /\ k.at <= ChunkCount[d] + 1 /\ ChunkCount[d] \in Nat
      BY Zenon, <1>5, <2>1, ChunkAssumption DEF IsFetch
    <3>2. i \in 0..ChunkCount[d] /\ i # k.at - 1
      BY SMTT(40), <3>1
    <3>3. Fetched(x, k, "torn", d, i)
      BY Zenon, <1>1, <1>2, <2>1, <3>2, FetchWrites
    <3> QED
      BY Zenon, <2>1, <2>2, <3>2, <3>3 DEF Fetched
  <2> QED
    BY Zenon, <1>5, <2>2, <2>3
<1>6. ASSUME FillFile(x), Fetching(x), IsFetch(x, k, got[x]),
             j.pc = "ask", j.drop = k.drop, j.at = k.at + 1
      PROVE  /\ j.pc # "ask" => j.data = "whole"
             /\ \A i \in 0..j.at - 2 : dir'[x][<<d, i>>] = "whole"
  <2>1. k.drop = d /\ k.pc = "fill" /\ Writes(x, Current(x), k.data)
    BY Zenon, <1>2, <1>6, WriteStep DEF FillFile
  <2>2. k.data = "whole" /\ \A i \in 0..k.at - 2 : dir[x][<<d, i>>] = "whole"
    BY Zenon, <1>3, <1>6, <2>1
  <2>3. k.at \in Nat \ {0} /\ k.at <= ChunkCount[d] + 1 /\ ChunkCount[d] \in Nat
    BY Zenon, <1>6, <2>1, ChunkAssumption DEF IsFetch
  <2>4. ASSUME NEW i \in 0..j.at - 2 PROVE dir'[x][<<d, i>>] = "whole"
    <3>1. i \in 0..ChunkCount[d] /\ (i # k.at - 1 => i \in 0..k.at - 2)
      BY SMTT(40), <1>6, <2>3
    <3>2. Fetched(x, k, k.data, d, i)
      BY Zenon, <1>1, <1>2, <2>1, <3>1, FetchWrites
    <3> QED
      BY Zenon, <2>1, <2>2, <3>1, <3>2 DEF Fetched
  <2> QED
    BY Zenon, <1>6, <2>4
<1>7. ASSUME Ask(x), IsFetch(x, k, got[x]), Listening(k.peer), Given(x) # "absent",
             j.drop = k.drop, j.at = k.at, j.data = Given(x), UNCHANGED dir
      PROVE  /\ j.pc # "ask" => j.data = "whole"
             /\ \A i \in 0..j.at - 2 : dir'[x][<<d, i>>] = "whole"
  <2>1. k.drop = d /\ k.pc = "ask" /\ k.op = "fetch" /\ k.at \in Nat \ {0}
    BY ZenonT(40), <1>2, <1>7 DEF Ask, IsFetch
  <2>2. Given(x) = "whole"
    BY ZenonT(40), <1>1, <1>2, <1>7, <2>1, GivenWhole
  <2>3. CASE k.at = 1
    BY SMTT(40), <1>7, <2>2, <2>3
  <2>4. CASE k.at # 1
    <3>1. Fetching(x)
      BY SMTT(40), <1>2, <2>1, <2>4 DEF Fetching, Answered
    <3> QED
      BY Zenon, <1>3, <1>7, <2>1, <2>2, <3>1
  <2> QED
    BY Zenon, <2>3, <2>4
<1>8. CASE /\ Ask(x) /\ IsFetch(x, job[x], got[x]) /\ Listening(job[x].peer) /\ Given(x) # "absent"
           /\ job'[x] = [pc |-> "open", op |-> "fetch", drop |-> job[x].drop, at |-> job[x].at,
                         peer |-> job[x].peer, data |-> Given(x)]
           /\ UNCHANGED <<dir, server>>
  <2>1. j.drop = k.drop /\ j.at = k.at /\ j.data = Given(x) /\ UNCHANGED dir
    BY SMTT(40), <1>2, <1>8
  <2> QED
    BY ZenonT(40), <1>2, <1>7, <1>8, <2>1
<1>9. CASE \/ /\ OpenFile(x) /\ Fetching(x) /\ IsFetch(x, k, got[x])
              /\ j.pc = "fill" /\ j.drop = k.drop /\ j.at = k.at /\ j.data = k.data
           \/ /\ FillFile(x) /\ Fetching(x) /\ IsFetch(x, k, got[x])
              /\ j.pc = "ask" /\ j.drop = k.drop /\ j.at = k.at + 1
  BY ZenonT(40), <1>2, <1>5, <1>6, <1>9
<1> QED
  BY ZenonT(40), <1>2, <1>4, <1>8, <1>9, FetchAfter

\* A drop that was fetched and logged has all its files.
LEMMA LoggedStep ==
  ASSUME Shape, [Next]_vars, FetchInv, NEW x \in Node, NEW d \in Id, FirstHand(x, d)',
         \E i \in DOMAIN log'[x] : log'[x][i] = d, NEW i \in 0..ChunkCount[d]
  PROVE  dir'[x][<<d, i>>] # "absent"
<1>1. FirstHand(x, d) /\ Origin[d] # x
  BY Zenon, FirstHandBefore
<1>2. <<d, i>> \in File /\ ChunkCount[d] \in Nat
  BY FileIs, ChunkAssumption
<1>3. CASE \E a \in DOMAIN log[x] : log[x][a] = d
  <2>1. dir[x][<<d, i>>] # "absent"
    BY Zenon, <1>1, <1>3 DEF FetchInv
  <2> QED
    BY Zenon, <1>2, <2>1, FileStays
<1>4. CASE ~\E a \in DOMAIN log[x] : log[x][a] = d
  <2>1. FillFile(x)
    <3>1. log'[x] # log[x]
      BY Zenon, <1>4
    <3>2. ASSUME \/ OpenFile(x) \/ Ask(x) \/ PushNext(x)
                 \/ \E e \in Id : Create(x, e)
                 \/ \E m \in Node, e \in Id : Fetch(x, m, e) \/ Push(x, m, e)
          PROVE  UNCHANGED log
      BY ZenonT(40), <3>2 DEF OpenFile, Ask, PushNext, Create, Fetch, Push, Start
    <3> QED
      BY Zenon, <3>1, <3>2, JobSteps DEF JobStep
  <2>2. PICK k, s : k = job[x] /\ s = log[x]
    BY Zenon
  <2>3. s \in Seq(Id)
    BY Zenon, <2>2 DEF Shape
  <2>4. k.at = ChunkCount[k.drop] + 1 /\ log'[x] = Append(s, k.drop)
    <3>1. log' # log
      BY Zenon, <1>4
    <3>2. k.at = ChunkCount[k.drop] + 1 /\ log' = [log EXCEPT ![x] = Append(@, k.drop)]
      BY ZenonT(40), <2>1, <2>2, <3>1, FillStep
    <3>3. DOMAIN log = Node
      BY Zenon DEF Shape
    <3> QED
      BY Zenon, <2>2, <3>2, <3>3
  <2>5. k.drop = d
    <3>1. k.drop \in Id
      BY Zenon, <2>1, <2>2, JobKinds DEF FillFile
    <3>2. DOMAIN Append(s, k.drop) = 1..Len(s) + 1 /\ DOMAIN s = 1..Len(s) /\ Len(s) \in Nat
      BY <2>3, <3>1
    <3>3. \A a \in 1..Len(s) : Append(s, k.drop)[a] = s[a]
      BY <2>3, <3>1
    <3>4. Append(s, k.drop)[Len(s) + 1] = k.drop
      BY <2>3, <3>1
    <3>5. PICK a \in 1..Len(s) + 1 : Append(s, k.drop)[a] = d
      BY Zenon, <2>4, <3>2
    <3>6. a \in 1..Len(s) \/ a = Len(s) + 1
      BY SMTT(40), <3>2
    <3> QED
      BY SMTT(30), <1>4, <2>2, <3>2, <3>3, <3>4, <3>5, <3>6
  <2>6. k.pc = "fill" /\ Writes(x, Current(x), k.data) /\ k.data \in {"torn", "whole"}
    BY ZenonT(40), <2>1, <2>2, WriteStep DEF FillFile
  <2>7. Fetched(x, k, k.data, d, i)
    BY Zenon, <1>1, <2>2, <2>6, FetchWrites
  <2>8. \A a \in 0..k.at - 2 : dir[x][<<d, a>>] = "whole"
    <3>1. Fetching(x)
      BY Zenon, <2>5, <2>7 DEF Fetched
    <3> QED
      BY ZenonT(40), <1>1, <2>2, <2>5, <3>1 DEF FetchInv
  <2>9. CASE i = ChunkCount[d]
    <3>1. i = k.at - 1
      BY <1>2, <2>4, <2>5, <2>9
    <3> QED
      BY Zenon, <2>5, <2>6, <2>7, <3>1 DEF Fetched
  <2>10. CASE i # ChunkCount[d]
    <3>1. i # k.at - 1 /\ i \in 0..k.at - 2
      BY SMTT(40), <1>2, <2>4, <2>5, <2>10
    <3> QED
      BY Zenon, <2>5, <2>7, <2>8, <3>1 DEF Fetched
  <2> QED
    BY Zenon, <2>9, <2>10
<1> QED
  BY Zenon, <1>3, <1>4

\* A fetch of a drop nobody else has fetched writes whole files.
LEMMA FetchStep ==
  ASSUME Shape, [Next]_vars, StrangerInv, SnapshotComplete, PeerInv, FetchInv
  PROVE  FetchInv'
<1>1. ASSUME NEW x \in Node, NEW d \in Id, FirstHand(x, d)', NEW i \in 0..ChunkCount[d],
             dir'[x][<<d, i>>] = "torn"
      PROVE  job'[x].pc = "fill" /\ job'[x].op = "fetch" /\ job'[x].drop = d /\ job'[x].at = i + 1
  BY Zenon, <1>1, TornStep
<1>2. ASSUME NEW x \in Node, NEW d \in Id, FirstHand(x, d)', Fetching(x)', job'[x].drop = d
      PROVE  /\ job'[x].pc # "ask" => job'[x].data = "whole"
             /\ \A i \in 0..job'[x].at - 2 : dir'[x][<<d, i>>] = "whole"
  BY Zenon, <1>2, WholeStep
<1>3. ASSUME NEW x \in Node, NEW d \in Id, FirstHand(x, d)',
             \E i \in DOMAIN log'[x] : log'[x][i] = d, NEW i \in 0..ChunkCount[d]
      PROVE  dir'[x][<<d, i>>] # "absent"
  BY Zenon, <1>3, LoggedStep
<1> QED
  BY ZenonT(40), <1>1, <1>2, <1>3 DEF FetchInv

-----------------------------------------------------------------------------
(* The theorems *)

\* At first nothing is served and nobody works.
LEMMA InitShape ==
  ASSUME Init
  PROVE  Shape /\ \A n \in Node : server[n] = Down /\ job[n] = Idle
<1>1. \A n \in Node : server[n] = Down /\ job[n] = Idle
  BY Zenon DEF Init
<1>2. \A n \in Node : IsServer(server[n]) /\ IsJob(n, job[n], got[n])
  BY Zenon, <1>1 DEF IsServer, IsJob
<1>3. <<>> \in Seq(Id)
  OBVIOUS
<1> QED
  BY SMTT(30), <1>1, <1>2, <1>3, BoundAssumption DEF Init, Shape

\* The initial states satisfy the inductive invariant.
LEMMA InitInv ==
  ASSUME Init
  PROVE  IInv
<1>1. Shape /\ \A n \in Node : server[n] = Down /\ job[n] = Idle
  BY Zenon, InitShape
<1>2. \A n \in Node : server[n].kind = "down" /\ job[n].pc = "idle" /\ ~HasStore(n) /\ ~Fetching(n)
  BY <1>1 DEF Down, Idle, HasStore, Fetching
<1>3. \A n \in Node, d \in Id, i \in Nat : i <= ChunkCount[d] => dir[n][<<d, i>>] = "absent"
  BY Zenon, FileIs DEF Init
<1>4. \A d \in Id : ChunkCount[d] \in Nat
  BY Zenon, ChunkAssumption
<1>5. \A n \in Node, d \in Id : /\ dir[n][<<d, 0>>] = "absent"
                               /\ \A i \in 0..ChunkCount[d] : dir[n][<<d, i>>] = "absent"
  BY SMTT(40), <1>3, <1>4
<1>6. StrangerInv /\ CreateInv /\ MadeInv
  BY Zenon, <1>2, <1>5 DEF StrangerInv, CreateInv, MadeInv
<1>7. LoadInv /\ SnapshotComplete
  BY Zenon, <1>2 DEF LoadInv, SnapshotComplete
<1>8. RunInv /\ PushInv
  BY Zenon, <1>2 DEF RunInv, PushInv, Init
<1>9. HeadInv
  <2>1. IsPrefix(<<>>, <<>>)
    BY DEF IsPrefix
  <2> QED
    BY Zenon, <1>2, <2>1 DEF HeadInv, ShownIsLogged, Init
<1>10. PeerInv
  BY Zenon, <1>2 DEF PeerInv
<1>11. FetchInv
  <2>1. \A n \in Node : ~\E i \in DOMAIN log[n] : TRUE
    BY DEF Init
  <2> QED
    BY <1>2, <1>3, <1>4, <2>1 DEF FetchInv
<1> QED
  BY Zenon, <1>1, <1>6, <1>7, <1>8, <1>9, <1>10, <1>11 DEF IInv, StoreInv

\* The inductive invariant: what is known of files, stores, commands, runs and heads in
\* every state.
THEOREM ExchangeInvariant == Spec => []IInv
<1>1. Init => IInv
  BY Zenon, InitInv
<1>2. IInv /\ [Next]_vars => IInv'
  <2> SUFFICES ASSUME IInv, [Next]_vars
               PROVE  IInv'
    BY Zenon
  <2>1. /\ Shape /\ StrangerInv /\ CreateInv /\ MadeInv /\ LoadInv /\ SnapshotComplete
        /\ RunInv /\ PushInv /\ HeadInv /\ PeerInv /\ FetchInv
    BY Zenon DEF IInv, StoreInv
  <2>2. Shape'
    BY Zenon, <2>1, ShapeStep
  <2>3. StrangerInv' /\ CreateInv'
    BY Zenon, <2>1, StrangerStep, CreateStep
  <2>4. MadeInv' /\ LoadInv' /\ SnapshotComplete'
    BY Zenon, <2>1, MadeStep, LoadInvStep, SnapshotStep
  <2>5. RunInv' /\ PushInv'
    BY Zenon, <2>1, RunStep, PushInvStep
  <2>6. HeadInv' /\ PeerInv' /\ FetchInv'
    BY Zenon, <2>1, HeadStep, PeerStep, FetchStep
  <2> QED
    BY Zenon, <2>2, <2>3, <2>4, <2>5, <2>6 DEF IInv, StoreInv
<1> QED
  BY <1>1, <1>2, PTL DEF Spec

\* load_store and create_drop, however they interleave and wherever they stop: what is
\* served of a drop made here is complete, and every envelope is served under its own id. A
\* tree head that anybody was shown is how the log began.
THEOREM ServersServeWholeDrops == Spec => []ServerInv
<1>1. IInv => ServerInv
  <2> SUFFICES ASSUME IInv PROVE ServerInv
    BY Zenon
  <2>1. Shape /\ SnapshotComplete /\ ShownIsLogged
    BY Zenon DEF IInv, StoreInv, HeadInv
  <2>2. TypeOK
    BY ZenonT(40), <2>1, ServerKinds, JobKinds DEF Shape, TypeOK
  <2>3. ServedIsGenuine
    <3>1. ASSUME NEW n \in Node, server[n].kind = "storage" PROVE IsStore(server[n].store)
      BY ZenonT(40), <2>1, <3>1, ServerKinds
    <3> QED
      BY Zenon, <3>1 DEF ServedIsGenuine, IsStore
  <2> QED
    BY Zenon, <2>1, <2>2, <2>3 DEF ServerInv
<1> QED
  BY <1>1, ExchangeInvariant, PTL

\* A push that reported success has left the whole drop at the relay, as long as the
\* relay's server is the one that was sent the envelope.
THEOREM PushesAreHeld == Spec => []PushedIsHeld
<1>1. IInv => PushedIsHeld
  <2> SUFFICES ASSUME IInv, NEW n \in Node, NEW x \in pushed[n],
                      server[n].kind = "storage", server[n].run = x[2]
               PROVE  x[1] \in DOMAIN server[n].store.drops /\ HasAllChunks(server[n].store, x[1])
    BY Zenon DEF PushedIsHeld
  <2>1. Shape /\ Held(n, x[1], x[2], ChunkCount[x[1]])
    BY Zenon DEF IInv, PushInv
  <2>2. server[n].run \in Nat
    BY Zenon, <2>1, RunIs
  <2> QED
    BY <2>1, <2>2 DEF Held, HasAllChunks
<1> QED
  BY <1>1, ExchangeInvariant, PTL

\* A drop that was fetched from the node that made it is whole at the fetching node.
THEOREM FirstHandIsWhole == Spec => []FirstHandWhole
<1>1. IInv => FirstHandWhole
  <2> SUFFICES ASSUME IInv, NEW n \in Node, NEW d \in Id, FirstHand(n, d),
                      \E i \in DOMAIN log[n] : log[n][i] = d, job[n] = Idle, NEW f \in FilesOf(d)
               PROVE  dir[n][f] = "whole"
    BY Zenon DEF FirstHandWhole, FirstHand
  <2>1. Shape /\ FetchInv
    BY Zenon DEF IInv
  <2>2. f \in File /\ f[1] = d
    BY Zenon DEF FilesOf
  <2>3. PICK i \in 0..ChunkCount[d] : f = <<d, i>>
    BY SMTT(40), <2>2, FileIs, ChunkAssumption
  <2>4. dir[n][f] \in {"absent", "torn", "whole"}
    <3>1. dir \in [Node -> [File -> {"absent", "torn", "whole"}]]
      BY Zenon, <2>1 DEF Shape
    <3> QED
      BY <2>2, <3>1
  <2>5. dir[n][f] # "absent"
    BY ZenonT(60), <2>1, <2>3 DEF FetchInv
  <2>6. dir[n][f] # "torn"
    <3>1. job[n].pc # "fill"
      BY DEF Idle
    <3> QED
      BY ZenonT(40), <2>1, <2>3, <3>1 DEF FetchInv
  <2> QED
    BY Zenon, <2>4, <2>5, <2>6
<1> QED
  BY <1>1, ExchangeInvariant, PTL

================================================================================
