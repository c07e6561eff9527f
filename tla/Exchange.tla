------------------------------ MODULE Exchange ------------------------------
(***************************************************************************)
(* Nodes that exchange drops over TCP (crates/cli/src/main.rs, crates/node,*)
(* crates/store): a node creates drops in its directory, serves a snapshot *)
(* of it, fetches drops from and pushes drops to the servers of others, and*)
(* serves and reads signed tree heads.  File operations, requests and the  *)
(* loading of a snapshot interleave; a connection may fail before a request*)
(* is handled or after it, servers and commands may stop anywhere, and a   *)
(* machine may fall silent: neither connect nor recv has a timeout.        *)
(***************************************************************************)
EXTENDS Net, Prefixes

CONSTANTS
  Node,
  Origin,      \* Origin[d]: the node that creates drop d
  ChunkCount,  \* ChunkCount[d]: its number of chunks
  MaxOps,      \* bound: commands started
  MaxFaults    \* bound: killed commands, stopped or silent servers, failed connections

Id == DOMAIN Origin

\* Sealing yields at least one chunk, for empty contents too.
ASSUME ChunkAssumption == ChunkCount \in [Id -> Nat \ {0}]

ASSUME BoundAssumption == MaxOps \in Nat /\ MaxFaults \in Nat

\* File 0 of a drop is its envelope, file i + 1 its chunk i.
File == UNION {{d} \X (0..ChunkCount[d]) : d \in Id}

VARIABLES
  dir,     \* dir[n][f]: "absent", "torn" (truncated) or "whole"
  server,  \* server[n]: what listens at n's address
  job,     \* job[n]: the command that runs at n
  log,     \* log[n]: the drops n has logged, in order
  seen,    \* seen[n][m]: the last tree head n was given by m
  pushed,  \* pushed[n]: drops a push to n reported as stored, and by which run of n's server
  got,     \* got[n]: drops that came to n from others, in files or in memory
  ops, faults

vars == <<dir, server, job, log, seen, pushed, got, ops, faults>>

Idle == [pc |-> "idle"]

Down == [kind |-> "down"]

\* A peer that takes a connection, or lets it hang, and never answers.
Mute == [kind |-> "mute"]

\* What a truncated envelope file holds, which is the envelope of no drop.
Torn == "torn"

ASSUME TornAssumption == Torn \notin Id

Init ==
  /\ dir = [n \in Node |-> [f \in File |-> "absent"]]
  /\ server = [n \in Node |-> Down]
  /\ job = [n \in Node |-> Idle]
  /\ log = [n \in Node |-> <<>>]
  /\ seen = [n \in Node |-> [m \in Node |-> <<>>]]
  /\ pushed = [n \in Node |-> {}]
  /\ got = [n \in Node |-> {}]
  /\ ops = 0
  /\ faults = 0

Goto(n, j) == job' = [job EXCEPT ![n] = j]

Start(n, j) ==
  /\ job[n] = Idle
  /\ ops < MaxOps
  /\ ops' = ops + 1
  /\ Goto(n, j)
  /\ UNCHANGED <<dir, server, log, seen, pushed, got, faults>>

Fault == faults < MaxFaults /\ faults' = faults + 1

-----------------------------------------------------------------------------
(* Commands that write files *)

FileAt_envelope_first(op, d, k) == <<d, k - 1>>

\* The k-th file a command writes: create_drop writes the envelope last, fetch first.
FileAt(op, d, k) == IF op = "create" /\ k <= ChunkCount[d] THEN <<d, k>>
                    ELSE IF op = "create" THEN <<d, 0>> ELSE <<d, k - 1>>

Current(n) == FileAt(job[n].op, job[n].drop, job[n].at)

\* create_drop: a fresh id, all chunks in memory.
Create(n, d) ==
  /\ Origin[d] = n
  /\ \A f \in File : f[1] = d => dir[n][f] = "absent"
  /\ Start(n, [pc |-> "open", op |-> "create", drop |-> d, at |-> 1, data |-> "whole"])

\* fetch: the command line names a peer and an id.
Fetch(n, m, d) ==
  /\ n # m
  /\ Start(n, [pc |-> "ask", op |-> "fetch", drop |-> d, at |-> 1, peer |-> m])

\* fs::write, first half.
OpenFile(n) ==
  /\ job[n].pc = "open"
  /\ dir' = [dir EXCEPT ![n][Current(n)] = "torn"]
  /\ Goto(n, [job[n] EXCEPT !.pc = "fill"])
  /\ UNCHANGED <<server, log, seen, pushed, got, ops, faults>>

\* fs::write, second half, and the way to the next file; after the last file the
\* drop is logged and the command reports success.
FillFile(n) ==
  /\ job[n].pc = "fill"
  /\ dir' = [dir EXCEPT ![n][Current(n)] = job[n].data]
  /\ IF job[n].at <= ChunkCount[job[n].drop]
     THEN /\ Goto(n, [job[n] EXCEPT !.pc = IF job[n].op = "fetch" THEN "ask" ELSE "open", !.at = @ + 1])
          /\ UNCHANGED log
     ELSE /\ Goto(n, Idle)
          /\ log' = [log EXCEPT ![n] = Append(@, job[n].drop)]
  /\ UNCHANGED <<server, seen, pushed, got, ops, faults>>

-----------------------------------------------------------------------------
(* Servers *)

\* serve, p2p_serve: load_store reads the envelope files first.
LoadStart(n) ==
  /\ server[n] = Down
  /\ server' = [server EXCEPT ![n] =
       [kind |-> "loading", run |-> faults, store |-> EmptyStore, todo |-> {f \in File : f[2] = 0}]]
  /\ UNCHANGED <<dir, job, log, seen, pushed, got, ops, faults>>

Loaded_by_name(store, f, content) ==
  CASE content = "absent" -> store
    [] content # "absent" /\ f[2] = 0 ->
         put_drop(store, f[1], IF content = "whole" THEN f[1] ELSE Torn)
    [] content # "absent" /\ f[2] > 0 -> put_chunk(store, f[1], f[2] - 1, content)

\* What load_store makes of a file.  An envelope is stored under the hash of the
\* bytes that were read, a chunk under the name of its directory and file.
Loaded(store, f, content) ==
  CASE content = "absent" -> store
    [] content # "absent" /\ f[2] = 0 ->
         LET raw == IF content = "whole" THEN f[1] ELSE Torn
         IN  put_drop(store, DropIdOf(raw), raw)
    [] content # "absent" /\ f[2] > 0 -> put_chunk(store, f[1], f[2] - 1, content)

\* load_store reads one file; after the envelopes come the chunks.
LoadFile(n, f) ==
  /\ server[n].kind = "loading"
  /\ f \in server[n].todo
  /\ LET store == Loaded(server[n].store, f, dir[n][f])
         left == server[n].todo \ {f}
         chunks == {c \in File : c[2] > 0}
     IN  server' = [server EXCEPT ![n] =
           IF left = {} /\ f[2] > 0 THEN [kind |-> "storage", run |-> server[n].run, store |-> store]
           ELSE [server[n] EXCEPT !.store = store, !.todo = IF left = {} THEN chunks ELSE left]]
  /\ UNCHANGED <<dir, job, log, seen, pushed, got, ops, faults>>

\* sth_serve: one head is signed at the start and served from then on; a log that
\* cannot be read counts as empty.
SthServe(n) ==
  /\ server[n] = Down
  /\ \E head \in {log[n], <<>>} :
       server' = [server EXCEPT ![n] = [kind |-> "sth", run |-> faults, store |-> head]]
  /\ UNCHANGED <<dir, job, log, seen, pushed, got, ops, faults>>

\* The server process ends, and with it everything it had in memory.
Stop(n) ==
  /\ server[n] # Down
  /\ Fault
  /\ server' = [server EXCEPT ![n] = Down]
  /\ UNCHANGED <<dir, job, log, seen, pushed, got, ops>>

\* The server's machine or the network between falls silent: connections stay open and
\* nothing arrives any more.
FallSilent(n) ==
  /\ server[n] \notin {Down, Mute}
  /\ Fault
  /\ server' = [server EXCEPT ![n] = Mute]
  /\ UNCHANGED <<dir, job, log, seen, pushed, got, ops>>

-----------------------------------------------------------------------------
(* Requests *)

Listening(m) == server[m].kind \in {"storage", "sth"}

Answer(s, msg) == IF s.kind = "storage" THEN respond(s.store, msg) ELSE sth_respond(s.store, msg)

\* The exchange on one connection: Hello, whose answer is not looked at, then msg.
Exchanged(m, msg) == Answer([server[m] EXCEPT !.store = Answer(server[m], Hello).store], msg)

\* The peer has handled msg.
Handled(m, msg) == server' = [server EXCEPT ![m].store = Exchanged(m, msg).store]

\* fetch's next request: the envelope, or the next chunk.
Request(n) ==
  IF job[n].at = 1 THEN Want(job[n].drop) ELSE WantChunk(job[n].drop, job[n].at - 2)

\* What fetch gets out of an answer: the content of a file.  An envelope must decode
\* and verify.  A chunk is taken as it is.
Content(reply) ==
  CASE reply.kind = "Drop" /\ reply.raw \in Genuine -> "whole"
    [] reply.kind = "Chunk" -> reply.data
    [] OTHER -> "absent"

\* fetch asks, is answered, and goes on to write the file or gives up.
Ask(n) ==
  /\ job[n].pc = "ask"
  /\ Listening(job[n].peer)
  /\ LET c == Content(Exchanged(job[n].peer, Request(n)).reply)
     IN  IF c = "absent" THEN Goto(n, Idle) /\ UNCHANGED got
         ELSE /\ Goto(n, [pc |-> "open", op |-> "fetch", drop |-> job[n].drop, at |-> job[n].at,
                          peer |-> job[n].peer, data |-> c])
              /\ got' = [got EXCEPT ![n] = @ \cup {job[n].drop}]
  /\ UNCHANGED <<dir, server, log, seen, pushed, ops, faults>>

\* push: the envelope is read and decoded.
Push(n, m, d) ==
  /\ n # m
  /\ dir[n][<<d, 0>>] = "whole"
  /\ Start(n, [pc |-> "put", op |-> "push", drop |-> d, at |-> 0, peer |-> m, run |-> 0])

\* push's next request: the envelope, or the next chunk as it is on disk.
PushRequest(n) ==
  IF job[n].at = 0 THEN Put(job[n].drop)
  ELSE PutChunk(job[n].drop, job[n].at - 1, dir[n][<<job[n].drop, job[n].at>>])

\* The file that push sends next cannot be read.
PushUnreadable(n) ==
  /\ job[n].pc = "put"
  /\ job[n].at > 0
  /\ dir[n][<<job[n].drop, job[n].at>>] = "absent"
  /\ Goto(n, Idle)
  /\ UNCHANGED <<dir, server, log, seen, pushed, got, ops, faults>>

Readable(n) == job[n].at = 0 \/ dir[n][<<job[n].drop, job[n].at>>] # "absent"

\* push sends a file and is answered; any answer but Stored ends the command.
PushNext(n) ==
  /\ job[n].pc = "put"
  /\ Readable(n)
  /\ LET m == job[n].peer
         d == job[n].drop
     IN  /\ Listening(m)
         /\ Handled(m, PushRequest(n))
         /\ got' = IF server[m].kind = "storage" THEN [got EXCEPT ![m] = @ \cup {d}] ELSE got
         /\ IF Exchanged(m, PushRequest(n)).reply.kind # "Stored"
            THEN Goto(n, Idle) /\ UNCHANGED pushed
            ELSE IF job[n].at < ChunkCount[d]
            THEN /\ Goto(n, [job[n] EXCEPT !.at = @ + 1, !.run = IF job[n].at = 0 THEN server[m].run ELSE @])
                 /\ UNCHANGED pushed
            ELSE /\ Goto(n, Idle)
                 /\ pushed' = [pushed EXCEPT ![m] = @ \cup {<<d, job[n].run>>}]
  /\ UNCHANGED <<dir, log, seen, ops, faults>>

\* The connection breaks after the peer has stored what was sent.
PushAnswerLost(n) ==
  /\ job[n].pc = "put"
  /\ Readable(n)
  /\ Listening(job[n].peer)
  /\ Fault
  /\ Handled(job[n].peer, PushRequest(n))
  /\ got' = IF server[job[n].peer].kind = "storage"
            THEN [got EXCEPT ![job[n].peer] = @ \cup {job[n].drop}] ELSE got
  /\ Goto(n, Idle)
  /\ UNCHANGED <<dir, log, seen, pushed, ops>>

Refused_retries_push(n) ==
  /\ job[n].pc = "ask"
  /\ ~Listening(job[n].peer)
  /\ server[job[n].peer] # Mute
  /\ Goto(n, Idle)
  /\ UNCHANGED <<dir, server, log, seen, pushed, got, ops, faults>>

\* Nobody listens at the peer's address: connecting fails and the command ends.
Refused(n) ==
  /\ job[n].pc \in {"ask", "put"}
  /\ ~Listening(job[n].peer)
  /\ server[job[n].peer] # Mute
  /\ Goto(n, Idle)
  /\ UNCHANGED <<dir, server, log, seen, pushed, got, ops, faults>>

\* sth_fetch: a head that verifies is shown; any other answer is an error.
SthFetch(n, m) ==
  /\ n # m
  /\ job[n] = Idle
  /\ Listening(m)
  /\ LET reply == Exchanged(m, GetSth).reply
     IN  reply.kind = "Sth" /\ seen' = [seen EXCEPT ![n][m] = reply.head]
  /\ UNCHANGED <<dir, server, job, log, pushed, got, ops, faults>>

\* A command is killed, loses its connection, or fails on a file.
Crash(n) ==
  /\ job[n] # Idle
  /\ Fault
  /\ Goto(n, Idle)
  /\ UNCHANGED <<dir, server, log, seen, pushed, got, ops>>

\* What a command does at its own machine.
Run(n) == OpenFile(n) \/ FillFile(n) \/ PushUnreadable(n) \/ Refused(n)

\* A server that listens handles the command's request.
Served(n) == Ask(n) \/ PushNext(n)

Next ==
  \E n \in Node :
    \/ Run(n) \/ Served(n)
    \/ Crash(n) \/ Stop(n) \/ FallSilent(n) \/ PushAnswerLost(n)
    \/ LoadStart(n) \/ SthServe(n)
    \/ \E f \in File : LoadFile(n, f)
    \/ \E d \in Id : Create(n, d)
    \/ \E m \in Node, d \in Id : Fetch(n, m, d) \/ Push(n, m, d)
    \/ \E m \in Node : SthFetch(n, m)

\* The runtime schedules a command that can go on, and a server that stays up handles
\* the requests it is sent, each connection in a task of its own.  Nothing is assumed of
\* a silent peer, and nothing makes users start commands or servers.
Fairness == \A n \in Node : WF_vars(Run(n)) /\ WF_vars(Served(n))

Spec == Init /\ [][Next]_vars /\ Fairness

-----------------------------------------------------------------------------
FilesOf(d) == {f \in File : f[1] = d}

HasAllChunks(store, d) == \A i \in 0..ChunkCount[d] - 1 : <<d, i>> \in DOMAIN store.chunks

\* Files, servers, commands, logs and heads keep their types.
TypeOK ==
  /\ dir \in [Node -> [File -> {"absent", "torn", "whole"}]]
  /\ \A n \in Node : server[n].kind \in {"down", "mute", "loading", "storage", "sth"}
  /\ \A n \in Node : job[n].pc \in {"idle", "open", "fill", "ask", "put"}
  /\ log \in [Node -> Seq(Id)]
  /\ seen \in [Node -> [Node -> Seq(Id)]]
  /\ pushed \in [Node -> SUBSET (Id \X (0..MaxFaults))] /\ got \in [Node -> SUBSET Id]
  /\ ops \in 0..MaxOps /\ faults \in 0..MaxFaults

\* load_store reads envelopes before chunks and create_drop writes chunks before the
\* envelope: however the two interleave, and wherever create_drop stops, a snapshot
\* with the envelope of a drop made here has all its chunks, none of them torn.
SnapshotComplete ==
  \A n \in Node, d \in Id :
    /\ server[n].kind = "storage"
    /\ Origin[d] = n
    /\ d \notin got[n]
    /\ d \in DOMAIN server[n].store.drops
    => \A i \in 0..ChunkCount[d] - 1 :
         <<d, i>> \in DOMAIN server[n].store.chunks /\ server[n].store.chunks[<<d, i>>] = "whole"

\* A server answers Want(d) with the envelope of d or not at all: a torn file, or one
\* being rewritten while it is read, is never served under the drop's id.
ServedIsGenuine ==
  \A n \in Node : server[n].kind = "storage" =>
    \A d \in Id \cap DOMAIN server[n].store.drops : server[n].store.drops[d] = d

\* A tree head, which sth_serve signs once and serves from then on, stays true however
\* far the log has grown since: what n was shown by m is how m's log began.
ShownIsLogged == \A n, m \in Node : IsPrefix(seen[n][m], log[m])

\* What holds of every server: its type, complete snapshots, genuine answers.
ServerInv == TypeOK /\ SnapshotComplete /\ ServedIsGenuine /\ ShownIsLogged

\* push reported success: the relay holds the whole drop, unless its server was
\* restarted since the first request (a push does not notice a restart in between).
PushedIsHeld ==
  \A n \in Node : \A x \in pushed[n] :
    server[n].kind = "storage" /\ server[n].run = x[2] =>
      x[1] \in DOMAIN server[n].store.drops /\ HasAllChunks(server[n].store, x[1])

\* End to end: a drop that was fetched from the server of the node that made it, and
\* that nobody else has handled, is whole at the fetching node.
FirstHandWhole ==
  \A n \in Node, d \in Id :
    /\ n # Origin[d]
    /\ \E i \in DOMAIN log[n] : log[n][i] = d
    /\ \A m \in Node \ {n} : d \notin got[m]
    /\ faults = 0
    /\ job[n] = Idle
    => \A f \in FilesOf(d) : dir[n][f] = "whole"

\* The command at n waits for an answer of a peer that is silent.
Waiting(n) == job[n].pc \in {"ask", "put"} /\ server[job[n].peer] = Mute

\* Every create, fetch and push ends or comes to wait for a peer that has fallen silent:
\* a peer that is missing a chunk, answers with something else, stops, restarts or does
\* not listen ends the command.
CommandsEnd == \A n \in Node : job[n] # Idle ~> (job[n] = Idle \/ Waiting(n))

=============================================================================
