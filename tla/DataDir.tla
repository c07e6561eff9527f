------------------------------- MODULE DataDir -------------------------------
(***************************************************************************)
(* A node's data directory: the drop files, the chunk files and the        *)
(* transparency log, under the operations that write them - create_drop    *)
(* (crates/store/src/lib.rs) and fetch / p2p_fetch (crates/cli/src/main.rs)*)
(* - and the ones that read the log and sign what they read.               *)
(*                                                                         *)
(* A process is a CLI command or a request task of the daemon.  Nothing    *)
(* locks the directory, so the steps of the processes interleave at every  *)
(* file operation, and a process may stop between any two of them.         *)
(***************************************************************************)
EXTENDS LogFile

CONSTANTS
  Proc,        \* processes working in the directory
  Local,       \* drops this node may create (an id is drawn at random: fresh)
  Remote,      \* drops of other nodes, held by the peers
  Envelope,    \* the exact envelope bytes of a drop
  ChunkCount,  \* number of ciphertext chunks of a drop
  MaxOps,      \* bound: operations started
  MaxFaults    \* bound: operations that are cut short

Drop == Local \cup Remote

ASSUME DropAssumption ==
  /\ Local \cap Remote = {}
  /\ Envelope \in [Drop -> Seq(Byte)]
  /\ \A d \in Drop : Fits(Len(Envelope[d]))
  /\ ChunkCount \in [Drop -> Nat \ {0}]

ASSUME BoundAssumption == MaxOps \in Nat /\ MaxFaults \in Nat

\* The files of a drop: number 0 is drops/<id>.signed, number i + 1 is
\* chunks/<id>/<i>.bin.
FilesOf(d) == {d} \X (0..ChunkCount[d])

File == UNION {FilesOf(d) : d \in Drop}

EnvelopeFile(d) == <<d, 0>>

ChunkFile(d, i) == <<d, i + 1>>

VARIABLES
  disk,     \* state of every file: absent, torn (truncated, not filled), whole
  entries,  \* log/entries.bin
  job,      \* what each process is doing
  acks,     \* drops whose create or fetch reported success, in order
  heads,    \* the entries that signed tree heads commit to
  ops,      \* operations started
  faults    \* operations cut short

vars == <<disk, entries, job, acks, heads, ops, faults>>

Idle == [pc |-> "idle"]

Job == [pc : {"open", "fill", "header", "body"}, op : {"create", "fetch"},
        drop : Drop, at : Nat \ {0}]

FileAt_envelope_first(op, d, k) == IF k = 1 THEN EnvelopeFile(d) ELSE ChunkFile(d, k - 2)

\* The k-th file an operation writes: create_drop writes the chunks and then the
\* envelope, fetch the envelope and then the chunks.
FileAt(op, d, k) ==
  IF op = "create"
  THEN IF k <= ChunkCount[d] THEN ChunkFile(d, k - 1) ELSE EnvelopeFile(d)
  ELSE IF k = 1 THEN EnvelopeFile(d) ELSE ChunkFile(d, k - 2)

\* The file process p is at.
CurrentFile(p) == FileAt(job[p].op, job[p].drop, job[p].at)

Header(d) == to_be_bytes(Len(Envelope[d]))

Init ==
  /\ disk = [f \in File |-> "absent"]
  /\ entries = <<>>
  /\ job = [p \in Proc |-> Idle]
  /\ acks = <<>>
  /\ heads = {}
  /\ ops = 0
  /\ faults = 0

Acked == {acks[i] : i \in DOMAIN acks}

Working(p, d) == job[p].pc # "idle" /\ job[p].drop = d

Fresh(d) == (\A f \in FilesOf(d) : disk[f] = "absent") /\ \A p \in Proc : ~Working(p, d)

Start(p, op, d) ==
  /\ job[p].pc = "idle"
  /\ ops < MaxOps
  /\ ops' = ops + 1
  /\ job' = [job EXCEPT ![p] = [pc |-> "open", op |-> op, drop |-> d, at |-> 1]]
  /\ UNCHANGED <<disk, entries, acks, heads, faults>>

\* Process p, still at the same operation, goes on at pc with its at-th file.
GoTo(p, pc, at) ==
  job' = [job EXCEPT ![p] = [pc |-> pc, op |-> job[p].op, drop |-> job[p].drop, at |-> at]]

\* create_drop up to its first write: the arguments, identity and contacts are
\* good (otherwise it returns with the directory unchanged) and the id is new.
CreateDrop(p, d) == Fresh(d) /\ Start(p, "create", d)

\* Drops a peer may hold: its own, and those it was served from this directory.
Offered(d) == d \in Remote \cup Acked \/ disk[EnvelopeFile(d)] = "whole"

\* fetch up to its first write: a peer answered with the envelope, which is valid.
FetchDrop(p, d) == Offered(d) /\ Start(p, "fetch", d)

\* fs::write, first half: the file is created, or truncated if it exists.
OpenFile(p) ==
  /\ job[p].pc = "open"
  /\ disk' = [disk EXCEPT ![CurrentFile(p)] = "torn"]
  /\ GoTo(p, "fill", job[p].at)
  /\ UNCHANGED <<entries, acks, heads, ops, faults>>

FillFile_one_past(p) ==
  /\ job[p].pc = "fill"
  /\ disk' = [disk EXCEPT ![CurrentFile(p)] = "whole"]
  /\ \/ job[p].at <= ChunkCount[job[p].drop] + 1 /\ GoTo(p, "open", job[p].at + 1)
     \/ job[p].at > ChunkCount[job[p].drop] + 1 /\ GoTo(p, "header", job[p].at)
  /\ UNCHANGED <<entries, acks, heads, ops, faults>>

FillFile_log_first(p) ==
  /\ job[p].pc = "fill"
  /\ disk' = [disk EXCEPT ![CurrentFile(p)] = "whole"]
  /\ \/ job[p].at < ChunkCount[job[p].drop] /\ GoTo(p, "open", job[p].at + 1)
     \/ job[p].at >= ChunkCount[job[p].drop] /\ GoTo(p, "header", job[p].at)
  /\ UNCHANGED <<entries, acks, heads, ops, faults>>

\* fs::write, second half, and the step to the next file or to the log.
FillFile(p) ==
  /\ job[p].pc = "fill"
  /\ disk' = [disk EXCEPT ![CurrentFile(p)] = "whole"]
  /\ \/ job[p].at <= ChunkCount[job[p].drop] /\ GoTo(p, "open", job[p].at + 1)
     \/ job[p].at > ChunkCount[job[p].drop] /\ GoTo(p, "header", job[p].at)
  /\ UNCHANGED <<entries, acks, heads, ops, faults>>

PeerMissing_after_open(p) ==
  /\ job[p].pc \in {"open", "fill"}
  /\ job[p].op = "fetch"
  /\ job[p].at > 1
  /\ job' = [job EXCEPT ![p] = Idle]
  /\ UNCHANGED <<disk, entries, acks, heads, ops, faults>>

\* fetch gives up: the peer is missing the chunk, or the connection fails.
PeerMissing(p) ==
  /\ job[p].pc = "open"
  /\ job[p].op = "fetch"
  /\ job[p].at > 1
  /\ job' = [job EXCEPT ![p] = Idle]
  /\ UNCHANGED <<disk, entries, acks, heads, ops, faults>>

WriteHeader_truncating(p) ==
  /\ job[p].pc = "header"
  /\ entries' = Header(job[p].drop)
  /\ GoTo(p, "body", job[p].at)
  /\ UNCHANGED <<disk, acks, heads, ops, faults>>

WriteHeader_counts_itself(p) ==
  /\ job[p].pc = "header"
  /\ entries' = entries \o to_be_bytes(HeaderLen + Len(Envelope[job[p].drop]))
  /\ GoTo(p, "body", job[p].at)
  /\ UNCHANGED <<disk, acks, heads, ops, faults>>

\* append_log_entry, first write_all: the length.
WriteHeader(p) ==
  /\ job[p].pc = "header"
  /\ entries' = entries \o Header(job[p].drop)
  /\ GoTo(p, "body", job[p].at)
  /\ UNCHANGED <<disk, acks, heads, ops, faults>>

\* append_log_entry, second write_all: the envelope; the operation returns Ok.
WriteBody(p) ==
  /\ job[p].pc = "body"
  /\ entries' = entries \o Envelope[job[p].drop]
  /\ acks' = Append(acks, job[p].drop)
  /\ job' = [job EXCEPT ![p] = Idle]
  /\ UNCHANGED <<disk, heads, ops, faults>>

\* The bytes process p is about to append to the log.
Pending(p) ==
  IF job[p].pc = "header" THEN Header(job[p].drop)
  ELSE IF job[p].pc = "body" THEN Envelope[job[p].drop] ELSE <<>>

\* An operation ends early.  Some of the bytes it was about to append are written,
\* perhaps all; a fs::write that is cut short leaves a torn file.
CutShort(p) ==
  /\ job[p].pc # "idle"
  /\ faults < MaxFaults
  /\ faults' = faults + 1
  /\ job' = [job EXCEPT ![p] = Idle]
  /\ \E n \in 0..Len(Pending(p)) : entries' = entries \o SubSeq(Pending(p), 1, n)
  /\ UNCHANGED <<disk, heads, ops>>

\* The process is killed, or a file operation fails and the operation returns Err.
Crash(p) == CutShort(p) /\ UNCHANGED acks

\* Appending fails in fetch, which ignores the error and reports success.
IgnoredAppendError(p) ==
  /\ job[p].pc \in {"header", "body"}
  /\ job[p].op = "fetch"
  /\ CutShort(p)
  /\ acks' = Append(acks, job[p].drop)

\* signed_tree_head: the log is read once and a head over what was read is signed.  A
\* file that cannot be read counts as an empty log.
SignTreeHead ==
  /\ \E read \in {entries, <<>>} : heads' = heads \cup {log_entries(read)}
  /\ UNCHANGED <<disk, entries, job, acks, ops, faults>>

Step(p) ==
  \/ OpenFile(p) \/ FillFile(p) \/ PeerMissing(p)
  \/ WriteHeader(p) \/ WriteBody(p)
  \/ Crash(p) \/ IgnoredAppendError(p)

Next ==
  \/ \E p \in Proc, d \in Local : CreateDrop(p, d)
  \/ \E p \in Proc, d \in Drop : FetchDrop(p, d)
  \/ \E p \in Proc : Step(p)
  \/ SignTreeHead

Spec == Init /\ [][Next]_vars

------------------------------------------------------------------------------
\* Every variable keeps its type.
TypeOK ==
  /\ disk \in [File -> {"absent", "torn", "whole"}]
  /\ entries \in Seq(Byte)
  /\ job \in [Proc -> Job \cup {Idle}]
  /\ \A p \in Proc : job[p].pc # "idle" => job[p].at <= ChunkCount[job[p].drop] + 1
  /\ acks \in Seq(Drop)
  /\ heads \in SUBSET Seq(Seq(Byte))
  /\ ops \in 0..MaxOps
  /\ faults \in 0..MaxFaults

\* Whatever the processes do and wherever they stop, the list of entries a reader
\* is given is never shortened or rewritten: the old list is a prefix of the new
\* one, also when headers and bodies of two appends are mixed or an append is torn.
LogAppendOnly == [][IsPrefix(log_entries(entries), log_entries(entries'))]_vars

\* Every tree head the node has signed commits to a prefix of today's log.
HeadsArePrefixes == \A h \in heads : IsPrefix(h, log_entries(entries))

\* The node never gives evidence of equivocation (detect_equivocation): two of its
\* tree heads with the same size commit to the same entries.
NoEquivocation == \A h, g \in heads : Len(h) = Len(g) => h = g

\* The log and the acknowledgements run behind the files: once an operation has
\* reached the log, or has reported success, every file of its drop exists.
StoredBeforeLogged ==
  \A d \in Drop :
    (d \in Acked \/ \E p \in Proc : Working(p, d) /\ job[p].pc \in {"header", "body"})
      => \A f \in FilesOf(d) : disk[f] # "absent"

\* create_drop publishes a drop by writing its envelope last: whoever finds the
\* envelope of a created drop finds all of its chunk files.
CreatedNeverPartial ==
  \A d \in Local :
    disk[EnvelopeFile(d)] # "absent" => \A f \in FilesOf(d) : disk[f] # "absent"

\* A truncated file is being filled by some process, or an operation was cut short:
\* interleaving alone never leaves a torn file behind.
TornHasCause ==
  \A f \in File :
    disk[f] = "torn" =>
      \/ faults > 0
      \/ \E p \in Proc : job[p].pc = "fill" /\ CurrentFile(p) = f

Appending == \E p \in Proc : job[p].pc = "body"

\* One process and no fault: between two appends the log is exactly the envelopes
\* of the operations that reported success, in that order.
LogIsAcks ==
  ~Appending => log_entries(entries) = [i \in DOMAIN acks |-> Envelope[acks[i]]]

\* Every entry of the log is the exact envelope of a drop.
EntriesAreEnvelopes ==
  \A i \in DOMAIN log_entries(entries) :
    \E d \in Drop : log_entries(entries)[i] = Envelope[d]

\* A drop whose creation or fetch reported success is in the log.
AckedIsLogged ==
  \A d \in Acked : \E i \in DOMAIN log_entries(entries) : log_entries(entries)[i] = Envelope[d]

Log == INSTANCE AppendOnlyLog WITH log <- log_entries(entries), heads <- heads

\* The data directory implements the append-only log.
ImplementsLog == Log!Spec

==============================================================================
