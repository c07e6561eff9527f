------------------------------- MODULE Anchors -------------------------------
(***************************************************************************)
(* The chain of anchor receipts: HashChainAnchor (crates/log/src/anchor.rs)*)
(* as log-anchor uses it (crates/cli/src/main.rs).  The command reads the  *)
(* log, then log/anchors.txt, adds a receipt and writes the whole file     *)
(* back; nothing locks the file.  fs::write truncates the file and then    *)
(* writes from offset 0, so two overlapping writes leave the longer one's  *)
(* tail behind the other's lines.  All lines have the same width.          *)
(***************************************************************************)
EXTENDS Integers, Sequences

CONSTANTS
  Proc,        \* log-anchor commands
  MaxSize,     \* bound: entries of the log
  MaxAnchors,  \* bound: commands started
  MaxFaults    \* bound: commands cut short, and reads that fail

VARIABLES
  size,      \* entries of the local log; its root is determined by them
  receipts,  \* the whole lines of anchors.txt
  cut,       \* the file ends in a line whose last field is cut off
  job,       \* what each command is doing
  anchored,  \* receipts whose command reported "anchored"
  mixed,     \* a command opened the file while another was writing it
  started,   \* commands started
  faults     \* commands cut short, and reads that failed

vars == <<size, receipts, cut, job, anchored, mixed, started, faults>>

GENESIS == <<>>

\* SHA-256 over the predecessor and the tree head, as a term.  The time is left
\* out: two commands may run within one second.
link_hash(previous, tree_size) == <<previous, tree_size>>

\* HashChainAnchor::from_links: the last link of the chain that was read.
Latest(chain) == IF chain = <<>> THEN GENESIS ELSE chain[Len(chain)].link

submit_from_genesis(chain, n) ==
  [tree_size |-> n, previous |-> GENESIS, link |-> link_hash(GENESIS, n)]

\* HashChainAnchor::submit: the receipt that extends the chain.
submit(chain, n) ==
  [tree_size |-> n, previous |-> Latest(chain), link |-> link_hash(Latest(chain), n)]

verify_link(r) == link_hash(r.previous, r.tree_size) = r.link

verify_receipts(chain) ==
  \A i \in DOMAIN chain :
    chain[i].previous = Latest(SubSeq(chain, 1, i - 1)) /\ verify_link(chain[i])

Idle == [pc |-> "idle"]

Init ==
  /\ size = 0
  /\ receipts = <<>>
  /\ cut = FALSE
  /\ job = [p \in Proc |-> Idle]
  /\ anchored = {}
  /\ mixed = FALSE
  /\ started = 0
  /\ faults = 0

\* Another operation appends to the log.
GrowLog ==
  /\ size < MaxSize
  /\ size' = size + 1
  /\ UNCHANGED <<receipts, cut, job, anchored, mixed, started, faults>>

\* log_anchor reads the log, which holds the drop, and signs a head over it.
ReadLog(p) ==
  /\ job[p].pc = "idle"
  /\ started < MaxAnchors
  /\ size > 0
  /\ started' = started + 1
  /\ job' = [job EXCEPT ![p] = [pc |-> "load", tree_size |-> size]]
  /\ UNCHANGED <<size, receipts, cut, anchored, mixed, faults>>

\* load_receipts, submit and push: what the file will hold.
LoadReceipts(p) ==
  /\ job[p].pc = "load"
  /\ ~cut
  /\ job' = [job EXCEPT ![p] =
       [pc |-> "open", chain |-> Append(receipts, submit(receipts, job[p].tree_size))]]
  /\ UNCHANGED <<size, receipts, cut, anchored, mixed, started, faults>>

\* load_receipts takes a file it cannot read for one that is not there: the command
\* starts a new chain, and will write it over the old one.
LoadUnread(p) ==
  /\ job[p].pc = "load"
  /\ faults < MaxFaults
  /\ faults' = faults + 1
  /\ job' = [job EXCEPT ![p] = [pc |-> "open", chain |-> <<submit(<<>>, job[p].tree_size)>>]]
  /\ UNCHANGED <<size, receipts, cut, anchored, mixed, started>>

\* load_receipts on a line that does not parse: the command fails.
LoadFails(p) ==
  /\ job[p].pc = "load"
  /\ cut
  /\ job' = [job EXCEPT ![p] = Idle]
  /\ UNCHANGED <<size, receipts, cut, anchored, mixed, started, faults>>

Writing(p) == job[p].pc = "write"

\* save_receipts, fs::write, first half.
Truncate(p) ==
  /\ job[p].pc = "open"
  /\ receipts' = <<>>
  /\ cut' = FALSE
  /\ job' = [job EXCEPT ![p] = [pc |-> "write", chain |-> job[p].chain]]
  /\ mixed' = (mixed \/ \E q \in Proc : Writing(q))
  /\ UNCHANGED <<size, anchored, started, faults>>

\* save_receipts, fs::write, second half; the command reports its receipt.
Save(p) ==
  LET chain == job[p].chain IN
  /\ job[p].pc = "write"
  /\ receipts' = chain \o SubSeq(receipts, Len(chain) + 1, Len(receipts))
  /\ cut' = (cut /\ Len(receipts) >= Len(chain))
  /\ anchored' = anchored \cup {chain[Len(chain)]}
  /\ job' = [job EXCEPT ![p] = Idle]
  /\ UNCHANGED <<size, mixed, started, faults>>

\* The command is killed, or a file operation fails: part of its text is written.
\* A last line with fewer than five fields is skipped by load_receipts, as if it
\* were not there; one with a short fifth field is an error.
Crash(p) ==
  /\ job[p].pc # "idle"
  /\ faults < MaxFaults
  /\ faults' = faults + 1
  /\ job' = [job EXCEPT ![p] = Idle]
  /\ IF job[p].pc = "write"
     THEN \E n \in 0..Len(job[p].chain) :
            /\ receipts' = SubSeq(job[p].chain, 1, n) \o SubSeq(receipts, n + 1, Len(receipts))
            /\ cut' \in (IF n < Len(receipts) THEN {cut}
                        ELSE IF n < Len(job[p].chain) THEN BOOLEAN
                        ELSE {cut /\ n = Len(receipts)})
     ELSE UNCHANGED <<receipts, cut>>
  /\ UNCHANGED <<size, anchored, mixed, started>>

Next ==
  \/ GrowLog
  \/ \E p \in Proc :
       \/ ReadLog(p)
       \/ LoadReceipts(p) \/ LoadUnread(p) \/ LoadFails(p)
       \/ Truncate(p) \/ Save(p)
       \/ Crash(p)

Spec == Init /\ [][Next]_vars

------------------------------------------------------------------------------
Quiet == \A p \in Proc : ~Writing(p)

\* Commands may overlap, stop anywhere and fail to read the file, and receipts may be
\* lost that way; but whenever nobody is writing and the file parses, log-anchors
\* reports an unbroken chain: every receipt carries the link of the one before it.
\* The chain breaks only if one command opened the file while another was writing it.
ChainUnbroken == ~mixed /\ Quiet /\ ~cut => verify_receipts(receipts)

\* What the comments call the chain, append-only: a receipt that was reported stays in
\* the file.
AnchoredStays ==
  Quiet => \A r \in anchored : \E i \in DOMAIN receipts : receipts[i] = r

==============================================================================
