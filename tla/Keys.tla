--------------------------------- MODULE Keys ---------------------------------
(***************************************************************************)
(* The secret-key files of a data directory (crates/store/src/lib.rs):     *)
(* keygen, and the three "load or create" operations.  Each of them looks  *)
(* whether the file is there and writes a new key later; fs::write         *)
(* truncates and then fills.  A look that fails finds nothing: exists() is *)
(* false then, and log_identity takes any error of its read for absence.   *)
(* A key is a number, drawn afresh.                                        *)
(***************************************************************************)
EXTENDS Integers, Sequences

CONSTANTS
  Proc,      \* CLI commands and daemon requests
  MaxOps,    \* bound: operations started
  MaxFaults  \* bound: operations cut short, and looks that fail

Kind == {"identity", "hybrid", "mldsa", "log"}

Absent == 0

Torn == -1

VARIABLES
  key,        \* contents of each key file: Absent, Torn or a key
  job,        \* what each process is doing
  published,  \* keys an operation has returned: what peers get to see
  drawn,      \* keys drawn so far
  ops,        \* operations started
  faults      \* operations cut short, and looks that failed

vars == <<key, job, published, drawn, ops, faults>>

Idle == [pc |-> "idle"]

IsKey(v) == v > 0

Init ==
  /\ key = [k \in Kind |-> Absent]
  /\ job = [p \in Proc |-> Idle]
  /\ published = {}
  /\ drawn = 0
  /\ ops = 0
  /\ faults = 0

Start(p) ==
  /\ job[p].pc = "idle"
  /\ ops < MaxOps
  /\ ops' = ops + 1
  /\ UNCHANGED <<key, published, drawn>>

\* The look at the file of kind k finds no file, because there is none or because the
\* look fails.
Missed(k, blind) ==
  \/ key[k] = Absent /\ ~blind /\ UNCHANGED faults
  \/ key[k] # Absent /\ blind /\ faults < MaxFaults /\ faults' = faults + 1

\* An operation that will write keys of these kinds; knew: what was handed out before.
Begin(p, kinds, blind) ==
  job' = [job EXCEPT ![p] = [pc |-> "draw", todo |-> kinds, knew |-> published, blind |-> blind]]

keygen_unguarded(p) ==
  /\ Start(p)
  /\ UNCHANGED faults
  /\ Begin(p, <<"identity", "hybrid", "mldsa">>, FALSE)

\* keygen: refused when the identity file exists.
keygen(p) ==
  /\ Start(p)
  /\ \E blind \in BOOLEAN :
       Missed("identity", blind) /\ Begin(p, <<"identity", "hybrid", "mldsa">>, blind)

\* hybrid_or_create, mldsa_or_create and log_identity, no file being found.  The
\* callers of the first two have loaded the identity before.
Create(p, k) ==
  /\ Start(p)
  /\ k # "log" => IsKey(key["identity"])
  /\ \E blind \in BOOLEAN : Missed(k, blind) /\ Begin(p, <<k>>, blind)

\* The same, the file being found: the key that is read is returned, a torn file is an
\* error.  hybrid_or_create and mldsa_or_create read after the look, and an error of
\* the read is theirs (Crash).  log_identity looks by reading; no file is ever removed,
\* so reading a moment later gives what it could have read.
Load(p, k) ==
  /\ Start(p)
  /\ k # "log" => IsKey(key["identity"])
  /\ key[k] # Absent
  /\ job' = [job EXCEPT ![p] = [pc |-> "read", kind |-> k]]
  /\ UNCHANGED faults

ReadKey(p) ==
  /\ job[p].pc = "read"
  /\ published' = IF IsKey(key[job[p].kind])
                  THEN published \cup {<<job[p].kind, key[job[p].kind]>>} ELSE published
  /\ job' = [job EXCEPT ![p] = Idle]
  /\ UNCHANGED <<key, drawn, ops, faults>>

\* The keys are drawn at random before they are written.
DrawKeys(p) ==
  LET todo == job[p].todo IN
  /\ job[p].pc = "draw"
  /\ job' = [job EXCEPT ![p] =
       [pc |-> "open", todo |-> [i \in DOMAIN todo |-> <<todo[i], drawn + i>>],
        result |-> <<todo[1], drawn + 1>>, knew |-> job[p].knew, blind |-> job[p].blind]]
  /\ drawn' = drawn + Len(todo)
  /\ UNCHANGED <<key, published, ops, faults>>

\* fs::write, first half.
OpenKey(p) ==
  /\ job[p].pc = "open"
  /\ key' = [key EXCEPT ![Head(job[p].todo)[1]] = Torn]
  /\ job' = [job EXCEPT ![p].pc = "fill"]
  /\ UNCHANGED <<published, drawn, ops, faults>>

\* fs::write, second half; after the last file the operation returns its key.
FillKey(p) ==
  LET todo == job[p].todo IN
  /\ job[p].pc = "fill"
  /\ key' = [key EXCEPT ![Head(todo)[1]] = Head(todo)[2]]
  /\ IF Len(todo) > 1
     THEN /\ job' = [job EXCEPT ![p].pc = "open", ![p].todo = Tail(todo)]
          /\ UNCHANGED published
     ELSE /\ job' = [job EXCEPT ![p] = Idle]
          /\ published' = published \cup {job[p].result}
  /\ UNCHANGED <<drawn, ops, faults>>

\* The process is killed, or a file operation fails; the text may have been written.
Crash(p) ==
  /\ job[p].pc # "idle"
  /\ faults < MaxFaults
  /\ faults' = faults + 1
  /\ \/ UNCHANGED key
     \/ /\ job[p].pc = "fill"
        /\ key' = [key EXCEPT ![Head(job[p].todo)[1]] = Head(job[p].todo)[2]]
  /\ job' = [job EXCEPT ![p] = Idle]
  /\ UNCHANGED <<published, drawn, ops>>

Next ==
  \E p \in Proc :
    \/ keygen(p)
    \/ \E k \in Kind \ {"identity"} : Create(p, k) \/ Load(p, k)
    \/ ReadKey(p) \/ DrawKeys(p) \/ OpenKey(p) \/ FillKey(p) \/ Crash(p)

Spec == Init /\ [][Next]_vars

------------------------------------------------------------------------------
Quiet == \A p \in Proc : job[p].pc = "idle"

\* Process p is writing the file of this key, and its operation began before the key
\* was handed out, or could not look at the file.
Unaware(p, pair) ==
  /\ job[p].pc \in {"open", "fill"}
  /\ Head(job[p].todo)[1] = pair[1]
  /\ job[p].blind \/ pair \notin job[p].knew

\* Operations may overlap and stop anywhere: a key that was handed out - what peers
\* address, verify or pin - is never replaced by an operation that began later, except
\* one whose look at the file failed.
KeptFromLater ==
  [][\A pair \in published :
       key[pair[1]] = pair[2] /\ key'[pair[1]] # pair[2] => \E p \in Proc : Unaware(p, pair)]_vars

\* A key that was handed out is the key on disk whenever nobody is writing.
PublishedIsKept == Quiet => \A pair \in published : key[pair[1]] = pair[2]

\* While nobody writes it, an identity file is an identity: keygen refuses only
\* where the identity can be loaded.
RefusalMeansIdentity == Quiet => key["identity"] # Torn

==============================================================================
