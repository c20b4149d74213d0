--------------------------- MODULE HostProperties ---------------------------
(***************************************************************************)
(* What the Host promises: its side tables and its memo agree with what    *)
(* the kernel accepted, and driving a run brings it, and them, to an end.  *)
(***************************************************************************)
EXTENDS Host

\* A work item of the Host: a hand-out of a unit, with the inputs it had then.
IsItem(i) ==
    /\ i \in [unit : DOMAIN attempts, attempt : 1..MaxAttempts, node : Node,
              inputs : [BindingsTo(i.node) -> Artifact], ok : BOOLEAN]
    /\ i.unit.node = i.node

\* Type invariant of the Host's state, with what ties its parts together: between drives it
\* works on nothing, and what it works on it was handed by the kernel, one item per node.
HostTypeOK ==
    /\ policy \in Policies \cup {None}
    /\ runTables \subseteq DOMAIN tables
    /\ DOMAIN tables \subseteq SharedTable \cup RunTable
    /\ \A i \in wave \cup deferred : IsItem(i)
    /\ \A i, j \in wave \cup deferred : i.node = j.node => i = j
    /\ pc \in {"idle", "poll", "claim", "items", "execute", "finish", "check", "error"}
    /\ pc \in {"idle", "poll", "claim", "check"} =>
         wave = {} /\ deferred = {} /\ held[Driver] = {}
    /\ pc # "error" => {Claim(i) : i \in wave \cup deferred} = held[Driver]
    /\ present \subseteq Artifact /\ breaks \in 0..MaxBreaks

RowsOf(t) == IF t \in DOMAIN tables THEN {tables[t][k] : k \in DOMAIN tables[t]} ELSE {}

\* framework/SPEC.md "try_step ok: commit domain, on_store, write_rows": the tables say a
\* step of this run succeeded only if the Host's own commit of it was accepted (leases may
\* lapse and peers commit in between), the log says it once, and as long as the backend
\* does not fail it says it for every commit of the Host.
RowsFollowCommits ==
    /\ \A t \in DOMAIN tables : \A r \in RowsOf(t) : r.run = "this" /\ r.ok => r.unit \in mine
    /\ policy # None /\ policy.log =>
         LET log == tables[LogTable(policy)]
             at(u) == {k \in DOMAIN log : log[k] = [run |-> "this", unit |-> u, ok |-> TRUE]}
         IN  \A u \in mine : /\ Cardinality(at(u)) <= 1
                             /\ breaks = 0 => at(u) # {}

\* memo.rs "a pure function of (module, module_digest, capability, input artifact ids)":
\* whether it executed a plugin or reused an entry, left by this run or an earlier one and
\* by this build or another, the Host commits what this build computes from the inputs of
\* the unit (SPEC: "digest or input artifact id change => miss").
MemoSound ==
    \A j \in DOMAIN derivations :
        LET d == derivations[j] IN
        d.unit \in mine => d.outputs = Result(d.node, d.inputs)

\* A step the presentation calls done (Final ok or Cached, emitted before the commit) was
\* accepted by the kernel, or the drive ends with an error.
FinalIsAccepted == pc # "error" => shown \subseteq mine

\* Shared tables outlive the run: neither Replace nor the end of the run touches the rows of
\* another run.
OtherRunsKept == \A t \in SharedTable : OldRow \in RowsOf(t)

DropsTables == policy # None /\ policy.drop /\ policy.mode = "PER_RUN"

\* storage.rs "run end / cancel: drop PerRun tables when retention says so", however the run
\* ended and whoever ended it, if the caller drives again after an error.
TablesGo == (state \in ClosedState /\ DropsTables) ~> (DOMAIN tables \cap RunTable = {})

\* A caller that keeps driving closes the run, although failed steps, refused commits and
\* backend failures end a drive with claims it will not come back to.
DrivenRunCloses ==
    (state = "RUNNING" /\ (\A n \in Node : HasPlugin(n)) /\ (policy = None \/ policy.claims = None))
        ~> (state \in ClosedState)

\* storage.rs:44 "Drop per-run tables when the run leaves `RUNNING` (complete/cancel/fail).":
\* for a Host that is the only client, whenever its calls have returned.
DroppedOnEnd == pc = "idle" /\ state \in ClosedState => ~DropsTables
=============================================================================
