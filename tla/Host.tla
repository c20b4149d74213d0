-------------------------------- MODULE Host --------------------------------
(***************************************************************************)
(* The framework's Host: it starts a pipeline under a FrameworkPolicy and  *)
(* drives it, claiming work in waves, running plugins (or reusing a memo), *)
(* committing, and writing rows to optional tables on the side.            *)
(*                                                                         *)
(* The Host is one worker (Driver) of the kernel of module RunKernel:      *)
(* every action below is a kernel call, or none, together with what the    *)
(* Host does with its own state before its next kernel call.  The other    *)
(* workers are peers that use the kernel directly.                         *)
(***************************************************************************)
EXTENDS RunKernel

CONSTANTS
    Driver,            \* the worker this Host is
    Policies,          \* policies a caller may start the pipeline with
    PluginSets,        \* modules that have a plugin here: one of these sets
    CapabilityOf,      \* node -> capability
    Builds, NoDigest,  \* digests of the builds of the plugins there are; no digest
    Current,           \* digests the plugins of this process may report
    Compute(_, _, _),  \* what a build of a capability computes from its inputs
    Earlier,           \* what earlier runs may have left entries for: digest, node, inputs
    Schemas,           \* modules whose plugin declares a table schema
    Stepped,           \* modules the caller steps by hand, with try_step
    MayFail,           \* whether execute can return an error
    MaxBreaks          \* bound: failures of the storage and of the memo backend

VARIABLES
    policy,     \* run_policies: the policy of the run, or None
    runTables,  \* run_tables: physical tables created for the run
    tables,     \* the backend: physical table -> rows
    memo,       \* the memo store: key -> outputs
    present,    \* artifacts the kernel has
    plugins,    \* modules with a plugin registered with this Host
    build,      \* module_digest of the plugins of this process
    breaks,     \* how often a backend has failed
    pc,         \* where the Host's thread is between two kernel calls
    plan,       \* DrivePlan of the call in progress
    wave,       \* claimed items not looked at yet
    deferred,   \* items to execute, or executed and to finish
    mine,       \* units the Host committed
    shown       \* units of the present drive with a Final (ok) or a Cached event

setup == <<plugins, build>>
store == <<policy, runTables, tables, memo, mine>>
hostOnly == <<policy, runTables, tables, memo, mine, present, plugins, build, breaks, pc, plan,
              wave, deferred, shown>>
hvars == <<vars, hostOnly>>

Policy == [mode : {"OFF", "PER_RUN", "SHARED"}, log : BOOLEAN, drop : BOOLEAN,
           write : {"APPEND", "UPSERT", "REPLACE"}, memo : SUBSET Node,
           batch : Nat \ {0}, serial : BOOLEAN, claims : (SUBSET Module) \cup {None}]

ASSUME HostAssumption ==
    /\ Driver \in Worker /\ PluginSets \subseteq SUBSET Module /\ Policies \subseteq Policy
    /\ MaxInFlight > 0 /\ NoDigest \notin Builds /\ Current \subseteq Builds \cup {NoDigest}
    /\ Schemas \cup Stepped \subseteq Module /\ MayFail \in BOOLEAN /\ MaxBreaks \in Nat
    /\ "log" \notin Module
    /\ \A m, n \in Node : CapabilityOf[m] = CapabilityOf[n] => ModuleOf[m] = ModuleOf[n]

DefaultConcurrency == 8
-----------------------------------------------------------------------------
(* Tables *)

\* qualify_table and step_log_qualified: the physical names.
ModuleTable(p, m) == <<IF p.mode = "PER_RUN" THEN "run" ELSE "all", m>>
LogTable(p) == <<IF p.mode = "PER_RUN" THEN "run" ELSE "all", "log">>
SharedTable == {"all"} \X (Module \cup {"log"})
RunTable == {"run"} \X (Module \cup {"log"})

\* The tables ensure_run_storage asks for: one per registered plugin that declares a schema,
\* and the step log.
HasModuleTables(p) == p.mode # "OFF"
TablesOf(p) ==
    (IF HasModuleTables(p)
     THEN {ModuleTable(p, m) : m \in Schemas \cap plugins} ELSE {})
      \cup (IF p.log THEN {LogTable(p)} ELSE {})

\* ensure_table, for each of ts.
Ensured(tb, ts) == [t \in DOMAIN tb \cup ts |-> IF t \in DOMAIN tb THEN tb[t] ELSE << >>]

\* The numbers in S, lowest first (SetToSortSeq without its operator argument).
InOrder(S) == [k \in 1..Cardinality(S) |-> CHOOSE j \in S : Cardinality({l \in S : l <= j}) = k]

OldRow == [run |-> "earlier", unit |-> None, ok |-> TRUE]
Row(item, ok) == [run |-> "this", unit |-> item.unit, ok |-> ok]

\* Faulty variant (mutation runs only).
ReplacedWholeTable(t, rows, row) == <<row>>

\* WriteMode::Replace: the table of a run is emptied, a shared one loses the rows of the run.
Replaced(t, rows, row) ==
    IF t \in RunTable THEN <<row>>
    ELSE LET kept == InOrder({k \in DOMAIN rows : rows[k].run # row.run})
         IN  Append([k \in DOMAIN kept |-> rows[kept[k]]], row)

\* WriteMode::Upsert, with the work id as primary key.
Upserted(rows, row) ==
    LET same == {k \in DOMAIN rows : rows[k].run = row.run /\ rows[k].unit = row.unit}
    IN  IF same = {} THEN Append(rows, row)
        ELSE [k \in DOMAIN rows |->
                IF k \in same /\ \A l \in same : k <= l THEN row ELSE rows[k]]

\* write_rows of one row.
Written(tb, t, mode, row) ==
    [tb EXCEPT ![t] = CASE mode = "APPEND" -> Append(@, row)
                        [] mode = "REPLACE" -> Replaced(t, @, row)
                        [] OTHER -> Upserted(@, row)]

BackendFails == breaks < MaxBreaks /\ breaks' = breaks + 1

\* apply_step_storage: what may become of the tables, and whether the call succeeds.  The
\* module's rows come first, then the step log; a backend failure stops it where it is.
StorageResults(item, ok) ==
    IF policy = None THEN {[tables |-> tables, ok |-> TRUE]}
    ELSE LET m == ModuleOf[item.node]
             hasTable == HasModuleTables(policy) /\ m \in Schemas
             afterModule == IF ~hasTable THEN tables
                            ELSE Written(tables, ModuleTable(policy, m), policy.write,
                                         Row(item, ok))
             afterLog == IF ~policy.log THEN afterModule
                         ELSE Written(Ensured(afterModule, {LogTable(policy)}),
                                      LogTable(policy), "APPEND", Row(item, ok))
             broken == (IF hasTable THEN {tables} ELSE {})
                         \cup (IF policy.log THEN {afterModule} ELSE {})
         IN  {[tables |-> afterLog, ok |-> TRUE]}
               \cup (IF breaks < MaxBreaks THEN {[tables |-> t, ok |-> FALSE] : t \in broken}
                     ELSE {})

\* The Host stores the rows of a step; then its thread goes on at next, or at failed.
StoreRows(item, ok, next, failed) ==
    \E r \in StorageResults(item, ok) :
        /\ tables' = r.tables
        /\ breaks' = IF r.ok THEN breaks ELSE breaks + 1
        /\ pc' = IF r.ok THEN next ELSE failed

\* Faulty variant (mutation runs only).
FinishRunStorageForgets == policy' = None /\ runTables' = {} /\ tables' = tables

\* finish_run_storage: DropOnEnd drops the tables of a PerRun plan; the policy is forgotten.
FinishRunStorage ==
    /\ policy' = None
    /\ runTables' = {}
    /\ tables' = IF policy # None /\ policy.drop /\ policy.mode = "PER_RUN"
                 THEN [t \in DOMAIN tables \ runTables |-> tables[t]] ELSE tables
-----------------------------------------------------------------------------
(* Memo *)

\* The inputs of a work item as load_step hands them to the plugin (in step.work): the
\* artifacts of a port, in the order of its bindings.
WorkInputs(n, ins) ==
    [p \in {Binding[i].port : i \in BindingsTo(n)} |->
        LET at == InOrder({i \in BindingsTo(n) : Binding[i].port = p})
        IN  [k \in DOMAIN at |-> ins[at[k]]]]

\* input_fingerprint_map: one artifact per port, the last binding of the port wins.
InputFingerprintMap(ins) == [p \in DOMAIN ins |-> ins[p][Len(ins[p])]]

\* memo_key; module and version are fixed by the capability.
KeyOf(digest, n, ins) ==
    [digest |-> digest, capability |-> CapabilityOf[n], inputs |-> InputFingerprintMap(ins)]

\* Faulty variant (mutation runs only).
MemoKeyAnyBuild(item) ==
    LET own == KeyOf(build, item.node, WorkInputs(item.node, item.inputs))
        other == {k \in DOMAIN memo : k.digest # build /\ [k EXCEPT !.digest = build] = own}
    IN  IF other = {} THEN own ELSE CHOOSE k \in other : TRUE

MemoKey(item) == KeyOf(build, item.node, WorkInputs(item.node, item.inputs))

HasPlugin(n) == ModuleOf[n] \in plugins

\* The plan allows the node and its plugin reports a digest.
Memoizes(n) == policy # None /\ n \in policy.memo /\ HasPlugin(n) /\ build # NoDigest

ArtifactsOf(outs) == {outs[p] : p \in DOMAIN outs}

\* try_memo_hit: an entry whose artifacts are all still in the kernel.
MemoHit(item) ==
    /\ Memoizes(item.node)
    /\ MemoKey(item) \in DOMAIN memo
    /\ ArtifactsOf(memo[MemoKey(item)]) \subseteq present

\* store_memo_after_success, when it is called (puts) and the memo store takes the entry.
MemoAfter(item, outs, puts) ==
    IF puts /\ Memoizes(item.node)
    THEN [k \in DOMAIN memo \cup {MemoKey(item)} |->
            IF k = MemoKey(item) THEN outs ELSE memo[k]]
    ELSE memo

Result(n, ins) == Compute(build, CapabilityOf[n], WorkInputs(n, ins))

\* A plugin answers with an artifact for each output port it names.
ASSUME PluginAssumption ==
    /\ \A e \in Earlier : Compute(e.digest, CapabilityOf[e.node], e.inputs) \in Outputs
    /\ \A d \in Current, n \in Node : \A ins \in [BindingsTo(n) -> Artifact] :
         Compute(d, CapabilityOf[n], WorkInputs(n, ins)) \in Outputs
-----------------------------------------------------------------------------
(* The Host's thread *)

HostInit ==
    /\ Init
    /\ policy = None /\ runTables = {} /\ mine = {}
    /\ tables = [t \in SharedTable |-> <<OldRow>>]
    /\ memo = [k \in {KeyOf(e.digest, e.node, e.inputs) : e \in Earlier} |->
                 LET e == CHOOSE e \in Earlier : KeyOf(e.digest, e.node, e.inputs) = k
                 IN  Compute(e.digest, CapabilityOf[e.node], e.inputs)]
    /\ present = {inputs[i] : i \in Input}
    /\ plugins \in PluginSets
    /\ build \in Current
    /\ breaks = 0
    /\ pc = "idle" /\ plan = "UNTIL_IDLE" /\ wave = {} /\ deferred = {} /\ shown = {}

\* start_pipeline: the kernel starts the run, then the tables are ensured; only when that
\* succeeds is the policy kept.
StartPipeline(p) ==
    /\ pc = "idle" /\ policy = None
    /\ StartRun
    /\ \/ /\ tables' = Ensured(tables, TablesOf(p))
          /\ runTables' = TablesOf(p)
          /\ policy' = p
          /\ UNCHANGED breaks
       \/ /\ BackendFails /\ TablesOf(p) # {}
          /\ \E made \in SUBSET (TablesOf(p) \ {LogTable(p)}) :
                /\ made # TablesOf(p)
                /\ tables' = Ensured(tables, made)
          /\ UNCHANGED <<runTables, policy>>
    /\ UNCHANGED <<memo, present, setup, pc, plan, wave, deferred, mine, shown>>

\* drive, drive_with.
Drive(how) ==
    /\ pc = "idle" /\ state # "NONE"
    /\ plan' = how
    /\ pc' = "poll"
    /\ UNCHANGED <<vars, store, present, setup, breaks, wave, deferred, shown>>

\* The items of the claim the kernel has just answered.
HandedOut ==
    {[unit |-> h.unit, attempt |-> h.attempt, node |-> h.unit.node,
      inputs |-> claimed'[h.unit].inputs, ok |-> TRUE] : h \in held'[Driver]}

\* try_step: one claim of one unit of a module, finished like an item of a wave.
TryStep(m) ==
    /\ pc = "idle"
    /\ ClaimReady(Driver, {n \in Node : ModuleOf[n] = m}, 1)
    /\ wave' = HandedOut
    /\ \/ wave' # {} /\ pc' = "items" /\ plan' = "TRY_STEP"
       \/ wave' = {} /\ UNCHANGED <<pc, plan>>
    /\ UNCHANGED <<store, present, setup, breaks, deferred, shown>>

\* inject, with DriveAfter::No or a drive.
Inject(i, a, after) ==
    /\ pc = "idle"
    /\ InjectInput(i, a)
    /\ present' = present \cup {a}
    /\ pc' = IF after = "NO" THEN "idle" ELSE "poll"
    /\ plan' = IF after = "NO" THEN plan ELSE after
    /\ UNCHANGED <<store, setup, breaks, wave, deferred, shown>>

\* cancel: a closed run is refused, and then nothing is cleaned up.
Cancel ==
    /\ pc = "idle"
    /\ CancelRun
    /\ FinishRunStorage
    /\ UNCHANGED <<memo, present, setup, breaks, pc, plan, wave, deferred, mine, shown>>

\* The drive returns to its caller.
Return == pc' = "idle" /\ plan' = "UNTIL_IDLE" /\ shown' = {}

\* get_run at the head of a drive: a closed run ends it.
Poll ==
    /\ pc = "poll"
    /\ \/ /\ state = "RUNNING" /\ pc' = "claim" /\ UNCHANGED <<policy, runTables, tables>>
          /\ UNCHANGED <<plan, shown>>
       \/ /\ state # "RUNNING" /\ Return /\ FinishRunStorage
    /\ UNCHANGED <<vars, memo, present, setup, breaks, wave, deferred, mine>>

\* get_run at the end of a drive that went idle; try_step has no such end.
Check ==
    /\ pc = "check"
    /\ Return
    /\ IF state = "RUNNING" \/ plan = "TRY_STEP"
       THEN UNCHANGED <<policy, runTables, tables>> ELSE FinishRunStorage
    /\ UNCHANGED <<vars, memo, present, setup, breaks, wave, deferred, mine>>

\* Faulty variant (mutation runs only).
ClaimFilterOne ==
    LET known == {n \in Node : HasPlugin(n)}
    IN  {n \in known : \A m \in known : NodeOrder[n] <= NodeOrder[m]}

\* The nodes a wave asks for: of the modules of the allow-list, or of the plugins; an empty
\* list filters nothing, one that names no module of the assembly leaves nothing to claim.
ClaimFilter ==
    LET names == IF policy = None \/ policy.claims = None THEN plugins ELSE policy.claims
    IN  {n \in Node : names = {} \/ ModuleOf[n] \in names}

\* max_items of a wave; concurrency is the max_in_flight the policy gave the kernel.
BatchSize ==
    IF policy = None THEN DefaultConcurrency
    ELSE IF plan = "ONE_PASS" \/ policy.batch < MaxInFlight THEN policy.batch ELSE MaxInFlight

\* drive_claim_wave: claims a batch, or finds none, or the run closed in the meantime.
ClaimWave ==
    /\ pc = "claim"
    /\ \/ /\ ClaimReady(Driver, ClaimFilter, BatchSize)
          /\ wave' = HandedOut
          /\ pc' = IF wave' = {} THEN "check" ELSE "items"
       \/ /\ state # "RUNNING" /\ pc' = "error" /\ UNCHANGED <<vars, wave>>
    /\ UNCHANGED <<store, present, setup, breaks, plan, deferred, shown>>

\* Items are taken in the order the kernel returned them: that of the assembly.
First(items) == CHOOSE i \in items : \A j \in items : NodeOrder[i.node] <= NodeOrder[j.node]

WaveDone == IF plan = "UNTIL_IDLE" THEN "poll" ELSE "check"
Claim(item) == [unit |-> item.unit, attempt |-> item.attempt]

\* The Go and the Python Host take the items of a wave one at a time; the Rust one does so
\* with concurrency 1.
Serial == policy # None /\ policy.serial

\* The kernel refuses the Host's commit: run closed, lease lost, or outputs invalid.
CommitRefused(item, outs) ==
    \/ state # "RUNNING" /\ UNCHANGED vars
    \/ /\ state = "RUNNING"
       /\ NotClaimed(Driver, Claim(item)) \/ CommitInvalid(Driver, Claim(item), outs)

\* What the Host stores of a committed step: the memo entry, then the rows.  Either may fail.
StoreStep(item, outs, puts, next) ==
    \/ /\ memo' = MemoAfter(item, outs, puts)
       /\ StoreRows(item, TRUE, next, "error")
    \/ /\ puts /\ Memoizes(item.node) /\ BackendFails
       /\ pc' = "error"
       /\ UNCHANGED <<memo, tables>>

\* Faulty variant (mutation runs only).
HostCommitRowsFirst(item, outs, puts, next) ==
    /\ \/ /\ state = "RUNNING"
          /\ CommitAccept(Driver, Claim(item), outs, None)
          /\ held' = Drop(Driver, Claim(item))
          /\ mine' = mine \cup {item.unit}
          /\ StoreStep(item, outs, puts, next)
       \/ /\ CommitRefused(item, outs)
          /\ StoreRows(item, TRUE, "error", "error")
          /\ UNCHANGED <<memo, mine>>
    /\ shown' = shown \cup {item.unit}
    /\ UNCHANGED <<policy, runTables>>

\* Faulty variant (mutation runs only).
HostCommitIgnoresRefusal(item, outs, puts, next) ==
    /\ \/ /\ state = "RUNNING"
          /\ CommitAccept(Driver, Claim(item), outs, None)
          /\ held' = Drop(Driver, Claim(item))
          /\ mine' = mine \cup {item.unit}
          /\ StoreStep(item, outs, puts, next)
       \/ /\ CommitRefused(item, outs)
          /\ pc' = next
          /\ UNCHANGED <<tables, breaks, memo, mine>>
    /\ shown' = shown \cup {item.unit}
    /\ UNCHANGED <<policy, runTables>>

\* The end of commit_step_success and of commit_memo_hit: the Final or Cached event, the
\* commit, then what is stored of the step.  Any error ends the drive.
HostCommit(item, outs, puts, next) ==
    /\ \/ /\ state = "RUNNING"
          /\ CommitAccept(Driver, Claim(item), outs, None)
          /\ held' = Drop(Driver, Claim(item))
          /\ mine' = mine \cup {item.unit}
          /\ StoreStep(item, outs, puts, next)
       \/ /\ CommitRefused(item, outs)
          /\ pc' = "error"
          /\ UNCHANGED <<tables, breaks, memo, mine>>
    /\ shown' = shown \cup {item.unit}
    /\ UNCHANGED <<policy, runTables>>

\* A claimed item is looked up: a memo hit is committed at once; a miss is deferred, to be
\* executed now (serial drive) or when the whole wave has been looked up.  The drive ends when
\* the memo store does not answer, and when there is no plugin.
LookUp ==
    LET item == First(wave) IN
    /\ pc = "items"
    /\ wave' = wave \ {item}
    /\ \/ /\ MemoHit(item)
          /\ HostCommit(item, memo[MemoKey(item)], FALSE,
                        IF wave' # {} THEN "items"
                        ELSE IF deferred # {} THEN "execute" ELSE WaveDone)
          /\ UNCHANGED deferred
       \/ /\ ~MemoHit(item) /\ HasPlugin(item.node)
          /\ deferred' = deferred \cup {item}
          /\ pc' = IF wave' = {} \/ Serial THEN "execute" ELSE "items"
          /\ UNCHANGED <<vars, store, breaks, shown>>
       \/ /\ \/ ~MemoHit(item) /\ ~HasPlugin(item.node) /\ UNCHANGED breaks
             \/ Memoizes(item.node) /\ BackendFails
          /\ pc' = "error"
          /\ UNCHANGED <<vars, store, deferred, shown>>
    /\ UNCHANGED <<present, setup, plan>>

\* The plugins run, each in its thread; some return an error.
Execute ==
    /\ pc = "execute"
    /\ \E failing \in (IF MayFail THEN SUBSET deferred ELSE {{}}) :
         deferred' = (deferred \ failing) \cup {[i EXCEPT !.ok = FALSE] : i \in failing}
    /\ pc' = "finish"
    /\ UNCHANGED <<vars, store, present, setup, breaks, plan, wave, shown>>

\* commit_step_success: put the outputs, commit, memo, rows.
CommitStepSuccess(item) ==
    /\ item.ok
    /\ LET outs == Result(item.node, item.inputs) IN
       /\ present' = present \cup ArtifactsOf(outs)
       /\ HostCommit(item, outs, TRUE,
                     IF deferred' # {} THEN "finish" ELSE IF wave # {} THEN "items" ELSE WaveDone)

\* fail_step: rows if the backend takes them, then a retryable FailWork whose answer is
\* ignored; the drive ends with StepFailed.
FailStep(item) ==
    /\ ~item.ok
    /\ StoreRows(item, FALSE, "error", "error")
    /\ \/ FailWork(Driver, Claim(item), FALSE)
       \/ state # "RUNNING" /\ UNCHANGED vars
    /\ UNCHANGED <<policy, runTables, memo, present, mine, shown>>

\* Results are put and committed one after the other.
Finish ==
    LET item == First(deferred) IN
    /\ pc = "finish"
    /\ deferred' = deferred \ {item}
    /\ CommitStepSuccess(item) \/ FailStep(item)
    /\ UNCHANGED <<setup, plan, wave>>

\* Faulty variant (mutation runs only).
ReturnErrorKeepsResults ==
    /\ pc = "error"
    /\ Return
    /\ wave' = {}
    /\ Crash(Driver) \/ (held[Driver] = {} /\ UNCHANGED vars)
    /\ UNCHANGED <<store, present, setup, breaks, deferred>>

\* An error returns from the drive: what is left of the wave is abandoned, claims and
\* computed results alike, and nothing is cleaned up.
ReturnError ==
    /\ pc = "error"
    /\ Return
    /\ wave' = {} /\ deferred' = {}
    /\ Crash(Driver) \/ (held[Driver] = {} /\ UNCHANGED vars)
    /\ UNCHANGED <<store, present, setup, breaks>>

HostStep == Poll \/ ClaimWave \/ LookUp \/ Execute \/ Finish \/ Check \/ ReturnError

DriveAgain == \E how \in {"UNTIL_IDLE", "ONE_PASS"} : Drive(how)

Caller ==
    \/ \E p \in Policies : StartPipeline(p)
    \/ DriveAgain
    \/ \E m \in Stepped : TryStep(m)
    \/ \E i \in Input, a \in Artifact, after \in {"NO", "UNTIL_IDLE", "ONE_PASS"} :
            Inject(i, a, after)
    \/ Cancel

\* A worker that uses the kernel directly and runs the same build on the inputs it was handed,
\* which may have been replaced since.  It commits an item once, or fails it for good, or stops
\* (RunKernel has all that workers may do).
Peer(w) ==
    \/ /\ \/ \E filter \in Filter, k \in MaxItems : ClaimReady(w, filter, k)
          \/ \E h \in held[w] : FailWork(w, h, TRUE)
       /\ UNCHANGED hostOnly
    \/ \E h \in held[w] : \E ins \in [BindingsTo(h.unit.node) -> Artifact] :
          LET outs == Result(h.unit.node, ins)
          IN  /\ Commit(w, h, outs, None) /\ held' = Drop(w, h)
              /\ present' = present \cup ArtifactsOf(outs)
              /\ UNCHANGED <<store, setup, breaks, pc, plan, wave, deferred, shown>>

HostNext ==
    \/ HostStep
    \/ Caller
    \/ \E w \in Worker \ {Driver} : Peer(w)
    \/ Worker # {Driver} /\ CancelRun /\ UNCHANGED hostOnly
    \/ Tick /\ UNCHANGED hostOnly

HostSpec == HostInit /\ [][HostNext]_hvars

\* The Host's thread runs, and when a drive has returned its caller drives again (one of the
\* two is enabled at a time); time passes.
HostFairSpec ==
    /\ HostSpec
    /\ WF_hvars(HostStep \/ DriveAgain)
    /\ WF_hvars(Tick /\ UNCHANGED hostOnly)
=============================================================================
