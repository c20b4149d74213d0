# Verification of srcport-substrate

TLA+ models of the substrate kernel (`src/kernel`) and of the framework's Host that drives it
(`src/framework`), the TLC runs that check them on small
instances, and TLAPS proofs for every value of the constants. The kernel exists three times
(Rust `sdk/rust/src/lib.rs`, Go `sdk/go/kernel.go`, Python `_kernel.py`). The SDKs are meant to
be equivalent; the modules are translated from the Rust one, and where the others behave
differently (heartbeat order, closed channels, serial waves) the difference is a constant of the
model.

## 1. The system

### Components

| Component | State | Operations | Model |
|---|---|---|---|
| Convergence engine | `Run`, `RunSlot` (claims, latest derivations, done units, attempts, input epochs, commit counts), derivations | StartRun, InjectInput, ClaimReady, Heartbeat, FailWork, Commit, CancelRun, lease reaping | `RunKernel`, `RunProperties`, `WorkUnits` |
| Assembly validation and selection | none (pure checks at StartRun) | materialise `include_nodes`, validate against the registry and the inputs, cycle search | `Assembly`, `AssemblyProperties` |
| Stores: modules, contracts, blobs, artifacts, ledger | registry list, contract map, blob index, artifact map, idempotency table, chain | Register, Transition, PutContract, PutBlob, PutArtifact, Append | `KernelStore`, `StoreProperties` |
| Event bus | subscriptions with bounded buffers, event counter | Subscribe, Publish with shedding | `EventBus` |
| Idempotency and deadlines | `(op, caller, key)` table | replay of a keyed call | partly, in `RunKernel` (Commit) and `KernelStore` (PutArtifact) |
| Ledger hash chain, canonical encodings | chain of hashes | `artifact_canonical_bytes`; `ledger_hash`, `verify_chain` | the bytes of an artifact in `Canonical`; the hashes of the chain not modelled |
| Framework Host with storage, memo and policy | plugins, policies and tables per run, memo store | start_pipeline, drive, try_step, inject, cancel | `Host`, `HostProperties` |
| Cut | none of its own | node plans, the cut of an assembly, its seeds, skip events, resume_after | `Cut` |
| Presentation | list of step events | Init, Progress, Final, Cached, Skipped events | when Final and Cached (`Host`) and Skipped (`Cut`) are emitted; their content is plain data |
| Plugins, UI profiles, wire errors, protobuf code | none or plain data | builders, lookups, translation | not modelled: no control flow of their own |

### How the parts interact

Every kernel call takes one mutex for its whole length, so a call is one atomic action in the
models. Everything difficult happens between calls:

* a worker claims, works without any lock, and then heartbeats, commits or fails under a lease
  that may have run out, on a unit that may have been handed to somebody else;
* the lease clock runs by itself, but nothing happens when a lease runs out until some call
  reaps it;
* the identity of a node's work unit is recomputed from the present inputs on every call, while
  units of earlier deliveries are still in flight;
* replies get lost and calls are retried, with or without a `request_key`;
* subscribers drain their buffers on threads of their own.

The Host drives the kernel through the same calls; the stores feed it (artifacts must exist
before they can be inputs or outputs); the registry is looked up again on every claim and commit.

### What makes each component correct

* Engine: a unit is handed out within its budget, to one holder per attempt, and committed at
  most once; firing policies hold whatever is injected meanwhile; a run closes, once, for the
  right reason; derivations form a closed lineage.
* Assembly: what StartRun accepts is acyclic, cannot stall by itself and delivers typed artifacts.
* Cut: a resumed run does exactly what was left to do, from exactly the artifacts the prior run
  delivered.
* Stores: first write wins, references never dangle, the chain reconstructs the stores, and who
  puts a bag of traits reads that bag back, under whatever key and after whatever retries.
* Host: tables, memo and shown steps say only what the kernel accepted, a run and its tables come to an end
  when its caller keeps driving, whatever failed on the way.
* Bus: delivery in order, bounded backlog, no silent loss for a reader that keeps reading.

`PROJECT.json` lists the hazards behind these properties with the lines where they bite.

## 2. Modules and the code

| Module | Translated from | Notes |
|---|---|---|
| `RunKernel` | Rust `lib.rs` 1032-1616, 2094-2379 | One run of one frozen assembly. Go/Python heartbeat order by `RenewFirst = FALSE` |
| `RunProperties` | `kernel/SPEC.md`, `docs/Concurrency.md` | Properties, refinement mapping, fairness |
| `WorkUnits` | the lifecycle in `docs/Concurrency.md` | Abstract specification; its invariants |
| `WorkUnitsProofs`, `RunKernelProofs`, `RunLineageProofs`, `RunLimitsProofs` | | Proofs about the lifecycle and the engine; the last three build on one another |
| `Assembly` | Rust `lib.rs` 1872-2172, 1127-1180, 1461-1586 | Pure checks as operators, then the run they admit |
| `Cut`, `AssemblyProperties` | Rust framework `cut.rs`, `lib.rs` 458-603 | extends `Assembly`: plans and resumes are validated by the same kernel |
| `Canonical` | Rust `lib.rs` `object_ref_bytes`, `trait_content`, `artifact_canonical_bytes` | byte strings as sequences |
| `KernelStore`, `StoreProperties` | Rust `lib.rs` 550-1010 | extends `Canonical` |
| `EventBus` | Rust `publish`/`subscribe` | `Disconnects = FALSE` for Go and Python queues |
| `Host`, `HostProperties` | Rust framework `lib.rs` 309-1392, `storage.rs`, `memo.rs`, `policy.rs` | extends `RunKernel`: the Host is its worker `Driver`. Serial waves as in Go `host.go` |
| `AssemblyProofs`, `StoreProofs`, `BusProofs`, `HostProofs` | | Proofs about assemblies and cuts, the stores, the bus and the Host; `HostProofs` extends `RunLimitsProofs` |
| `MCRun`, `MCAssembly`, `MCStore`, `MCBus`, `MCHost` | | Instances for TLC |

### RunKernel

The variables are the fields of `Run` and `RunSlot`, plus `derivations`, `providers` (how many
registered manifests match a module: `capability_for_node` wants exactly one), `cached` (the
idempotency entries of Commit) and `held`, the claims each worker believes it has. `held` is the
workers' memory, not the kernel's: it is what makes stale calls possible.

* `claimed` is indexed by unit key instead of work id. In the code the work id is a digest of run
  and unit key, without the attempt, so the two are interchangeable, and a reclaimed unit keeps
  its id (there is no fencing token).
* A unit key is a record of firing mode, node and identity (nothing for ONCE, the key artifacts
  for ONCE_PER_KEY, artifacts and generations for ALWAYS) in place of the hashed string.
* A lease is the time left, never negative, and `Tick` decrements all of them. In the code it is
  an absolute time that is compared with the clock; only the difference is ever used.
* Each action is the whole call: early returns are guards, the reap at the beginning and the
  stall check at the end are part of the action. Refusals that change nothing are left out;
  refusals after the reap (`NotClaimed`, `CommitInvalid`) are actions, because the reap stays.
* An accepted commit may lose its reply: the worker then keeps its item and may commit again.
* A commit carries a request key of `RequestKey` or none, chosen afresh for each commit, so a caller may
  use one key for several units: the second commit then gets the first reply and changes nothing. The
  table is looked up by caller and key, which the code joins with a zero character; the model keeps
  them apart.
* `KeyPort` are the ports a capability marks as key, bound or not: with a marked port that is left
  unbound the input key is empty, as in `input_key`.
* The refusal of a commit whose `node_id` is not that of the claim is left out: it changes no more
  than `CommitInvalid` does, and the Host always sends the claim's.
* The filter of ClaimReady is a set of nodes; module and node-id filters select such sets.
* `Register` in this module is its effect on running runs: one more matching manifest.

### Assembly

Nodes, ports and bindings are sequences as in the messages, so duplicates and empty names are
representable and refused. A name is the sequence of its parts between slashes, the empty one being
no name; seed names are the only ones with several. An artifact is the set of its traits. After
StartRun the module runs the assembly sequentially (claim and commit in one step) with ONCE nodes,
FIRST_TERMINAL closure and the default `max_steps`; optional outputs may be left out, and inputs may
be injected.

### Cut

A node plan (all, only, after, from) yields the kept nodes; bindings that cross the cut become run
inputs under synthetic names (seeds). `StartPipeline` is the Host's start with its checks, the skip
events and the kernel's answer; `ResumeAfter` cuts the assembly of the present run after a node,
collects seeds from its derivations, merges them with the run's own inputs and starts the result,
which becomes the present run. `answer` is the last reply of `resume_after`, `announced` the skip
events; a refused start leaves the events it emitted, as in the code. Events are kept in the Host's
list (`UiPersist::LocalOnly`, the default), which cannot fail; putting them as artifacts can, and is
not modelled. Of two outputs with one seed name (ids with slashes) `SeedsFromRun` takes any one, the
code the first in order; neither the instances nor the theorems (`PlainNames`) have such names.

### Canonical and KernelStore

Sha-256 is modelled by its input: an artifact id is the byte string that is hashed, a blob digest a
distinct text for each content (`HashAssumption`). Refs, namespaces and bodies are short byte strings
with the separator 0 among the possible bytes, so `artifact_canonical_bytes` is modelled byte by
byte where it matters: `ReadsBack` compares the trait bag a caller put first under its key with what
GetArtifact serves for every id it was answered. `told` records those replies, and is only used by
properties. `PutArtifactWithBlob` is two calls in the code and two actions here, with anything in
between. The well-formed digests are those of `Data`, stored or not: a reference to any other content is
not put, nor retried under a key that has its answer. The idempotency key is a pair of caller and key,
not their joined text.
`AppendKind` is what modules append themselves; the code does not reserve the kernel's
kinds, so `EntryExplains` (every change of the stores is one new entry, and what it says) is checked
with domain kinds only, and would not hold for a module that appends, say, `contract.registered`.

### EventBus

`chain` is the ledger of published events, `since` the sequence number at subscription. A Go
channel or Python queue that was shed is never closed, so its reader is not told;
`NoSilentLoss` is therefore checked with `Disconnects = TRUE` (the Rust channel). The documents
promise nothing else.

### Host

`Host` extends `RunKernel`; every action of the Host's thread conjoins one action of the kernel (or
none) with the change of the Host's own state up to its next kernel call, so the lease clock, peers
and cancellations come between any two calls. `pc` is the place of the thread:

| `pc` | Action | Code |
|---|---|---|
| idle | `StartPipeline`, `Drive`, `TryStep`, `Inject`, `Cancel` | the public operations |
| poll | `Poll` | `get_run` at the head of `drive_until_idle`, `drive_one_pass` |
| claim | `ClaimWave` | `drive_claim_wave` up to the answer of `claim_ready` |
| items | `LookUp` | `try_memo_hit`, `commit_memo_hit` |
| execute | `Execute` | the plugin threads |
| finish | `Finish` | `commit_step_success`, `fail_step` |
| check | `Check` | `get_run` after an idle wave; the return of `try_step` |
| error | `ReturnError` | `?`: the rest of the wave is dropped |

* `plugins` and `claims` are sets of modules. An allow-list may name modules that no node has: such a
  Host is handed nothing and its drives return at once. An empty list of either kind asks for any node.
* `tables` has a table per module whose plugin declares a schema (`Schemas`) and a log, under the
  name of the run or shared; rows keep their run, unit and outcome. `on_store` always returns one
  row, for failed steps as well, and the upsert key is the work id. Shared tables start with a row of
  an earlier run.
* A plugin is a function `Compute` of build, capability and all the inputs of its work item (a list
  per port); the memo key has one artifact per port, as `input_fingerprint_map` does. `memo` starts with entries of
  earlier runs, of this and of another build; their artifacts may be missing from the kernel.
* The backend may fail in `ensure_table` and `write_rows`, the memo store when it is asked and when it is
  told (`BackendFails`, within the same bound). A memo entry that could not be put ends the drive after the commit and before
  the rows. `put_artifact` always succeeds.
* `mine` (units the Host had a commit accepted for) and `shown` (units whose Final or Cached event
  was emitted in the present drive) are only used by properties.
* Peers call the kernel directly and are reduced to claiming, committing and failing for good; the
  engine's own runs have the rest of what workers do. A peer runs the same build, on any inputs it
  may have been handed: they may have been replaced since.
* Every Host call has an empty `request_key`, as in the default context.

## 3. Runs

| Run | Instance | Shows |
|---|---|---|
| `converge` | fan-in of 3 nodes, 2 workers, lease 1, 2 attempts, Rust, under fairness | READY/CLAIMED/DONE discipline, attempt budget, answer, closure, refinement of `WorkUnits`; every run closes, no claim is kept forever |
| `stream` | OPEN run of a chain, ALWAYS feeding ONCE_PER_KEY, with a ONCE node beside it; an injection, a second registration, commits under no key or one key for all units, commits that omit a port or name an undeclared one, Go/Python heartbeat | multi-fire identities, closed lineage, no busy loop, `max_in_flight`, `max_steps`; kept replies stand for commits; a run that its budget closed stays as it is although units are in flight |
| `assembly` | every subset of 11 bindings over 3 nodes, 3 selections, 2 inputs, 18 special requests, and pipelines of 3 and 4 nodes (forks included) under every kind of plan, with and without a fixture for the seed, resumed up to twice | cycle search against a set definition, no self-made stall, typed delivery, sound selection; resuming an uncut run after a completed node is accepted, delivers what the prior run delivered and runs the rest |
| `stores` | 2 manifests of one name, 2 refs, artifacts most of which are invalid in some way, blobs, 2 namespaces, 2 callers, 1 key, 4 ledger entries | placeholders are filled once; lifecycle order; no dangling object; a caller reads back its bag; every change explained by its entry |
| `bus` | 2 readers, 2 topics, buffer 2 | order, bound, no silent loss |
| `host` | Host and a peer, 2 nodes of 2 modules, 3 policies, with and without plugins, `try_step` of b, an injection, a failure of the backend or of the memo store | rows follow commits, the memo commits what executing would have, a step shown as done was accepted, other runs' rows stay, tables and runs come to an end |
| `inject_traits` | violation | InjectInput delivers an artifact without the traits the port requires |
| `resume_twice` | violation | a run that was resumed cannot be resumed after a later node |
| `bag_collision` | violation | two different trait bags with the same canonical bytes |
| `memo_fan_in` | violation | a changed artifact on a port with two bindings does not miss the memo |
| `heartbeat_order` | violation (chain, 2 workers, Go/Python heartbeat) | a claim that has just expired and is still in the table is not renewed by the heartbeat that lists it |
| `tables_left` | violation | a Host alone, whose plugins never fail, ends a drive with an error and leaves the tables of a COMPLETED run |

### Bounds

* Two workers are what stale holders need: one whose lease lapsed and one that took over. With
  two attempts a unit passes through both of them and then exhausts its budget. Lease 1 makes
  every order of tick and call possible; longer leases only add ticks in between.
* The fan-in has two nodes that run in parallel and one that waits for both. Its b and d may omit
  their output, so stalls, answers and budget exhaustion all occur. The chain has an upstream
  generation and a run-input generation, the two kinds the ALWAYS fingerprint counts.
* `stream` has one injection, so a fires for two generations, b for up to two keys and c once: five
  units against `LimitSteps = 4`. The run therefore closes with a unit in flight, b may commit
  for both keys, and three units may ask for the two places of `MaxInFlight`. An input that is
  replaced and put back (one more injection) is beyond this bound; `FiringPolicy` and
  `NeverBusyLoops` are proved for any number. One worker and one attempt are enough here: second holders are the matter of
  `converge`.
* ClaimReady asks for the whole assembly or, in `converge`, for nothing it has (a filter that selects
  no node, as a worker of other modules sends); `max_items` is 2, in `heartbeat_order` also 0
  (unbounded).
* `MaxProvider = 2` in `stream`; it is 1 elsewhere, so there the registry is stable.
* Two resumes are what a resume of a resumed run needs; forks have two ways from a node to the
  terminal one, so a cut may cross them on one side only.
* The bodies of `stores` hold no separator, but refs and bodies that would run together without
  one; `bag_collision` adds one body with a separator.
* Four ledger entries let a module be registered and taken through its whole lifecycle, or be
  registered twice with contracts written in between, or a blob, its artifact and a second artifact
  be put around a registration.
* In `host` two nodes make a wave of two, of which the first may end the run, fail or be refused
  under the second; c is terminal and the peer's only node, so the peer may answer the run or take
  over a lapsed c between any two steps of the Host. One injection changes the inputs of claimed
  units; one failure (`MaxBreaks`) may hit any call of the backend or the memo store. The policies cover per-run and
  shared tables, no tables, a module with and one without a schema, upsert and replace, memo for
  either node and none, parallel and serial waves, and an allow-list that names a module the assembly
  does not have.
* Workers are symmetric (and artifacts, in `stream`): no definition tells them apart. No symmetry
  is used in runs with temporal properties that need fairness.

### Fairness

`FairSpec` of the engine assumes that the clock ticks (`Tick`), that somebody keeps polling
ClaimReady for the whole assembly (`PollAll`: the Host's drive loop; the kernel has no thread of its
own) and that a live worker gets an answer for what it holds (`FinishItem`: commit or fail, which may
be refused). No worker has to succeed, heartbeat or stay alive: crashes and failures are allowed
forever and `RunCloses` still holds, because attempts are bounded. `HostFairSpec` assumes that the
Host's thread runs on, that its caller drives again whenever a drive has returned (the SDK leaves
retrying to the caller), and that time passes; peers are not assumed to do anything. The bus assumes that a reader
which stays keeps reading.

Deadlock checking is off: a closed run, a full ledger bound or a finished event bound may stop.

## 4. Findings

Each is a violation run with the quoted text in `PROJECT.json`.

1. InjectInput does not check traits, StartRun does (`inject_traits`).
2. `resume_after` of a run that was itself resumed is refused: the seeds that run was started with
   are dropped as seeds and are not among its derivations (`resume_twice`).
3. The canonical bytes of a trait bag are not injective, because a body may hold the separator
   (`bag_collision`).
4. The memo key keeps one artifact per port (`memo_fan_in`).
5. A drive that ends with an error cleans nothing up, even when the run closed during it: the first
   commit of a wave completes the run, the second is refused, and the per-run tables and the policy
   stay until the caller drives the closed run again (`tables_left`).
6. The heartbeat of the Go and Python kernels reaps before it renews, against `docs/Concurrency.md`:
   "Renew listed work ids first (including barely-expired still-held claims), then reap other expired
   units." (`heartbeat_order`). The Rust kernel renews first, and the document's line is a theorem of
   it (`HeldRenewed`). There the comment on `heartbeat`, "Expired or unknown ids appear in
   `lost_work_ids`", fails for a listed claim that nobody has reaped; it is a theorem of the order of Go
   and Python (`LapsedLost`). No order satisfies both texts.

Observed while modelling, without a run:

* Register does not deduplicate. A second registration of the same coordinate while a run is open
  makes its capabilities ambiguous and the run STALLED, with READY work left; `StalledMeansExhausted`
  is therefore checked with a registry that stays as it is.
* `try_step` may close a run and never cleans its tables up; the next drive does (`TablesGo`).
* Skip events are emitted before the kernel is asked, Final and Cached events before the commit: a
  refused start or commit leaves them standing. `FinalIsAccepted` says that the drive then ends with
  an error.
* A Host given a context with a `request_key` sends that key on every call, so its second put or
  commit is answered with the first reply. In the kernel (`stream`) the unit of such a commit stays
  claimed until its lease runs out; `RepliesAreCommits` only says that the reply stays the first one's.
* Seed names join node and port with a slash, so ids with slashes may share one; the idempotency key
  joins caller and key with a zero character in the same way.
* A retryable failure or a lapsed lease does not always make the unit READY again, as
  `kernel/SPEC.md` says: in a multi-fire run, after an injection or upstream commit, the unit's key
  can no longer be computed. `ReleasedIsReady` is therefore checked in `converge`.
* A heartbeat (or a refused commit) that reaps the last unit of a run leaves it RUNNING until the
  next ClaimReady, since only ClaimReady, FailWork and an accepted Commit check for a stall.
* Since a reclaimed unit keeps its work id, the heartbeat of a former holder renews the present
  holder's lease and reports it as its own.
* The Host never heartbeats: a wave that takes longer than the lease loses its units.

## 5. Proofs

Every theorem holds for every assembly, policy, set of workers and limits that satisfy the named
assumptions of the component's module (`AssemblyAssumption`, `PolicyAssumption`, `LimitsAssumption`:
what StartRun has checked, and default limits that are not zero; `HostAssumption`,
`PluginAssumption`; `ProvidesAssumption`, `RequestAssumption` and `SeedPrefixAssumption`: messages have the shapes of the
protobuf contracts; the stores' and the bus's). TLC evaluates them in every run. A hypothesis
beyond these is in the theorem (last column).

| Theorem | Module | Property | Hypothesis |
|---|---|---|---|
| `UnitSafety` | `WorkUnitsProofs` | `Apart`, `LoggedOnce`, `WithinBudget` of the abstract lifecycle | |
| `TypeCorrect` | `RunKernelProofs` | `TypeOK` | |
| `Implements` | `RunKernelProofs` | `Lifecycle`: the kernel refines `WorkUnits` | |
| `UnitDiscipline`, `RetryBudget` | `RunKernelProofs` | `ClaimedNotDone`, `CommittedOnce`, `AttemptBudget` | |
| `ClosedLineage` | `RunLineageProofs` | `LineageClosed` | |
| `FiringPolicy` | `RunLineageProofs` | `FiringIdentity` | |
| `AnswerFollowsLog` | `RunLineageProofs` | `AnswerProvenance` | |
| `KeptReplies` | `RunLineageProofs` | `RepliesAreCommits` | |
| `ClosedForGood` | `RunLimitsProofs` | `ClosedIsFinal` | |
| `OneHolder` | `RunLimitsProofs` | `OneHolderPerAttempt` | |
| `LimitsKept` | `RunLimitsProofs` | `LimitsHold` | |
| `NeverBusyLoops` | `RunLimitsProofs` | `NoBusyLoop` | |
| `StallExplained` | `RunLimitsProofs` | a stalled run is exhausted, or a capability ambiguous | |
| `StallIsExhaustion` | `RunLimitsProofs` | `StalledMeansExhausted` | one provider per capability |
| `HeldRenewed` | `RunLimitsProofs` | `HeldIsRenewed`: a listed claim is renewed while it is in the table | renew-first heartbeat |
| `LapsedLost` | `RunLimitsProofs` | `LapsedIsLost`: no call brings a lapsed lease back | reap-first heartbeat |
| `ReleasedReady` | `RunLimitsProofs` | `ReleasedIsReady` | ONCE nodes, one provider per capability |
| `CyclesRefused`, `NeverStalls` | `AssemblyProofs` | `CyclesAreRefused`, `NoStall` | |
| `SelectionsSound`, `ResumesTheRest` | `AssemblyProofs` | `SelectionSound`, `ResumeRunsTheRest` | |
| `TraitsDelivered` | `AssemblyProofs` | `DeliveredTraits` | `InjectedCover` |
| `ResumptionDelivers` | `AssemblyProofs` | `ResumeDelivers` | `PlainNames` |
| `UncutResumptionAccepted` | `AssemblyProofs` | `UncutResumeAccepted` | `InjectedCover`, `PlainNames` |
| `BusTypeCorrect`, `DeliveryExact` | `BusProofs` | `TypeOK`, `DeliveredInOrder` | |
| `StoreTypeCorrect` | `StoreProofs` | `TypeOK` | |
| `WritesAreFinal`, `ObjectsServed` | `StoreProofs` | `FirstWriteWins`, `NoDanglingObject` | |
| `ChainExplains`, `LifecycleOnChain` | `StoreProofs` | `EntryExplains`, `LifecycleOrdered` | `OwnKinds` |
| `RepliesReadBack` | `StoreProofs` | `ReadsBack` | `AddressesDiffer` |
| `HostKeepsKernel` | `HostProofs` | the engine's invariants above, under `HostSpec` | |
| `HostTypeCorrect`, `FinalAccepted` | `HostProofs` | `HostTypeOK`, `FinalIsAccepted` | |
| `RowsTruthful`, `SharedRowsStay` | `HostProofs` | `RowsFollowCommits`, `OtherRunsKept` | |
| `MemoServesResults` | `HostProofs` | every memo entry is what its key stands for | `KeysTellApart` |
| `MemoReuse` | `HostProofs` | `MemoSound` | `KeysTellApart`; Host alone, or ONCE nodes |

The hypotheses. Each is what the code leaves to its users, and TLC or the source shows that the
property fails without it:

* one provider per capability (`MaxProvider = 1`): `register` never deduplicates, and ClaimReady skips
  a unit whose capability has become ambiguous (hazard at Rust `lib.rs` 645). `StallExplained`
  says what holds anyway.
* the order of the heartbeat (`RenewFirst` for Rust, its negation for Go and Python): each of the two
  theorems is false under the other order (finding 6).
* `OwnKinds`: AppendEntry takes any kind, so a module could write "blob.put" itself; the theorems
  are about modules that do not.
* `AddressesDiffer`: canonical bytes tell accepted bags apart. It fails for bodies with a separator
  in them (`bag_collision`).
* `KeysTellApart`: plugins do not tell inputs apart which the memo key merges. It holds when no port
  has two bindings and fails in `memo_fan_in`.
* `InjectedCover`: what callers inject has every trait an input port of a registered capability
  requires. InjectInput does not look (`inject_traits`).
* `PlainNames`: no node id has a slash in it, and no requested binding is spelled as a seed. Seed names
  join node and port with a slash and nothing reserves the prefix, so otherwise two ports may share a
  seed, or a seed take the place of an input. The instances of `AssemblyMain.cfg` satisfy both.
* Host alone, or ONCE nodes: with a peer and an ALWAYS node upstream, the Host's lease may lapse, the
  peer claim the unit with newer inputs, and the kernel accept the Host's late commit (commits are
  not fenced by attempt) and record it with the newer inputs.

### The engine

`AnyCall` is what any client may ask of the kernel at any time, with any worker, item, filter and
outputs; `Engine` is `Init /\ [][AnyCall]_vars`. `Spec` implies it and so does `HostSpec`: the
theorems are proved of `Engine` and used twice.

`CommittedOnce` is not inductive as it stands, because a unit that was committed
could be claimed again if nothing said that it is DONE. The inductive invariant of `WorkUnits`
(`UnitInv`) adds that every logged unit is finished, that flight and finished are disjoint, that
the attempt in flight is the number of hand-outs, and that a unit at its budget is in flight or
finished (unless the run was cancelled, which empties the table). It is proved on the abstract
specification, where a step is a set of settled units plus at most one commit or a hand-out. Then
each action of `RunKernel` is shown to be such a step or a stutter (one lemma per action, from the
type invariant), and the three invariants are carried back through the mapping.

The later theorems share a second reduction, `StepKinds`: every call `Releases` (slots only leave the
table, and those that stay are unchanged but for the lease), `HandsOut` present units to a worker, or
`Accepts` one commit. Each inductive invariant is then proved per kind:

* `Lineage` adds to `LineageClosed` that what is in `latest`, and what a claimed slot has resolved, is in
  the log already: a commit records the inputs of its slot, resolved possibly long before.
* `FiringFollows` says that the unit of a claim or derivation is the firing of its node on the inputs
  it was resolved with. With `CommittedOnce`, different derivations are different firings.
* `HeldBelow` (nobody holds an attempt that was not handed out) makes `OneHolderPerAttempt` inductive.
* `Budgets` adds to `LimitsHold` that the table is finite and an unstarted run has spent nothing.
* `StalledOrAmbiguous` is `StalledMeansExhausted` weakened by the providers a capability may gain after the
  run has stalled.
* `NoLoop` counts units, not commits: a unit handed out for node n is the firing for one vector of
  generations, so each of them but the present one was overtaken by a new generation of some source
  (`HandedOutOnce`), and each commit of n is of a unit of its own that was handed out (`CommitsCounted`).
* `InputsStay` (with ONCE nodes, outputs are only those of DONE nodes, so a claimed node keeps the
  inputs it was resolved with) is what makes a released unit READY under the same key.

### Assemblies and cuts

The code's recursion and its loops are recursive functions here (`Select`, `Through`, `VisitAll`,
`WithPredecessors`), bounded by what they walk over. `Recursion` shows once that a function defined by
steps over Nat exists and satisfies its equations; what it computes is then proved by taking the `Least`
index at which the claim fails.

* `SelectLists`: `Select` lists the chosen members in order, and each place of the result is one place
  of the original (`Places`). So a restricted node keeps as many bindings as it had (`RestrictedCount`).
* `VisitCorrect` is the specification of one call of `visit`: it never forgets, it finishes the node
  unless it meets a cycle, no cycle goes through what is finished (`Sound`), and a cycle is reported only if
  a node on the present path is met again (`OnPath`). `LevelsCorrect` is the induction over the depth of
  calls, of which as many as there are nodes and one more are enough, because the path grows on each
  level. `SearchFindsCycles` concludes that the search agrees with `Cyclic`, which has no walk in it. The
  order of the nodes is arbitrary in the proof, as it is in the hash map the Rust code iterates over.
* `WalkCloses`: after as many rounds as there are bindings, the breadth-first walk is closed under
  feeding, because every round before adds a source or is the last; and it is the least such set.

`StepKinds` reduces `CutNext` to: a run starts (validated), the first run is refused, a commit, an
injection, or the run stays. The inductive invariants:

* `Acceptance`: what runs was validated, but for the traits of what was injected since; and if the first
  run was refused with a good selection, then the assembly was not valid. It gives `CyclesAreRefused`
  directly, and `SelectionSound` with `SelectionValid` (a selection closed under feeding is valid).
* `Closure` adds what was committed: by nodes whose sources had committed, with valid outputs; a run that
  is not COMPLETED has no answer; STALLED and FAILED keep their reason. If no node is ready, the nodes
  that have not run feed each other (`WaitingIsCyclic`), which `Acceptance` excludes.
* `Coverage`: bound run inputs have the traits their ports require, kept by `InjectedCover`.
* `Plainness`: no binding of the present run is a seed of one of its own nodes. It survives cuts, which
  is what makes the seeds of a second cut differ from those of the first.
* `Answered`: a refused resume was of a node the run could not be resumed after. `ResumedValid` has the
  weight of it: the cut of an uncut run after a committed node is valid over what is collected.

### The stores and the bus

`Typed` adds the shapes of ledger entries. `NoDanglingObject` rests on `BlobsReal`: every blob stored is
the hash of data put. `Lifecycles` ties the lifecycle each module has reached to the entries
on the chain: a step is noted exactly if it was reached. `Addressed` and `Answers` tie artifacts to
their addresses and kept replies to the bag first put.

`Delivery` splits `DeliveredInOrder` by subscriber and adds that the chain numbers its events without
gaps, that nobody subscribed in the future and that who has not subscribed was sent nothing. A shed
subscriber keeps a gap-free beginning, because nothing is sent to it again.

### The Host

`HostInv` is the kernel's `TypeOK` with `Thread` and `Side`. `Thread` says that what the Host works on is
held by it in the kernel's eyes, one item per node, and that it holds nothing else unless an error is
on its way; it is what makes every commit a call `AnyCall` covers. One lemma per action of the Host
shows `Kept`: the kernel's part of the step is a call or none, and `Thread` and `Side` hold afterwards.

`MemoInv` with `MemoExact` gives `MemoReuse`. `MemoExact`: every entry is what its key's source computes.
`SameInputs`: an item's inputs are those of its slot as long as its unit is in the table. The second needs
that nobody hands out the unit again with other inputs, by one client or by ONCE firing (`ItemsResolve`,
from `InputsStay`).

`RowInv` gives both theorems about tables. Beyond the properties it says that the units of the Host's
commits are DONE, so that none of them is committed and logged a second time; that the tables to
drop of a per-run plan are named after the run; and that an unstarted run has no policy, so that the
log is there before the first commit. `Touch` says once what any write may do (the new row aside, no
row appears, and shared tables keep other runs' rows), for all three write modes.

## 6. Only model-checked

* Liveness (`RunCloses`, `ClaimsResolve`, `TablesGo`, `DrivenRunCloses`, `NoSilentLoss`): fairness and ENABLED
  are out of the prover's reach.
* `ReachableFrom` (the plan "from a node") and the plans a caller chooses freely are covered by the
  theorems only as far as the kernel validates what they leave; what the walk of successors finds is
  checked by `assembly` alone.
* `AddressesDiffer` and `KeysTellApart` themselves, for given contents and assemblies: they are about
  what encoding and plugins compute.

## 7. Mutants

For every property of every passing run `PROJECT.json` names a variant of a modelled definition
(marked "Faulty variant" in the modules) that breaks the property, such as a forgotten reap, a
budget compared with the wrong sign, a cycle check of one level or an idempotency key without
its caller. No specification uses the variants.

## 8. Not modelled

* The hashes of the ledger chain, `verify_chain`, `contract_digest` and the other digests: sha-256 is
  a black box to a model checker; what a tampered chain shows depends on it alone.
* Deadlines, which refuse a call before it changes anything; StartRun's idempotency entry, which
  returns the run as it was created; several runs in one kernel, which share nothing but the stores.
* Schema validation of tables, the JSON form of memo records, presentations as artifacts, UI profiles,
  wire errors, protobuf code: data without control flow of its own. `register_plugin` during a drive:
  the Host is borrowed mutably by the drive, so it cannot happen.

## 9. Plan

Done, in this order: the engine with its abstract specification and proofs, the stores, the bus,
assembly validation, the Host on top of the engine, cuts and resumes on top of assemblies, the
canonical bytes under the stores, single steps and presentation order in the Host.

Then the proofs of section 5: every safety property the runs check, invariant or action property, is
a theorem, some under the hypotheses named there.

Left: `AddressesDiffer` for bodies without separators, and the walk of successors, both by the kind of
argument the assembly proofs use; liveness stays with TLC.
