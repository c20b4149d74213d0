----------------------------- MODULE RunKernel -----------------------------
(***************************************************************************)
(* The convergence engine of the substrate kernel: one Run of one frozen   *)
(* assembly, and the workers that drain it under leases.                   *)
(*                                                                         *)
(* The kernel keeps all of its state behind one mutex, so every RPC is one *)
(* atomic action here.  A worker's own thread is not atomic with it: what  *)
(* a worker believes it holds (held) may be stale by the time it calls.    *)
(*                                                                         *)
(* A work id is a function of the unit key alone (reclaims reuse it), so   *)
(* the kernel's map claimed: work id -> slot is indexed by unit key.       *)
(* Leases are kept as the time left (lease_until - now, never negative):   *)
(* a lease has expired when nothing is left of it.                         *)
(***************************************************************************)
EXTENDS Integers, FiniteSets, Sequences

CONSTANTS
    Node, NodeOrder,      \* assembly nodes, and their order in Assembly.nodes
    Binding,              \* Assembly.bindings, in order (a sequence of records)
    Input,                \* run inputs the assembly binds
    Artifact,             \* artifact ids
    Port, OutName,        \* input port names, output port names
    KeyPort,              \* input ports a node's capability marks as key
    OutPort, RequiredOut, \* declared / non-optional output ports of a node
    TerminalNode, TerminalPort,
    Module, ModuleOf,     \* which module a node is pinned to
    ByNode, CapFiring, DefaultFiring,   \* the three sources of the firing mode
    Open,                 \* Closure is CLOSURE_OPEN
    LimitSteps, MaxInFlight, LimitLease, LimitAttempts,   \* Limits; 0 = default
    DefaultLease, DefaultAttempts,
    Filter, MaxItems,     \* node filters and max_items a claim may carry
    Extension,            \* values a worker passes as extend_lease_ms
    RequestKey,           \* request_keys commits may carry; None is the empty one
    RenewFirst,           \* Heartbeat renews, then reaps (Rust); else Go, Python
    Worker,
    MaxInject, MaxProvider,   \* bounds: injections per input, registrations per module
    None                  \* no artifact / no node / no input

FiringMode == {"ONCE", "ONCE_PER_KEY", "ALWAYS"}
Unspecified == "UNSPECIFIED"

BindingIndex == DOMAIN Binding
BindingsTo(n) == {i \in BindingIndex : Binding[i].to = n}

\* What StartRun demands of the assembly (validate_assembly) and of the limits.
ASSUME AssemblyAssumption ==
    /\ IsFiniteSet(Node) /\ IsFiniteSet(Worker) /\ IsFiniteSet(Input)
    /\ None \notin Node \cup Input \cup Artifact
    /\ NodeOrder \in [Node -> Nat]
    /\ \A m, n \in Node : NodeOrder[m] = NodeOrder[n] => m = n
    /\ Binding \in Seq([to : Node, port : Port, from : Node \cup {None},
                        fromPort : OutName \cup {None}, input : Input \cup {None}])
    /\ KeyPort \in [Node -> SUBSET Port]
    /\ \A i \in BindingIndex : (Binding[i].from = None) # (Binding[i].input = None)
    /\ \A i \in BindingIndex : Binding[i].from # None =>
            Binding[i].fromPort \in OutPort[Binding[i].from]
    /\ OutPort \in [Node -> SUBSET OutName] /\ RequiredOut \in [Node -> SUBSET OutName]
    /\ \A n \in Node : RequiredOut[n] \subseteq OutPort[n]
    /\ TerminalNode \in Node /\ TerminalPort \in OutPort[TerminalNode]
    /\ ModuleOf \in [Node -> Module]

ASSUME PolicyAssumption ==
    /\ ByNode \in [Node -> FiringMode \cup {Unspecified}]
    /\ CapFiring \in [Node -> FiringMode \cup {Unspecified}]
    /\ DefaultFiring \in FiringMode \cup {Unspecified}
    /\ Open \in BOOLEAN /\ RenewFirst \in BOOLEAN

ASSUME LimitsAssumption ==
    /\ LimitSteps \in Nat /\ MaxInFlight \in Nat
    /\ LimitLease \in Nat /\ LimitAttempts \in Nat
    /\ DefaultLease \in Nat \ {0} /\ DefaultAttempts \in Nat \ {0}
    /\ Extension \subseteq Nat /\ MaxItems \subseteq Nat /\ Filter \subseteq SUBSET Node
    /\ MaxInject \in Nat /\ MaxProvider \in Nat \ {0}

\* start_run: a zero limit stands for the default.
MaxSteps == IF LimitSteps = 0 THEN Cardinality(Node) ELSE LimitSteps
LeaseMs == IF LimitLease = 0 THEN DefaultLease ELSE LimitLease
MaxAttempts == IF LimitAttempts = 0 THEN DefaultAttempts ELSE LimitAttempts

-----------------------------------------------------------------------------
VARIABLES
    state,        \* Run.state; "NONE" before StartRun
    answer,       \* Run.answer
    steps,        \* Run.steps
    inputs,       \* Run.inputs
    claimed,      \* RunSlot.claimed, by unit key
    latest,       \* RunSlot.latest: outputs of the last derivation of a node
    done,         \* RunSlot.done_units
    attempts,     \* RunSlot.claim_attempts
    epochs,       \* RunSlot.input_epochs
    commits,      \* RunSlot.node_commits
    derivations,  \* State.derivations of this run
    providers,    \* how many registered manifests provide a module's capability
    cached,       \* State.idempotency, op "commit": caller, request_key, derivation
    held          \* worker -> claims it was handed and has not given up

slot == <<inputs, claimed, latest, done, attempts, epochs, commits>>
run == <<state, answer, steps>>
vars == <<state, answer, steps, inputs, claimed, latest, done, attempts, epochs,
          commits, derivations, providers, cached, held>>

ClosedState == {"COMPLETED", "STALLED", "FAILED", "CANCELLED"}
RunState == {"NONE", "RUNNING"} \cup ClosedState

\* Outputs of a commit: the first artifact of each port the worker names.
Outputs == UNION {[S -> Artifact] : S \in SUBSET OutName}
NoOutputs == [p \in {} |-> None]
-----------------------------------------------------------------------------
(* Readiness *)

\* effective_firing: run override, then capability, then run default, then ONCE.
EffectiveFiring(n) ==
    IF ByNode[n] # Unspecified THEN ByNode[n]
    ELSE IF CapFiring[n] # Unspecified THEN CapFiring[n]
    ELSE IF DefaultFiring # Unspecified THEN DefaultFiring
    ELSE "ONCE"

\* resolve_inputs: every binding of the node has an artifact to deliver ...
BindingResolves(i) ==
    \/ Binding[i].input # None
    \/ Binding[i].fromPort \in DOMAIN latest[Binding[i].from]

Resolves(n) == \A i \in BindingsTo(n) : BindingResolves(i)

\* ... and this is the artifact, from the run input or the latest derivation.
Delivered(i) ==
    IF Binding[i].input # None THEN inputs[Binding[i].input]
    ELSE latest[Binding[i].from][Binding[i].fromPort]

ResolveInputs(n) == [i \in BindingsTo(n) |-> Delivered(i)]

\* input_key: the marked ports if the capability marks any (bound or not), else every port.
KeyBindings(n) ==
    {i \in BindingsTo(n) : KeyPort[n] = {} \/ Binding[i].port \in KeyPort[n]}

InputKey(n, ins) == [i \in KeyBindings(n) |-> ins[i]]

\* delivery_fingerprint: per binding, the first artifact of its port and the
\* generation of its source (inject epoch or upstream commit count).
FirstOfPort(n, i) ==
    CHOOSE j \in BindingsTo(n) :
        /\ Binding[j].port = Binding[i].port
        /\ \A k \in BindingsTo(n) : Binding[k].port = Binding[i].port => j <= k

Generation(i) ==
    IF Binding[i].input # None THEN epochs[Binding[i].input]
    ELSE commits[Binding[i].from]

\* Faulty variant (mutation runs only).
DeliveryFingerprintOfSelf(n, ins) ==
    [i \in BindingsTo(n) |-> <<ins[FirstOfPort(n, i)], Generation(i) + commits[n]>>]

DeliveryFingerprint(n, ins) ==
    [i \in BindingsTo(n) |-> <<ins[FirstOfPort(n, i)], Generation(i)>>]

\* Faulty variant (mutation runs only).
WorkUnitKeyByCommit(n) ==
    [firing |-> EffectiveFiring(n), node |-> n,
     id |-> CASE EffectiveFiring(n) = "ALWAYS" -> DeliveryFingerprint(n, ResolveInputs(n))
              [] EffectiveFiring(n) = "ONCE_PER_KEY" -> <<InputKey(n, ResolveInputs(n)), commits[n]>>
              [] OTHER -> << >>]

\* work_unit_key: the firing identity of the delivery now before node n.
WorkUnitKey(n) ==
    [firing |-> EffectiveFiring(n), node |-> n,
     id |-> CASE EffectiveFiring(n) = "ALWAYS" -> DeliveryFingerprint(n, ResolveInputs(n))
              [] EffectiveFiring(n) = "ONCE_PER_KEY" -> InputKey(n, ResolveInputs(n))
              [] OTHER -> << >>]

\* capability_for_node: exactly one registered manifest provides it.
CapabilityResolves(n) == providers[ModuleOf[n]] = 1

\* Faulty variant (mutation runs only).
ReadyIgnoringDone(n, cl, dn) ==
    /\ Resolves(n)
    /\ CapabilityResolves(n)
    /\ WorkUnitKey(n) \notin DOMAIN cl

\* Faulty variant (mutation runs only).
ReadyOnlyFresh(n, cl, dn) ==
    /\ Resolves(n)
    /\ CapabilityResolves(n)
    /\ WorkUnitKey(n) \notin dn
    /\ WorkUnitKey(n) \notin DOMAIN attempts

\* A node whose present unit is neither done nor in flight.
ReadyIn(n, cl, dn) ==
    /\ Resolves(n)
    /\ CapabilityResolves(n)
    /\ WorkUnitKey(n) \notin dn
    /\ WorkUnitKey(n) \notin DOMAIN cl

\* assembly_any_ready
AnyReady == \E n \in Node : ReadyIn(n, claimed, done)

\* Faulty variant (mutation runs only).
NothingLeftButClaims == ~Open /\ ~AnyReady
NothingLeftAfterProgress == ~Open /\ DOMAIN claimed = {} /\ ~AnyReady /\ steps > 0

\* The stall check of ClaimReady, FailWork and Commit.
NothingLeft == ~Open /\ DOMAIN claimed = {} /\ ~AnyReady
-----------------------------------------------------------------------------
(* Leases *)

\* Faulty variant (mutation runs only).
ExpiredStrictly(cl) == {u \in DOMAIN cl : cl[u].lease < 0}
ExhaustedOneMore(cl) ==
    {u \in DOMAIN cl : cl[u].lease = 0 /\ cl[u].attempt > MaxAttempts}

\* reap_expired_locked: an expired claim leaves the table, and the unit is
\* DONE if that was its last attempt.
Expired(cl) == {u \in DOMAIN cl : cl[u].lease = 0}
Live(cl) == [u \in DOMAIN cl \ Expired(cl) |-> cl[u]]
Exhausted(cl) == {u \in Expired(cl) : cl[u].attempt >= MaxAttempts}

\* Faulty variant (mutation runs only).
WantIgnoringInFlight(k, cl) ==
    LET items == IF k = 0 THEN 1 ELSE k
    IN  IF MaxInFlight = 0 \/ items < MaxInFlight THEN items ELSE MaxInFlight

\* in_flight_capacity, with the cap k the caller asked for (0 means 1).
Want(k, cl) ==
    LET items == IF k = 0 THEN 1 ELSE k
        free == IF Cardinality(DOMAIN cl) >= MaxInFlight
                THEN 0 ELSE MaxInFlight - Cardinality(DOMAIN cl)
    IN  IF MaxInFlight = 0 \/ items < free THEN items ELSE free

\* The first k nodes of a set, in assembly order.
IsFirst(take, cand, k) ==
    /\ take \subseteq cand
    /\ Cardinality(take) <= k
    /\ take # cand => Cardinality(take) = k
    /\ \A m \in take, n \in cand \ take : NodeOrder[m] < NodeOrder[n]

\* Faulty variant (mutation runs only).
AttemptForgotten(u) == 0

AttemptOf(u) == IF u \in DOMAIN attempts THEN attempts[u] ELSE 0

\* Faulty variant (mutation runs only).
NewClaimFromZero(n) ==
    [node |-> n, inputs |-> ResolveInputs(n), lease |-> LeaseMs,
     attempt |-> AttemptOf(WorkUnitKey(n))]

\* The slot ClaimReady builds for the present unit of node n.
NewClaim(n) ==
    [node |-> n, inputs |-> ResolveInputs(n), lease |-> LeaseMs,
     attempt |-> AttemptOf(WorkUnitKey(n)) + 1]

UnitsOf(take) == {WorkUnitKey(n) : n \in take}

Drop(w, h) == [held EXCEPT ![w] = @ \ {h}]
-----------------------------------------------------------------------------
Init ==
    /\ state = "NONE" /\ answer = None /\ steps = 0
    /\ inputs \in [Input -> Artifact]
    /\ claimed = << >> /\ done = {} /\ attempts = << >>
    /\ latest = [n \in Node |-> NoOutputs]
    /\ epochs = [i \in Input |-> 0]
    /\ commits = [n \in Node |-> 0]
    /\ derivations = << >>
    /\ providers = [m \in Module |-> 1]
    /\ cached = {}
    /\ held = [w \in Worker |-> {}]

\* start_run: capabilities must resolve, the run id must be new.
StartRun ==
    /\ state = "NONE"
    /\ MaxSteps > 0
    /\ \A n \in Node : CapabilityResolves(n)
    /\ state' = "RUNNING"
    /\ UNCHANGED <<slot, answer, steps, derivations, providers, cached, held>>

\* register: a second manifest of the same name, version and capability.
Register(m) ==
    /\ providers[m] < MaxProvider
    /\ providers' = [providers EXCEPT ![m] = @ + 1]
    /\ UNCHANGED <<run, slot, derivations, cached, held>>

\* Faulty variant (mutation runs only).
InjectInputWhenClosed(i, a) ==
    /\ state # "NONE"
    /\ \E b \in BindingIndex : Binding[b].input = i
    /\ epochs[i] < MaxInject
    /\ inputs' = [inputs EXCEPT ![i] = a]
    /\ epochs' = [epochs EXCEPT ![i] = @ + 1]
    /\ UNCHANGED <<run, claimed, latest, done, attempts, commits, derivations,
                   providers, cached, held>>

\* inject_input: replace a named input and bump its delivery generation.
InjectInput(i, a) ==
    /\ state = "RUNNING"
    /\ \E b \in BindingIndex : Binding[b].input = i
    /\ epochs[i] < MaxInject
    /\ inputs' = [inputs EXCEPT ![i] = a]
    /\ epochs' = [epochs EXCEPT ![i] = @ + 1]
    /\ UNCHANGED <<run, claimed, latest, done, attempts, commits, derivations,
                   providers, cached, held>>

\* claim_ready: reap, take the first ready nodes of the filter under leases,
\* close as STALLED if there was nothing to take and nothing is left.
ClaimReady(w, filter, k) ==
    /\ state = "RUNNING"
    /\ LET cl == Live(claimed)
           dn == done \cup Exhausted(claimed)
           cand == {n \in filter : ReadyIn(n, cl, dn)}
       IN  \E take \in SUBSET cand :
            LET new == [u \in UnitsOf(take) |-> NewClaim(u.node)] IN
            /\ IsFirst(take, cand, Want(k, cl))
            /\ claimed' = [u \in DOMAIN cl \cup UnitsOf(take) |->
                             IF u \in UnitsOf(take) THEN new[u] ELSE cl[u]]
            /\ done' = dn
            /\ attempts' = [u \in DOMAIN attempts \cup UnitsOf(take) |->
                             IF u \in UnitsOf(take) THEN new[u].attempt ELSE attempts[u]]
            /\ held' = [held EXCEPT ![w] =
                         @ \cup {[unit |-> u, attempt |-> new[u].attempt] : u \in UnitsOf(take)}]
            /\ UNCHANGED <<answer, steps, inputs, latest, epochs, commits, derivations,
                           providers, cached>>
            /\ state' = IF take = {} /\ NothingLeft' THEN "STALLED" ELSE state

\* The lease the worker asks for (0 means the run's default).
Extend(e) == IF e = 0 THEN LeaseMs ELSE e
Renewed(cl, ids, e) ==
    [u \in DOMAIN cl |-> IF u \in ids THEN [cl[u] EXCEPT !.lease = Extend(e)] ELSE cl[u]]

\* heartbeat (Rust): renew whatever is still in the table, then reap the rest.
HeartbeatRenewFirst(ids, e) ==
    LET cl == Renewed(claimed, ids, e)
    IN  claimed' = Live(cl) /\ done' = done \cup Exhausted(cl)

\* Heartbeat (Go, Python): reap, then renew what is left.
HeartbeatReapFirst(ids, e) ==
    /\ claimed' = Renewed(Live(claimed), ids, e)
    /\ done' = done \cup Exhausted(claimed)

\* The worker stops working on the ids the reply calls lost.
Heartbeat(w, e) ==
    LET ids == {h.unit : h \in held[w]} IN
    /\ state = "RUNNING"
    /\ held[w] # {}
    /\ IF RenewFirst THEN HeartbeatRenewFirst(ids, e) ELSE HeartbeatReapFirst(ids, e)
    /\ held' = [held EXCEPT ![w] = {h \in @ : h.unit \in DOMAIN claimed'}]
    /\ UNCHANGED <<run, inputs, latest, attempts, epochs, commits, derivations, providers,
                   cached>>

\* A call naming a unit that is no longer in the table: Conflict, after the reap.
NotClaimed(w, h) ==
    /\ h.unit \notin DOMAIN Live(claimed)
    /\ claimed' = Live(claimed)
    /\ done' = done \cup Exhausted(claimed)
    /\ held' = Drop(w, h)
    /\ UNCHANGED <<run, inputs, latest, attempts, epochs, commits, derivations, providers,
                   cached>>

\* Faulty variant (mutation runs only).
FailClaimedRefunds(w, h, terminal) ==
    LET cl == Live(claimed) IN
    /\ h.unit \in DOMAIN cl
    /\ claimed' = [u \in DOMAIN cl \ {h.unit} |-> cl[u]]
    /\ done' = done \cup Exhausted(claimed) \cup (IF terminal THEN {h.unit} ELSE {})
    /\ attempts' = [attempts EXCEPT ![h.unit] = @ - 1]
    /\ held' = Drop(w, h)
    /\ UNCHANGED <<run, inputs, latest, epochs, commits, derivations, providers, cached>>

\* fail_work on a claim in the table.
FailClaimed(w, h, terminal) ==
    LET cl == Live(claimed)
        final == terminal \/ cl[h.unit].attempt >= MaxAttempts
    IN
    /\ h.unit \in DOMAIN cl
    /\ claimed' = [u \in DOMAIN cl \ {h.unit} |-> cl[u]]
    /\ done' = done \cup Exhausted(claimed) \cup (IF final THEN {h.unit} ELSE {})
    /\ held' = Drop(w, h)
    /\ UNCHANGED <<answer, steps, inputs, latest, attempts, epochs, commits, derivations,
                   providers, cached>>
    /\ state' = IF NothingLeft' THEN "STALLED" ELSE state

\* fail_work
FailWork(w, h, terminal) ==
    /\ state = "RUNNING"
    /\ h \in held[w]
    /\ NotClaimed(w, h) \/ FailClaimed(w, h, terminal)

\* validate_outputs: all required ports, no undeclared one.
ValidOutputs(n, outs) == RequiredOut[n] \subseteq DOMAIN outs /\ DOMAIN outs \subseteq OutPort[n]

\* What else a commit of a claimed unit is refused for: the budget, the registry, the outputs.
MayRecord(n, outs) == steps < MaxSteps /\ CapabilityResolves(n) /\ ValidOutputs(n, outs)

Answers(n, outs) == n = TerminalNode /\ TerminalPort \in DOMAIN outs

\* Faulty variant (mutation runs only).
StateAfterCommitBudgetFirst(n, outs) ==
    IF steps' >= MaxSteps THEN "FAILED"
    ELSE IF Answers(n, outs) /\ ~Open THEN "COMPLETED"
    ELSE IF NothingLeft' THEN "STALLED"
    ELSE state

\* The closure decision at the end of a commit: answer, then budget, then stall.
StateAfterCommit(n, outs) ==
    IF Answers(n, outs) /\ ~Open THEN "COMPLETED"
    ELSE IF steps' >= MaxSteps THEN "FAILED"
    ELSE IF NothingLeft' THEN "STALLED"
    ELSE state

\* Faulty variant (mutation runs only).
CommitInvalidWritesLatest(w, h, outs) ==
    LET n == claimed[h.unit].node IN
    /\ h.unit \in DOMAIN Live(claimed)
    /\ ~MayRecord(n, outs)
    /\ claimed' = Live(claimed)
    /\ done' = done \cup Exhausted(claimed)
    /\ latest' = [latest EXCEPT ![n] = outs]
    /\ held' \in {held, Drop(w, h)}
    /\ UNCHANGED <<run, inputs, attempts, epochs, commits, derivations, providers, cached>>

\* A commit the kernel refuses after the claim was found: only the reap stays.
CommitInvalid(w, h, outs) ==
    LET n == claimed[h.unit].node IN
    /\ h.unit \in DOMAIN Live(claimed)
    /\ ~MayRecord(n, outs)
    /\ claimed' = Live(claimed)
    /\ done' = done \cup Exhausted(claimed)
    /\ held' \in {held, Drop(w, h)}
    /\ UNCHANGED <<run, inputs, latest, attempts, epochs, commits, derivations, providers,
                   cached>>

\* The reply kept for a caller and its request_key: that of the k-th derivation.
Reply(w, key, k) == [caller |-> w, key |-> key, derivation |-> k]
Replied(w, key) == key # None /\ \E c \in cached : c.caller = w /\ c.key = key

\* commit: record the derivation, release downstream work, close the run.
\* The reply may be lost, in which case the worker still holds its item.
CommitAccept(w, h, outs, key) ==
    LET cl == Live(claimed)
        c == cl[h.unit]
        n == c.node
    IN
    /\ h.unit \in DOMAIN cl
    /\ MayRecord(n, outs)
    /\ claimed' = [u \in DOMAIN cl \ {h.unit} |-> cl[u]]
    /\ done' = done \cup Exhausted(claimed) \cup {h.unit}
    /\ latest' = [latest EXCEPT ![n] = outs]
    /\ commits' = [commits EXCEPT ![n] = @ + 1]
    /\ steps' = steps + 1
    /\ derivations' = Append(derivations,
            [node |-> n, unit |-> h.unit, inputs |-> c.inputs, outputs |-> outs])
    /\ answer' = IF Answers(n, outs) THEN outs[TerminalPort] ELSE answer
    /\ cached' = IF key = None THEN cached ELSE cached \cup {Reply(w, key, Len(derivations'))}
    /\ held' \in {held, Drop(w, h)}
    /\ UNCHANGED <<inputs, attempts, epochs, providers>>
    /\ state' = StateAfterCommit(n, outs)

\* A commit under a request_key the caller has used: the first reply once more, whatever
\* unit this commit is of.
CommitReplay(w, h) ==
    /\ held' \in {held, Drop(w, h)}
    /\ UNCHANGED <<run, slot, derivations, providers, cached>>

\* Faulty variant (mutation runs only): the reply of a refused commit is kept as well.
CommitCachesFirst(w, h, outs, key) ==
    /\ h \in held[w]
    /\ \/ Replied(w, key) /\ CommitReplay(w, h)
       \/ /\ ~Replied(w, key)
          /\ state = "RUNNING"
          /\ \/ CommitInvalid(w, h, outs)
             \/ CommitAccept(w, h, outs, key)
             \/ /\ h.unit \notin DOMAIN Live(claimed)
                /\ claimed' = Live(claimed) /\ done' = done \cup Exhausted(claimed)
                /\ held' = Drop(w, h)
                /\ cached' = IF key = None THEN cached
                             ELSE cached \cup {Reply(w, key, Len(derivations) + 1)}
                /\ UNCHANGED <<run, inputs, latest, attempts, epochs, commits, derivations,
                               providers>>

\* commit: replayed, or refused because the run is closed, the unit is not claimed
\* or the outputs are not valid, or accepted.
Commit(w, h, outs, key) ==
    /\ h \in held[w]
    /\ \/ Replied(w, key) /\ CommitReplay(w, h)
       \/ /\ ~Replied(w, key)
          /\ state = "RUNNING"
          /\ \/ NotClaimed(w, h)
             \/ CommitInvalid(w, h, outs)
             \/ CommitAccept(w, h, outs, key)

\* cancel_run: the only closure that empties the table.
CancelRun ==
    /\ state = "RUNNING"
    /\ state' = "CANCELLED"
    /\ claimed' = << >>
    /\ UNCHANGED <<answer, steps, inputs, latest, done, attempts, epochs, commits,
                   derivations, providers, cached, held>>

\* The clock: a tick takes one off every lease that has time left.
Tick ==
    /\ \E u \in DOMAIN claimed : claimed[u].lease > 0
    /\ claimed' = [u \in DOMAIN claimed |->
                    [claimed[u] EXCEPT !.lease = IF @ > 0 THEN @ - 1 ELSE 0]]
    /\ UNCHANGED <<run, inputs, latest, done, attempts, epochs, commits, derivations,
                   providers, cached, held>>

\* A worker process dies: nobody tells the kernel.
Crash(w) ==
    /\ held[w] # {}
    /\ held' = [held EXCEPT ![w] = {}]
    /\ UNCHANGED <<run, slot, derivations, providers, cached>>

Next ==
    \/ StartRun
    \/ \E m \in Module : Register(m)
    \/ \E i \in Input, a \in Artifact : InjectInput(i, a)
    \/ \E w \in Worker, filter \in Filter, k \in MaxItems :
            ClaimReady(w, filter, k)
    \/ \E w \in Worker, e \in Extension : Heartbeat(w, e)
    \/ \E w \in Worker : \E h \in held[w], terminal \in BOOLEAN : FailWork(w, h, terminal)
    \/ \E w \in Worker : \E h \in held[w], outs \in Outputs, key \in RequestKey :
            Commit(w, h, outs, key)
    \/ CancelRun
    \/ Tick
    \/ \E w \in Worker : Crash(w)

Spec == Init /\ [][Next]_vars
=============================================================================
