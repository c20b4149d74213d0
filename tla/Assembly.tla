------------------------------ MODULE Assembly ------------------------------
(***************************************************************************)
(* What start_run accepts: restricting an assembly to include_nodes,       *)
(* validating it against the registered capabilities and the run inputs,   *)
(* and what the accepted run then delivers along its bindings.             *)
(*                                                                         *)
(* An artifact is modelled by the set of its traits, run inputs by a       *)
(* function of their name, the outputs of a commit by the first artifact   *)
(* of each port.  Ids and names are strings that a "/" may divide: they    *)
(* are modelled by the sequence of their parts.  The run here is           *)
(* FIRST_TERMINAL with ONCE nodes and the default max_steps, and a unit is *)
(* claimed and committed in one step: leases, budgets and firing are       *)
(* RunKernel's subject.  Module Cut starts the runs.                       *)
(***************************************************************************)
EXTENDS Integers, FiniteSets, SequencesExt

CONSTANTS
    Request,      \* requests: records with an assembly, include, a plan and inputs
    Provides,     \* module -> the capabilities its registered manifests provide
    Bag,          \* artifacts, as sets of traits
    Injected      \* the artifacts callers inject

VARIABLES
    request,      \* what the caller asks for
    state,        \* Run.state; "NONE" before the first run, "REFUSED" if it was refused
    assembly,     \* Run.assembly, frozen
    inputs,       \* Run.inputs: name -> artifact
    produced      \* nodes that committed -> port -> artifact

run == <<state, assembly, inputs, produced>>

\* The empty string: no id, no name, no source.
Empty == << >>

\* Names, and the shapes of the messages.
Text == Seq(STRING)
NodeRecord == [id : Text, module : DOMAIN Provides]
BindingRecord == [from : Text, fromPort : Text, input : Text, to : Text, toPort : Text]
AssemblyRecord ==
    [id : Text, nodes : Seq(NodeRecord), bindings : Seq(BindingRecord),
     terminal : [node : Text, port : Text]]
PortRecord == [name : Text, traits : SUBSET STRING, optional : BOOLEAN, multiple : BOOLEAN]

ASSUME ProvidesAssumption ==
    \A m \in DOMAIN Provides :
        Provides[m] \in Seq([inputs : Seq(PortRecord), outputs : Seq(PortRecord)])

ASSUME RequestAssumption ==
    \A r \in Request :
        r.assembly \in AssemblyRecord /\ r.include \in Seq(Text) /\ r.plan.ids \in Seq(Text)

Ids(a) == {a.nodes[k].id : k \in DOMAIN a.nodes}
\* The members of a set that a sequence lists, in its order.
Select(seq, S) ==
    LET chosen[k \in 0..Len(seq)] ==
            IF k = 0 THEN << >>
            ELSE IF seq[k] \in S THEN Append(chosen[k - 1], seq[k])
            ELSE chosen[k - 1]
    IN  chosen[Len(seq)]

\* A state taken through a sequence: step maps a state and an element to the next state.
Through(step, start, seq) ==
    LET at[k \in 0..Len(seq)] == IF k = 0 THEN start ELSE step[<<at[k - 1], seq[k]>>]
    IN  at[Len(seq)]
-----------------------------------------------------------------------------
(* Restriction *)

IncludedNodes(a, want) == Select(a.nodes, {n \in ToSet(a.nodes) : n.id \in want})

\* Faulty variant (mutation runs only).
IncludedBindingsInner(a, want) ==
    Select(a.bindings, {b \in ToSet(a.bindings) : b.to \in want /\ b.from \in want})

\* A binding stays if its target stays and its source, unless it is a run input, stays.
IncludedBindings(a, want) ==
    Select(a.bindings,
           {b \in ToSet(a.bindings) : b.to \in want /\ (b.input # Empty \/ b.from \in want)})

\* materialize_assembly refuses a selection with repeats, unknown nodes or no terminal.
MayInclude(a, include) ==
    include # << >> =>
        /\ Cardinality(ToSet(include)) = Len(include)
        /\ ToSet(include) \subseteq Ids(a)
        /\ a.terminal.node \in ToSet(include)

Materialize(a, include) ==
    IF include = << >> THEN a
    ELSE [a EXCEPT !.nodes = IncludedNodes(a, ToSet(include)),
                   !.bindings = IncludedBindings(a, ToSet(include))]
-----------------------------------------------------------------------------
(* Validation *)

\* capability_for_node: exactly one registered capability, or the assembly is refused.
Provided(a, id) == \E k \in DOMAIN a.nodes : a.nodes[k].id = id /\ Len(Provides[a.nodes[k].module]) = 1
Capability(a, id) ==
    LET k == CHOOSE k \in DOMAIN a.nodes : a.nodes[k].id = id
    IN  Provides[a.nodes[k].module][1]

\* port
HasPort(ports, name) == \E k \in DOMAIN ports : ports[k].name = name
Port(ports, name) == ports[CHOOSE k \in DOMAIN ports : ports[k].name = name]

TypedPorts(ports) ==
    \A k \in DOMAIN ports :
        /\ ports[k].name # Empty /\ ports[k].traits # {} /\ "" \notin ports[k].traits
        /\ \A j \in DOMAIN ports : ports[j].name = ports[k].name => j = k

ValidNodes(a) ==
    /\ a.id # Empty /\ a.nodes # << >>
    /\ \A k \in DOMAIN a.nodes :
        LET id == a.nodes[k].id IN
        /\ id # Empty
        /\ \A j \in DOMAIN a.nodes : a.nodes[j].id = id => j = k
        /\ Provided(a, id)
        /\ TypedPorts(Capability(a, id).inputs) /\ TypedPorts(Capability(a, id).outputs)

\* The terminal is one scalar output.
ValidTerminal(a) ==
    LET outs == Capability(a, a.terminal.node).outputs IN
    /\ a.terminal.node \in Ids(a)
    /\ HasPort(outs, a.terminal.port)
    /\ ~Port(outs, a.terminal.port).multiple

\* Faulty variant (mutation runs only).
TraitSetCoversBackwards(have, need) == have \subseteq need

\* trait_set_covers, has_traits
TraitSetCovers(have, need) == need \subseteq have

\* A binding from a run input: the artifact has what the target port requires.
ValidExternal(b, target, ins) ==
    b.input \in DOMAIN ins /\ TraitSetCovers(ins[b.input], target.traits)

\* Faulty variant (mutation runs only).
ValidUpstreamAnyPort(a, b, target) ==
    /\ b.from \in Ids(a)
    /\ HasPort(Capability(a, b.from).outputs, b.fromPort) =>
        TraitSetCovers(Port(Capability(a, b.from).outputs, b.fromPort).traits, target.traits)

\* A binding from an upstream port: the port guarantees what the target port requires.
ValidUpstream(a, b, target) ==
    /\ b.from \in Ids(a)
    /\ HasPort(Capability(a, b.from).outputs, b.fromPort)
    /\ TraitSetCovers(Port(Capability(a, b.from).outputs, b.fromPort).traits, target.traits)

ValidBinding(a, b, ins) ==
    /\ b.to \in Ids(a)
    /\ HasPort(Capability(a, b.to).inputs, b.toPort)
    /\ LET upstream == b.from # Empty \/ b.fromPort # Empty
           external == b.input # Empty
           target == Port(Capability(a, b.to).inputs, b.toPort)
       IN  \/ external /\ ~upstream /\ ValidExternal(b, target, ins)
           \/ upstream /\ ~external /\ ValidUpstream(a, b, target)

\* Every required port is bound, and no single port twice.
BindingCount(a, id, name) ==
    Cardinality({k \in DOMAIN a.bindings : a.bindings[k].to = id /\ a.bindings[k].toPort = name})

PortsBound(a) ==
    \A id \in Ids(a) : \A port \in ToSet(Capability(a, id).inputs) :
        /\ BindingCount(a, id, port.name) = 0 => port.optional
        /\ BindingCount(a, id, port.name) > 1 => port.multiple

\* The adjacency lists of the upstream bindings, in binding order.
Edges(a) ==
    [id \in Ids(a) |->
        LET down == Select(a.bindings, {b \in ToSet(a.bindings) : b.from = id})
        IN  [k \in DOMAIN down |-> down[k].to]]

\* The depth-first search: a cycle was met, the nodes on the present path, and the finished.
Search(ids) == [cycle : BOOLEAN, visiting : SUBSET ids, done : SUBSET ids]

\* Faulty variant (mutation runs only).
VisitOneLevel(edges, deeper) ==
    [call \in Search(DOMAIN edges) \X DOMAIN edges |->
        IF call[2] \in ToSet(edges[call[2]]) THEN [call[1] EXCEPT !.cycle = TRUE]
        ELSE [call[1] EXCEPT !.done = @ \cup {call[2]}]]

\* visit, of a search and a node, where deeper is what its recursive calls do.
Visit(edges, deeper) ==
    [call \in Search(DOMAIN edges) \X DOMAIN edges |->
        LET st == call[1]
            n == call[2]
            after == Through(deeper, [st EXCEPT !.visiting = @ \cup {n}], edges[n])
        IN  IF st.cycle \/ n \in st.done THEN st
            ELSE IF n \in st.visiting THEN [st EXCEPT !.cycle = TRUE]
            ELSE IF after.cycle THEN after
            ELSE [after EXCEPT !.visiting = @ \ {n}, !.done = @ \cup {n}]]

\* visit with as many levels of recursion as a path has nodes, and one to come back.
VisitAll(edges) ==
    LET visit[depth \in Nat] ==
            IF depth = 0 THEN [call \in Search(DOMAIN edges) \X DOMAIN edges |-> call[1]]
            ELSE Visit(edges, visit[depth - 1])
    IN  visit[Cardinality(DOMAIN edges) + 1]

FindsCycle(a) ==
    Through(VisitAll(Edges(a)), [cycle |-> FALSE, visiting |-> {}, done |-> {}],
            [k \in DOMAIN a.nodes |-> a.nodes[k].id]).cycle

\* validate_assembly
Valid(a, ins) ==
    /\ ValidNodes(a)
    /\ ValidTerminal(a)
    /\ Empty \notin DOMAIN ins
    /\ \A k \in DOMAIN a.bindings : ValidBinding(a, a.bindings[k], ins)
    /\ PortsBound(a)
    /\ ~FindsCycle(a)
-----------------------------------------------------------------------------
(* The accepted run *)

Init ==
    /\ request \in Request
    /\ state = "NONE"
    /\ assembly = Empty /\ inputs = << >> /\ produced = << >>

\* start_run: freezes the restricted assembly over the inputs, or refuses.
MayStart(a, include, ins) == MayInclude(a, include) /\ Valid(Materialize(a, include), ins)

Freeze(a, include, ins) ==
    /\ state' = "RUNNING"
    /\ assembly' = Materialize(a, include)
    /\ inputs' = ins
    /\ produced' = << >>

BindingsTo(id) == {k \in DOMAIN assembly.bindings : assembly.bindings[k].to = id}

\* resolve_inputs
BindingResolves(b) ==
    IF b.input # Empty THEN b.input \in DOMAIN inputs
    ELSE b.from \in DOMAIN produced /\ b.fromPort \in DOMAIN produced[b.from]

Delivered(b) == IF b.input # Empty THEN inputs[b.input] ELSE produced[b.from][b.fromPort]

Ready(id) ==
    /\ id \notin DOMAIN produced
    /\ \A k \in BindingsTo(id) : BindingResolves(assembly.bindings[k])

\* validate_outputs: every required port, declared ports only, with the traits they guarantee.
ValidOutputs(ports, outs) ==
    /\ \A k \in DOMAIN ports : ports[k].optional \/ ports[k].name \in DOMAIN outs
    /\ \A name \in DOMAIN outs :
        HasPort(ports, name) /\ TraitSetCovers(outs[name], Port(ports, name).traits)

\* assembly_any_ready
AnyReady == \E id \in Ids(assembly) : Ready(id)

Answers(id, outs) == id = assembly.terminal.node /\ assembly.terminal.port \in DOMAIN outs

\* The closure decision: answer, then max_steps (the number of nodes), then stall.
StateAfterCommit(id, outs) ==
    IF Answers(id, outs) THEN "COMPLETED"
    ELSE IF Cardinality(DOMAIN produced') >= Len(assembly.nodes) THEN "FAILED"
    ELSE IF ~AnyReady' THEN "STALLED"
    ELSE state

\* commit of the unit of a ready node.
Commit(id, outs) ==
    /\ state = "RUNNING"
    /\ Ready(id)
    /\ ValidOutputs(Capability(assembly, id).outputs, outs)
    /\ produced' = [n \in DOMAIN produced \cup {id} |-> IF n = id THEN outs ELSE produced[n]]
    /\ UNCHANGED <<request, assembly, inputs>>
    /\ state' = StateAfterCommit(id, outs)

\* inject_input: the name must be bound and the artifact stored; its traits are not looked at.
InjectInput(name, bag) ==
    /\ state = "RUNNING"
    /\ name # Empty
    /\ \E k \in DOMAIN assembly.bindings : assembly.bindings[k].input = name
    /\ inputs' = [i \in DOMAIN inputs \cup {name} |-> IF i = name THEN bag ELSE inputs[i]]
    /\ UNCHANGED <<request, state, assembly, produced>>

OutPorts == UNION {{Provides[m][1].outputs[k].name : k \in DOMAIN Provides[m][1].outputs} :
                    m \in {m \in DOMAIN Provides : Provides[m] # << >>}}

CommitSome ==
    /\ state = "RUNNING"
    /\ \E id \in Ids(assembly) : \E S \in SUBSET OutPorts : \E outs \in [S -> Bag] :
            Commit(id, outs)

InjectSome ==
    /\ state = "RUNNING"
    /\ \E k \in DOMAIN assembly.bindings, bag \in Injected :
            InjectInput(assembly.bindings[k].input, bag)
=============================================================================
