-------------------------------- MODULE Cut --------------------------------
(***************************************************************************)
(* Starting a pipeline in the middle: the Host drops nodes from an         *)
(* assembly, turns every binding that crosses the cut into a run input     *)
(* (a seed), and has the kernel start a run of what is left.  resume_after *)
(* takes the seeds from what an earlier run committed.                     *)
(*                                                                         *)
(* One run is modelled at a time: resuming it makes the new run the        *)
(* present one.  Every start is one step; the kernel calls in it read a    *)
(* frozen assembly and commits, which only grow.                           *)
(***************************************************************************)
EXTENDS Assembly

CONSTANT MaxResumes   \* bound: accepted resumes

VARIABLES
    resumes,     \* runs resumed so far; the number of the present run
    answer,      \* what the last resume_after said, until the run moves on
    announced    \* Skipped events: numbers of runs, with a node not to be run

cvars == <<request, run, resumes, answer, announced>>

NoAnswer == [after |-> Empty, ok |-> TRUE]
-----------------------------------------------------------------------------
(* Names *)

SeedInputPrefix == <<"__seed">>

\* A literal is a string: TLC can tell, the prover cannot.
ASSUME SeedPrefixAssumption == SeedInputPrefix \in Text

\* seed_input_name: a prefix, the node and the port, divided by "/".
SeedInputName(node, port) == SeedInputPrefix \o node \o port

IsSeedInputName(name) == Len(name) > 1 /\ IsPrefix(SeedInputPrefix, name)
-----------------------------------------------------------------------------
(* Which nodes are kept *)

Sources(a, S) ==
    {a.bindings[k].from : k \in {k \in DOMAIN a.bindings : a.bindings[k].to \in S}} \ {Empty}

Targets(a, S) ==
    {a.bindings[k].to : k \in {k \in DOMAIN a.bindings : a.bindings[k].from \in S}} \ {Empty}

\* Faulty variant (mutation runs only).
WithPredecessorsOneLevel(a, S) == S \cup Sources(a, S)

\* transitive_predecessors, breadth first: S and all that feeds it.  A round that finds
\* anything finds the source of another binding.
WithPredecessors(a, S) ==
    LET reach[round \in Nat] ==
            IF round = 0 THEN S
            ELSE LET found == reach[round - 1] IN found \cup Sources(a, found)
    IN  reach[Len(a.bindings)]

\* reachable_from, breadth first: S and all that it feeds.
ReachableFrom(a, S) ==
    LET reach[round \in Nat] ==
            IF round = 0 THEN S
            ELSE LET found == reach[round - 1] IN found \cup Targets(a, found)
    IN  reach[Len(a.bindings)]

\* resolve_kept_nodes refuses a plan that names unknown nodes or loses the terminal.
MayKeep(a, plan) ==
    LET ids == ToSet(plan.ids) IN
    /\ a.nodes # << >> /\ a.terminal.node \in Ids(a)
    /\ ids \subseteq Ids(a)
    /\ \/ plan.kind = "ALL"
       \/ plan.kind = "ONLY" /\ plan.ids # << >> /\ Cardinality(ids) = Len(plan.ids)
                             /\ a.terminal.node \in ids
       \/ plan.kind = "AFTER" /\ a.terminal.node \notin WithPredecessors(a, ids)
       \/ plan.kind = "FROM" /\ a.terminal.node \in ReachableFrom(a, ids)

Kept(a, plan) ==
    CASE plan.kind = "ALL" -> Ids(a)
      [] plan.kind = "ONLY" -> ToSet(plan.ids)
      [] plan.kind = "AFTER" -> Ids(a) \ WithPredecessors(a, ToSet(plan.ids))
      [] plan.kind = "FROM" -> ReachableFrom(a, ToSet(plan.ids))
-----------------------------------------------------------------------------
(* The cut *)

\* Nothing to cut: the assembly stays as it is.
IsWhole(a, plan) == plan.kind = "ALL" \/ Cardinality(Kept(a, plan)) = Len(a.nodes)

Skipped(a, plan) == IF IsWhole(a, plan) THEN {} ELSE Ids(a) \ Kept(a, plan)

CrossesCut(b, kept) == b.input = Empty /\ b.from \notin kept

KeptBindings(a, kept) == Select(a.bindings, {b \in ToSet(a.bindings) : b.to \in kept})

\* Every binding of a kept node has a source.
MayCut(a, plan) ==
    /\ MayKeep(a, plan)
    /\ \/ IsWhole(a, plan)
       \/ \A b \in ToSet(KeptBindings(a, Kept(a, plan))) : b.input # Empty \/ b.from # Empty

\* Faulty variant (mutation runs only).
SeededByPort(b) ==
    [b EXCEPT !.from = Empty, !.fromPort = Empty, !.input = SeedInputName(b.from, b.toPort)]

\* A crossing binding is rebound to a seed.
Seeded(b) ==
    [b EXCEPT !.from = Empty, !.fromPort = Empty, !.input = SeedInputName(b.from, b.fromPort)]

\* materialize_cut
MaterializeCut(a, plan) ==
    LET kept == Kept(a, plan)
        down == KeptBindings(a, kept)
    IN  IF IsWhole(a, plan) THEN a
        ELSE [a EXCEPT !.nodes = IncludedNodes(a, kept),
                       !.bindings = [k \in DOMAIN down |->
                            IF CrossesCut(down[k], kept) THEN Seeded(down[k]) ELSE down[k]]]

RequiredSeeds(a, plan) ==
    LET kept == Kept(a, plan) IN
    IF IsWhole(a, plan) THEN {}
    ELSE {SeedInputName(b.from, b.fromPort) :
            b \in {b \in ToSet(KeptBindings(a, kept)) : CrossesCut(b, kept)}}

\* validate_seeds_present
ValidateSeedsPresent(a, plan, ins) == RequiredSeeds(a, plan) \subseteq DOMAIN ins
-----------------------------------------------------------------------------
(* Seeds *)

\* seeds_from_run: every output of the nodes; of two with one name, a single one counts.
SeedsFromRun(nodes) ==
    LET ports == UNION {{<<n, p>> : p \in DOMAIN produced[n]} : n \in nodes}
    IN  [name \in {SeedInputName(np[1], np[2]) : np \in ports} |->
            LET np == CHOOSE np \in ports : SeedInputName(np[1], np[2]) = name
            IN  produced[np[1]][np[2]]]

\* merge_inputs: seeds win.
MergeInputs(base, seeds) ==
    [name \in DOMAIN base \cup DOMAIN seeds |->
        IF name \in DOMAIN seeds THEN seeds[name] ELSE base[name]]

\* Faulty variant (mutation runs only).
OwnInputsAtStart == request.inputs

\* The inputs of the present run that are not seeds, with what was injected since.
OwnInputs ==
    [name \in {name \in DOMAIN inputs : ~IsSeedInputName(name)} |-> inputs[name]]
-----------------------------------------------------------------------------
(* Starting *)

After(id) == [kind |-> "AFTER", ids |-> <<id>>, selective |-> TRUE]

\* What start_pipeline checks before it calls the kernel.
MayPrepare(a, ins, plan) ==
    /\ ~(plan.selective /\ plan.kind = "ALL")
    /\ MayCut(a, plan)
    /\ ValidateSeedsPresent(a, plan, ins)

\* emit_skip_events, before the kernel has accepted the run.
EmitSkipEvents(a, plan, number) ==
    announced' = announced \cup {<<number, n>> : n \in Skipped(a, plan)}

\* start_pipeline of a run with this number succeeds.
PipelineStarts(a, ins, plan, number) ==
    LET cut == MaterializeCut(a, plan) IN
    /\ MayPrepare(a, ins, plan) /\ MayStart(cut, << >>, ins)
    /\ EmitSkipEvents(a, plan, number)
    /\ Freeze(cut, << >>, ins)

\* It is refused: by the kernel, when the events are out, or before.
PipelineRefused(a, ins, plan, number) ==
    LET cut == MaterializeCut(a, plan) IN
    \/ /\ MayPrepare(a, ins, plan) /\ ~MayStart(cut, << >>, ins)
       /\ EmitSkipEvents(a, plan, number)
    \/ ~MayPrepare(a, ins, plan) /\ UNCHANGED announced

Refused == state' = "REFUSED" /\ UNCHANGED <<assembly, inputs, produced>>

\* start_pipeline of the request.
StartPipeline ==
    LET r == request IN
    /\ state = "NONE" /\ r.plan.kind # "NONE"
    /\ \/ PipelineStarts(r.assembly, r.inputs, r.plan, 0)
       \/ PipelineRefused(r.assembly, r.inputs, r.plan, 0) /\ Refused
    /\ UNCHANGED <<request, resumes, answer>>

\* start_run of the request: the kernel's own selection, no policy.
StartRun ==
    LET r == request IN
    /\ state = "NONE" /\ r.plan.kind = "NONE"
    /\ \/ MayStart(r.assembly, r.include, r.inputs) /\ Freeze(r.assembly, r.include, r.inputs)
       \/ ~MayStart(r.assembly, r.include, r.inputs) /\ Refused
    /\ UNCHANGED <<request, resumes, answer, announced>>

\* resume_after: start_pipeline over the assembly of the present run, its own inputs and
\* seeds from what the skipped nodes committed; all of them must have.
ResumeAfter(id) ==
    LET skipped == Skipped(assembly, After(id))
        ins == MergeInputs(OwnInputs, SeedsFromRun(skipped))
        mayCollect == MayCut(assembly, After(id)) /\ skipped \subseteq DOMAIN produced
    IN  /\ state \notin {"NONE", "REFUSED"} /\ resumes < MaxResumes
        /\ \/ /\ mayCollect
              /\ PipelineStarts(assembly, ins, After(id), resumes + 1)
              /\ resumes' = resumes + 1
              /\ answer' = [after |-> id, ok |-> TRUE]
           \/ /\ \/ mayCollect /\ PipelineRefused(assembly, ins, After(id), resumes + 1)
                 \/ ~mayCollect /\ UNCHANGED announced
              /\ answer' = [after |-> id, ok |-> FALSE]
              /\ UNCHANGED <<run, resumes>>
        /\ UNCHANGED request

CutInit == Init /\ resumes = 0 /\ answer = NoAnswer /\ announced = {}

\* The run moves on.
RunStep ==
    /\ CommitSome \/ InjectSome
    /\ answer' = NoAnswer
    /\ UNCHANGED <<resumes, announced>>

CutNext ==
    \/ StartRun
    \/ StartPipeline
    \/ RunStep
    \/ \E id \in Ids(request.assembly) : ResumeAfter(id)

CutSpec == CutInit /\ [][CutNext]_cvars
=============================================================================
