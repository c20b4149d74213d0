------------------------- MODULE AssemblyProperties -------------------------
(***************************************************************************)
(* What a frozen assembly promises the run (kernel/SPEC.md, "Run" and      *)
(* "Run closure rules").                                                   *)
(***************************************************************************)
EXTENDS Cut

Started == {"RUNNING", "COMPLETED", "STALLED", "FAILED"}
PortNames(ports) == {ports[k].name : k \in DOMAIN ports}

\* A cycle, without any walk: nodes of which each is fed by another of them.
Cyclic(a) ==
    \E S \in (SUBSET Ids(a)) \ {{}} : \A id \in S :
        \E k \in DOMAIN a.bindings : a.bindings[k].to = id /\ a.bindings[k].from \in S

Requested ==
    IF request.plan.kind = "NONE" THEN Materialize(request.assembly, request.include)
    ELSE MaterializeCut(request.assembly, request.plan)

\* Nothing but the wiring is wrong with the request.
Selects ==
    IF request.plan.kind = "NONE" THEN MayInclude(request.assembly, request.include)
    ELSE MayPrepare(request.assembly, request.inputs, request.plan)

WellTyped(a, ins) ==
    /\ ValidNodes(a) /\ ValidTerminal(a) /\ Empty \notin DOMAIN ins
    /\ \A k \in DOMAIN a.bindings : ValidBinding(a, a.bindings[k], ins)
    /\ PortsBound(a)

\* The depth-first search of StartRun refuses every cyclic assembly and nothing else:
\* diamonds, repeated edges and any order of nodes and bindings are accepted.
CyclesAreRefused ==
    /\ state \in Started => ~Cyclic(assembly)
    /\ (/\ state = "REFUSED"
        /\ Selects
        /\ WellTyped(Requested, request.inputs))
       => Cyclic(Requested)

\* An accepted assembly cannot stall by itself: as long as every commit emits all the ports
\* it declares, the run has a ready node until it is COMPLETED, and ends neither STALLED nor
\* FAILED, whichever nodes were excluded.
NoStall ==
    (/\ state \in Started
     /\ \A id \in DOMAIN produced :
            DOMAIN produced[id] = PortNames(Capability(assembly, id).outputs))
    => state = "COMPLETED" \/ (state = "RUNNING" /\ AnyReady)

\* What reaches an input port has every trait the port requires (SPEC: "source guarantees
\* cover target requires, or the actual input artifact has all required traits").
DeliveredTraits ==
    state \in Started =>
        \A k \in DOMAIN assembly.bindings :
            LET b == assembly.bindings[k] IN
            BindingResolves(b) =>
                Port(Capability(assembly, b.to).inputs, b.toPort).traits \subseteq Delivered(b)

\* include_nodes never makes a good assembly bad: a selection with the terminal and all
\* that feeds it is accepted whenever the whole assembly would be.
SelectionSound ==
    state = "REFUSED" =>
        ~(/\ request.plan.kind = "NONE"
          /\ MayInclude(request.assembly, request.include)
          /\ Valid(request.assembly, request.inputs)
          /\ \A k \in DOMAIN request.assembly.bindings :
                LET b == request.assembly.bindings[k] IN
                (b.to \in ToSet(request.include) /\ b.from # Empty)
                    => b.from \in ToSet(request.include))
-----------------------------------------------------------------------------
(* Resuming *)

\* All that feeds a node, and the node, without any walk: the least set closed under feeding.
Upstream(a, id) ==
    {n \in Ids(a) : \A S \in SUBSET Ids(a) : (id \in S /\ Sources(a, S) \subseteq S) => n \in S}

\* The node has committed, the answer is still to come after it, and what it and its
\* predecessors hand to other nodes was produced.
Resumable(id) ==
    /\ id \in DOMAIN produced
    /\ assembly.terminal.node \notin Upstream(assembly, id)
    /\ \A b \in ToSet(assembly.bindings) :
        (b.from \in Upstream(assembly, id) /\ b.to \notin Upstream(assembly, id))
            => BindingResolves(b)

\* A run can be resumed after any completed node: the derivations of the node and of all its
\* predecessors give every seed the cut needs, with the traits the ports require (resume_after:
\* "Resume a prior run **after** a completed node").
ResumeAccepted == ~answer.ok => ~Resumable(answer.after)

\* The same for a run whose assembly has no seed in it.
UncutResumeAccepted ==
    (~answer.ok /\ \A b \in ToSet(assembly.bindings) : ~IsSeedInputName(b.input))
        => ~Resumable(answer.after)

\* Nodes of the new run get across the cut exactly the artifacts they got, or would have got,
\* in the prior run, on the same ports.
ResumeDelivers ==
    [][resumes' # resumes =>
        \A b \in {b \in ToSet(assembly.bindings) :
                    b.to \in Ids(assembly') /\ b.from \notin Ids(assembly')} :
            \E c \in ToSet(assembly'.bindings) :
                /\ c.to = b.to /\ c.toPort = b.toPort /\ c.from = Empty
                /\ BindingResolves(c)'
                /\ inputs'[c.input] = Delivered(b)]_cvars

\* A resumed run does all that was not done before the node and nothing else: no node that
\* feeds it runs again, no other node is lost, nothing kept waits for a node left out, and
\* every node left out was announced as skipped.
ResumeRunsTheRest ==
    [][resumes' # resumes =>
        /\ Ids(assembly') = Ids(assembly) \ Upstream(assembly, answer'.after)
        /\ Sources(assembly', Ids(assembly')) \subseteq Ids(assembly')
        /\ \A n \in Ids(assembly) \ Ids(assembly') : <<resumes', n>> \in announced']_cvars
=============================================================================
