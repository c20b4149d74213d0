--------------------------- MODULE RunProperties ---------------------------
(***************************************************************************)
(* What the convergence engine promises: kernel/SPEC.md "Run closure       *)
(* rules" and docs/Concurrency.md, stated over the model of the code.      *)
(***************************************************************************)
EXTENDS RunKernel

\* Values a claim, a derivation and a worker's item can have.
InputMap == UNION {[BindingsTo(n) -> Artifact] : n \in Node}

\* The type invariant: shapes of the run record, of RunSlot and of the workers' items.
TypeOK ==
    /\ state \in RunState
    /\ answer \in Artifact \cup {None}
    /\ steps \in Nat
    /\ inputs \in [Input -> Artifact]
    /\ claimed \in [DOMAIN claimed -> [node : Node, inputs : InputMap, lease : Nat,
                                       attempt : Nat \ {0}]]
    /\ latest \in [Node -> Outputs]
    /\ attempts \in [DOMAIN attempts -> Nat \ {0}]
    /\ epochs \in [Input -> Nat]
    /\ commits \in [Node -> Nat]
    /\ derivations \in Seq([node : Node, unit : done, inputs : InputMap, outputs : Outputs])
    /\ providers \in [Module -> Nat \ {0}]
    /\ cached \in SUBSET [caller : Worker, key : RequestKey \ {None}, derivation : Nat \ {0}]
    /\ held \in [Worker -> SUBSET [unit : DOMAIN attempts, attempt : Nat \ {0}]]

-----------------------------------------------------------------------------
(* Work units *)

\* Commit, FailWork and the reap keep READY, CLAIMED and DONE apart: a unit in
\* done_units is never in the claim table (docs/Concurrency.md, lifecycle).
ClaimedNotDone == DOMAIN claimed \cap done = {}

\* A unit is committed at most once per run, however many workers were handed it,
\* whatever leases lapsed and whichever replies were lost.
CommittedOnce ==
    \A j, k \in DOMAIN derivations : derivations[j].unit = derivations[k].unit => j = k

\* The firing policy as an observer of the derivations sees it: a ONCE node commits
\* once, an ONCE_PER_KEY node never twice for the same key artifacts.
FiringIdentity ==
    \A j, k \in DOMAIN derivations :
        LET n == derivations[j].node IN
        (j # k /\ derivations[k].node = n) =>
            /\ EffectiveFiring(n) # "ONCE"
            /\ EffectiveFiring(n) = "ONCE_PER_KEY" =>
                 InputKey(n, derivations[j].inputs) # InputKey(n, derivations[k].inputs)

\* An ALWAYS node does not busy-loop: it commits at most once per generation its
\* sources went through since they first delivered.
FirstGeneration(i) == IF Binding[i].input # None THEN 0 ELSE 1
Redelivered(n) ==
    UNION {{i} \X ((FirstGeneration(i) + 1)..Generation(i)) : i \in BindingsTo(n)}
NoBusyLoop == \A n \in Node : commits[n] <= 1 + Cardinality(Redelivered(n))

\* The retry budget: no unit is handed out more than MaxAttempts times, the slot in
\* the table is the last hand-out, and a unit at its budget is in flight or DONE (CancelRun
\* empties the table and leaves its units in neither).
AttemptBudget ==
    /\ \A u \in DOMAIN attempts : attempts[u] <= MaxAttempts
    /\ \A u \in DOMAIN claimed : u \in DOMAIN attempts /\ claimed[u].attempt = attempts[u]
    /\ state # "CANCELLED" =>
         \A u \in DOMAIN attempts : attempts[u] = MaxAttempts => u \in DOMAIN claimed \cup done

\* The budgets of Limits, whatever is reaped, claimed and committed in which order:
\* max_in_flight bounds the claim table (0 = unbounded); max_steps bounds committed work,
\* so an open run has budget left and FAILED is exactly the exhausted budget.
LimitsHold ==
    /\ MaxInFlight > 0 => Cardinality(DOMAIN claimed) <= MaxInFlight
    /\ steps = Len(derivations)
    /\ state = "RUNNING" => steps < MaxSteps
    /\ state = "FAILED" => steps = MaxSteps

\* The run as an instance of the work-unit lifecycle: what is in flight under which
\* attempt, what is DONE, what was committed in which order.
Phase ==
    CASE state = "NONE" -> "idle"
      [] state = "RUNNING" -> "open"
      [] state = "CANCELLED" -> "cancelled"
      [] OTHER -> "closed"
Flight == [u \in DOMAIN claimed |-> claimed[u].attempt]
Log == [k \in DOMAIN derivations |-> derivations[k].unit]

WU == INSTANCE WorkUnits WITH
        Budget <- MaxAttempts, phase <- Phase, flight <- Flight, finished <- done,
        tried <- attempts, log <- Log

\* Every RPC, tick and crash is a step of that lifecycle or changes nothing in it.
Lifecycle == WU!Spec

-----------------------------------------------------------------------------
(* Data flow and closure *)

\* Lineage is closed: what a derivation consumed from an upstream node was produced
\* by an earlier derivation of that node, on that port.
LineageClosed ==
    \A k \in DOMAIN derivations : \A i \in BindingsTo(derivations[k].node) :
        Binding[i].from # None =>
            \E j \in 1..(k - 1) :
                /\ derivations[j].node = Binding[i].from
                /\ Binding[i].fromPort \in DOMAIN derivations[j].outputs
                /\ derivations[j].outputs[Binding[i].fromPort] = derivations[k].inputs[i]

\* The answer is the terminal output of the last derivation that produced one, and
\* under FIRST_TERMINAL a run that has an answer is COMPLETED.
AnswerProvenance ==
    LET answering == {k \in DOMAIN derivations :
                        Answers(derivations[k].node, derivations[k].outputs)} IN
    /\ answering = {} => answer = None
    /\ \A k \in answering : (\A j \in answering : j <= k) =>
            answer = derivations[k].outputs[TerminalPort]
    /\ ~Open => (state = "COMPLETED" <=> answering # {})

\* STALLED only when there is no unit in flight and none whose inputs resolve and
\* that is not DONE (READY as docs/Concurrency.md defines it).
StalledMeansExhausted ==
    state = "STALLED" =>
        /\ ~Open
        /\ DOMAIN claimed = {}
        /\ \A n \in Node : Resolves(n) => WorkUnitKey(n) \in done

\* A closed run never reopens and accepts no claim, commit, inject, heartbeat or fail:
\* nothing of the run changes any more (the clock still runs on abandoned leases).
ClosedIsFinal ==
    [][(state \in ClosedState) =>
         /\ UNCHANGED <<run, inputs, latest, done, attempts, epochs, commits, derivations>>
         /\ DOMAIN claimed' = DOMAIN claimed]_vars

\* A unit that leaves the table without being DONE is READY again (SPEC: FailWork
\* retryable or lease expiry -> READY unless attempts are exhausted).
ReleasedIsReady ==
    [][\A u \in DOMAIN claimed \ DOMAIN claimed' :
         (state' = "RUNNING" /\ u \notin done') =>
            /\ ReadyIn(u.node, claimed, done)'
            /\ WorkUnitKey(u.node)' = u]_vars

-----------------------------------------------------------------------------
(* Leases and stale workers *)

\* docs/Concurrency.md:83 "Renew listed work ids first (including barely-expired still-held
\* claims), then reap other expired units": a worker that heartbeats for a unit still in the
\* table under its attempt has it afterwards, with time left.
HeartbeatRenews ==
    \A w \in Worker, e \in Extension : Heartbeat(w, e) =>
        \A h \in held[w] :
            (h.unit \in DOMAIN claimed /\ claimed[h.unit].attempt = h.attempt) =>
               /\ h.unit \in DOMAIN claimed'
               /\ claimed'[h.unit].attempt = h.attempt /\ claimed'[h.unit].lease > 0
HeldIsRenewed == [][HeartbeatRenews]_vars

\* The comment on Heartbeat, "Expired or unknown ids appear in lost_work_ids": a unit whose
\* lease ran out is in the table with time left only if it was handed out again.
LapsedIsLost ==
    [][\A u \in Expired(claimed) \cap DOMAIN claimed' :
         claimed'[u].lease > 0 => claimed'[u].attempt > claimed[u].attempt]_vars

\* What the kernel does guarantee without fencing: a unit in the table was handed to
\* at most one worker per attempt, so two workers that both hold it differ in attempt.
OneHolderPerAttempt ==
    \A w, x \in Worker : w # x => held[w] \cap held[x] = {}

\* A kept commit reply stands for a commit that took effect, and is one caller's under one
\* request_key: a refused or lost commit is never answered from the idempotency table, and a
\* worker that retries after its reply was lost gets the reply of the derivation it made,
\* although the unit is long DONE and the run perhaps closed.
RepliesAreCommits ==
    /\ \A c \in cached : c.derivation \in DOMAIN derivations
    /\ \A c, d \in cached :
         ((c.caller = d.caller /\ c.key = d.key) \/ c.derivation = d.derivation) => c = d

-----------------------------------------------------------------------------
(* Progress *)

\* A worker gets an answer for one of its items, and is done with that item.
FinishItem(w) ==
    \E h \in held[w] :
        /\ \/ \E outs \in Outputs, key \in RequestKey : Commit(w, h, outs, key)
           \/ \E terminal \in BOOLEAN : FailWork(w, h, terminal)
        /\ h \notin held'[w]

\* Somebody polls the whole assembly.
PollAll == \E w \in Worker : ClaimReady(w, Node, Cardinality(Node))

\* Time passes, some worker keeps polling, and a worker that lives finishes what it
\* holds.  No worker is obliged to succeed, to heartbeat or to stay alive.
Fairness == WF_vars(Tick) /\ WF_vars(PollAll) /\ \A w \in Worker : WF_vars(FinishItem(w))
FairSpec == Spec /\ Fairness

\* Every FIRST_TERMINAL run closes.
RunCloses == (state = "RUNNING" /\ ~Open) ~> state \in ClosedState

\* Dead workers do not poison the run: a claim is not kept forever.
ClaimsResolve ==
    \A n \in Node :
        (state = "RUNNING" /\ \E u \in DOMAIN claimed : u.node = n)
            ~> (state # "RUNNING" \/ \A u \in DOMAIN claimed : u.node # n)
=============================================================================
