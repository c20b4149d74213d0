-------------------------- MODULE RunLimitsProofs ---------------------------
(***************************************************************************)
(* Leases, limits, redeliveries and closure of a run, for every assembly,  *)
(* policy, limit and set of workers.                                       *)
(***************************************************************************)
EXTENDS RunLineageProofs, FiniteSetTheorems

(* A closed run. *)

\* Only the clock, the registry and the workers move once a run is closed.
LEMMA ClosedStep ==
    ASSUME [AnyCall]_vars, state \in ClosedState
    PROVE  /\ UNCHANGED <<run, inputs, latest, done, attempts, epochs, commits, derivations>>
           /\ DOMAIN claimed' = DOMAIN claimed
<1> USE DEF run, slot
<1>0. state # "RUNNING" /\ state # "NONE"
  BY DEF ClosedState
<1>1. ASSUME NEW m \in Module, Register(m)
      PROVE  UNCHANGED <<run, slot, derivations>>
  BY <1>1 DEF Register
<1>2. ASSUME NEW w \in Worker, NEW h, NEW outs, NEW key, Commit(w, h, outs, key)
      PROVE  UNCHANGED <<run, slot, derivations>>
  BY <1>0, <1>2 DEF Commit, CommitReplay
<1>3. CASE Tick
  BY <1>3 DEF Tick
<1>4. ASSUME NEW w \in Worker, Crash(w)
      PROVE  UNCHANGED <<run, slot, derivations>>
  BY <1>4 DEF Crash
<1>5. CASE UNCHANGED vars
  BY <1>5 DEF vars
<1> QED BY <1>0, <1>1, <1>2, <1>3, <1>4, <1>5
        DEF AnyCall, StartRun, InjectInput, ClaimReady, Heartbeat, FailWork, CancelRun

\* A closed run never reopens: whatever call arrives late, retried or duplicated, nothing of
\* the run changes any more, and no abandoned claim comes or goes.
THEOREM ClosedForGood == Spec => ClosedIsFinal
<1>1. [AnyCall]_vars =>
        [(state \in ClosedState) =>
           /\ UNCHANGED <<run, inputs, latest, done, attempts, epochs, commits, derivations>>
           /\ DOMAIN claimed' = DOMAIN claimed]_vars
  BY ClosedStep
<1> QED BY <1>1, SpecIsEngine, PTL DEF Engine, ClosedIsFinal
-----------------------------------------------------------------------------
(* Who holds what. *)

\* What OneHolderPerAttempt rests on: nobody holds an attempt that was not handed out yet.
HeldBelow == \A w \in Worker : \A h \in held[w] : h.attempt <= attempts[h.unit]
Holders == HeldBelow /\ OneHolderPerAttempt

LEMMA HoldersStep == TypeOK /\ Holders /\ StepKind => Holders'
<1> SUFFICES ASSUME TypeOK, Holders, StepKind PROVE Holders'
  OBVIOUS
<1>0. /\ held \in [Worker -> SUBSET HeldItem(DOMAIN attempts)]
      /\ attempts \in [DOMAIN attempts -> Nat \ {0}]
  BY TypeParts
<1>1. CASE UNCHANGED attempts /\ \A x \in Worker : held'[x] \subseteq held[x]
  BY <1>1 DEF Holders, HeldBelow, OneHolderPerAttempt
<1>2. ASSUME NEW w \in Worker, NEW take \in SUBSET Node, HandsOut(w, take)
      PROVE  Holders'
  <2> DEFINE units == UnitsOf(take)
             items == {[unit |-> u, attempt |-> AttemptOf(u) + 1] : u \in units}
  <2>1. /\ attempts' = [u \in DOMAIN attempts \cup units |->
                          IF u \in units THEN AttemptOf(u) + 1 ELSE attempts[u]]
        /\ held' = [held EXCEPT ![w] = @ \cup items]
    BY <1>2 DEF HandsOut
  <2>2. \A u : AttemptOf(u) \in Nat /\ (u \in DOMAIN attempts => AttemptOf(u) = attempts[u])
    BY <1>0 DEF AttemptOf
  <2>3. \A x \in Worker : \A h \in held[x] :
          h.unit \in DOMAIN attempts /\ h.attempt \in Nat /\ h.attempt <= AttemptOf(h.unit)
    BY <1>0, <2>2 DEF HeldItem, Holders, HeldBelow
  <2>4. \A h \in items : h.unit \in units /\ h.attempt = AttemptOf(h.unit) + 1
    OBVIOUS
  <2> HIDE DEF units, items
  <2>5. \A x \in Worker : \A h \in held'[x] : h \in held[x] \/ (x = w /\ h \in items)
    BY <1>0, <2>1
  <2>6. HeldBelow'
    <3> SUFFICES ASSUME NEW x \in Worker, NEW h \in held'[x]
                 PROVE  h.attempt <= attempts'[h.unit]
      BY DEF HeldBelow
    <3>1. CASE h \in held[x]
      BY <2>1, <2>2, <2>3, <3>1
    <3>2. CASE h \in items
      BY <2>1, <2>2, <2>4, <3>2
    <3> QED BY <2>5, <3>1, <3>2
  <2>7. OneHolderPerAttempt'
    <3>1. \A x \in Worker : held[x] \cap items = {}
      BY <2>2, <2>3, <2>4
    <3> QED BY <2>5, <3>1 DEF OneHolderPerAttempt, Holders
  <2> QED BY <2>6, <2>7 DEF Holders
<1> QED BY <1>1, <1>2 DEF StepKind, Releases, Accepts

LEMMA InitHolders == Init => Holders
BY DEF Init, Holders, HeldBelow, OneHolderPerAttempt

LEMMA EngineHolders == Engine => [](HeldBelow /\ OneHolderPerAttempt)
<1>1. Holders => HeldBelow /\ OneHolderPerAttempt
  BY DEF Holders
<1> QED BY <1>1, InitHolders, HoldersStep, StepKinds, EngineTyped, PTL DEF Engine

\* No attempt of a unit is in two hands: two workers that both hold a unit hold different
\* attempts of it, whatever lapsed, was renewed late or was handed out again.
THEOREM OneHolder == Spec => []OneHolderPerAttempt
BY SpecIsEngine, EngineHolders, PTL
-----------------------------------------------------------------------------
(* The budgets of Limits. *)

LEMMA MaxStepsNat == MaxSteps \in Nat
<1>1. Cardinality(Node) \in Nat
  BY FS_CardinalityType, AssemblyAssumption
<1> QED BY <1>1, LimitsAssumption DEF MaxSteps

\* A wave of units is no larger than the set of nodes it is for.
LEMMA UnitsBounded ==
    ASSUME NEW take \in SUBSET Node
    PROVE  /\ IsFiniteSet(UnitsOf(take)) /\ IsFiniteSet(take)
           /\ Cardinality(UnitsOf(take)) \in Nat /\ Cardinality(take) \in Nat
           /\ Cardinality(UnitsOf(take)) <= Cardinality(take)
<1>1. IsFiniteSet(take)
  BY FS_Subset, AssemblyAssumption
<1> DEFINE f == [n \in take |-> WorkUnitKey(n)]
<1>2. f \in Surjection(take, UnitsOf(take))
  BY DEF Surjection, UnitsOf
<1>3. IsFiniteSet(UnitsOf(take)) /\ Cardinality(UnitsOf(take)) <= Cardinality(take)
  <2> HIDE DEF f
  <2> QED BY <1>1, <1>2, FS_Surjection
<1> QED BY <1>1, <1>3, FS_CardinalityType

\* The claim table, and the room max_in_flight leaves.
TableBounded ==
    /\ IsFiniteSet(DOMAIN claimed)
    /\ MaxInFlight > 0 => Cardinality(DOMAIN claimed) <= MaxInFlight

LEMMA ClaimBounded ==
    ASSUME TypeOK, TableBounded, NEW w \in Worker, NEW filter \in SUBSET Node, NEW k \in Nat,
           ClaimReady(w, filter, k)
    PROVE  TableBounded'
<1> DEFINE cl == Live(claimed)
           size == Cardinality(DOMAIN cl)
<1>1. PICK take \in SUBSET Node :
        /\ Cardinality(take) <= Want(k, cl)
        /\ DOMAIN claimed' = DOMAIN cl \cup UnitsOf(take)
  <2> DEFINE cand == {n \in filter : ReadyIn(n, cl, done \cup Exhausted(claimed))}
  <2>1. PICK take \in SUBSET cand :
          /\ IsFirst(take, cand, Want(k, cl))
          /\ claimed' = [u \in DOMAIN cl \cup UnitsOf(take) |->
                           IF u \in UnitsOf(take)
                           THEN [v \in UnitsOf(take) |-> NewClaim(v.node)][u] ELSE cl[u]]
    BY DEF ClaimReady
  <2>2. Cardinality(take) <= Want(k, cl)
    BY <2>1 DEF IsFirst
  <2> QED BY <2>1, <2>2
<1>2. DOMAIN cl \subseteq DOMAIN claimed
  BY ReapSettles
<1>3. /\ IsFiniteSet(DOMAIN cl) /\ size \in Nat
      /\ MaxInFlight > 0 => size <= MaxInFlight
  BY <1>2, FS_Subset, FS_CardinalityType, LimitsAssumption DEF TableBounded
<1>4. /\ IsFiniteSet(UnitsOf(take)) /\ Cardinality(UnitsOf(take)) \in Nat
      /\ Cardinality(take) \in Nat /\ Cardinality(UnitsOf(take)) <= Cardinality(take)
  BY <1>1, UnitsBounded
<1>5. MaxInFlight > 0 => Want(k, cl) \in Nat /\ Want(k, cl) + size <= MaxInFlight
  BY <1>3, LimitsAssumption DEF Want
<1> HIDE DEF cl
<1>6. /\ IsFiniteSet(DOMAIN claimed')
      /\ Cardinality(DOMAIN claimed') <= size + Cardinality(UnitsOf(take))
      /\ Cardinality(DOMAIN claimed') \in Nat
  <2>1. IsFiniteSet(DOMAIN cl \cup UnitsOf(take))
    BY <1>3, <1>4, FS_Union
  <2>2. Cardinality(DOMAIN cl \cup UnitsOf(take)) =
          size + Cardinality(UnitsOf(take)) - Cardinality(DOMAIN cl \cap UnitsOf(take))
    BY <1>3, <1>4, FS_Union
  <2>3. Cardinality(DOMAIN cl \cap UnitsOf(take)) \in Nat
    <3>1. IsFiniteSet(DOMAIN cl \cap UnitsOf(take))
      BY <1>3, FS_Subset
    <3> QED BY <3>1, FS_CardinalityType
  <2>4. Cardinality(DOMAIN cl \cup UnitsOf(take)) \in Nat
    BY <2>1, FS_CardinalityType
  <2> HIDE DEF size
  <2> QED BY <1>1, <1>3, <1>4, <2>1, <2>2, <2>3, <2>4
<1> HIDE DEF size
<1>7. MaxInFlight > 0 => Cardinality(DOMAIN claimed') <= MaxInFlight
  BY <1>1, <1>3, <1>4, <1>5, <1>6, LimitsAssumption
<1> QED BY <1>6, <1>7 DEF TableBounded

\* A table that only loses slots keeps the bound.
LEMMA ShrinkBounded ==
    ASSUME TableBounded, \A u \in DOMAIN claimed' : SlotKept(u)
    PROVE  TableBounded'
<1>1. DOMAIN claimed' \subseteq DOMAIN claimed
  BY DEF SlotKept
<1>2. /\ IsFiniteSet(DOMAIN claimed')
      /\ Cardinality(DOMAIN claimed') <= Cardinality(DOMAIN claimed)
      /\ Cardinality(DOMAIN claimed') \in Nat /\ Cardinality(DOMAIN claimed) \in Nat
  BY <1>1, FS_Subset, FS_CardinalityType DEF TableBounded
<1> QED BY <1>2, LimitsAssumption DEF TableBounded

\* What LimitsHold rests on: the table is finite, and a run that has not started has spent
\* nothing.
Budgets ==
    /\ TableBounded
    /\ LimitsHold
    /\ state = "NONE" => steps = 0

LEMMA BudgetsStep == TypeOK /\ Budgets /\ StepKind => Budgets'
<1> SUFFICES ASSUME TypeOK, Budgets, StepKind PROVE Budgets'
  OBVIOUS
<1>0. steps \in Nat /\ MaxSteps \in Nat
  BY MaxStepsNat, TypeParts
<1>1. TableBounded'
  BY ClaimBounded, ShrinkBounded DEF StepKind, Releases, Accepts, Budgets
<1> DEFINE Rest == /\ steps = Len(derivations)
                   /\ state = "RUNNING" => steps < MaxSteps
                   /\ state = "FAILED" => steps = MaxSteps
                   /\ state = "NONE" => steps = 0
<1>2. Rest
  BY DEF Budgets, LimitsHold
<1>3. Rest'
  <2>0. MaxSteps' = MaxSteps
    BY DEF MaxSteps
  <2>1. CASE UNCHANGED <<steps, derivations>> /\
             \/ state' = state
             \/ state = "NONE" /\ state' = "RUNNING" /\ MaxSteps > 0
             \/ state' \in {"STALLED", "CANCELLED"}
    BY <1>0, <1>2, <2>0, <2>1
  <2>2. ASSUME NEW w \in Worker, NEW h \in HeldItem(DOMAIN attempts), NEW outs \in Outputs,
               Accepts(w, h, outs)
        PROVE  Rest'
    <3>1. /\ state = "RUNNING" /\ steps' = steps + 1
          /\ derivations' = Append(derivations, Recorded(h, outs))
          /\ \/ state' \in {"COMPLETED", "STALLED"}
             \/ state' = "FAILED" /\ steps' >= MaxSteps
             \/ state' = "RUNNING" /\ ~(steps' >= MaxSteps)
      BY <2>2 DEF Accepts, StateAfterCommit
    <3>2. Len(derivations') = Len(derivations) + 1
      BY <3>1, LogGrows
    <3> QED BY <1>0, <1>2, <2>0, <3>1, <3>2
  <2> HIDE DEF Rest
  <2> QED BY <2>1, <2>2 DEF StepKind, Releases, HandsOut
<1> QED BY <1>1, <1>3 DEF Budgets, LimitsHold, TableBounded

LEMMA InitBudgets == Init => Budgets
<1> SUFFICES ASSUME Init PROVE Budgets
  OBVIOUS
<1>1. DOMAIN claimed = {} /\ derivations = << >> /\ state = "NONE" /\ steps = 0
  BY DEF Init
<1> QED BY <1>1, FS_EmptySet, LimitsAssumption DEF Budgets, TableBounded, LimitsHold

LEMMA EngineLimits == Engine => []LimitsHold
<1>1. Budgets => LimitsHold
  BY DEF Budgets
<1> QED BY <1>1, InitBudgets, BudgetsStep, StepKinds, EngineTyped, PTL DEF Engine

\* The limits hold for every assembly and every interleaving: no more than max_in_flight
\* claims in the table, as many steps as derivations, an open run always below max_steps,
\* and FAILED exactly at max_steps.
THEOREM LimitsKept == Spec => []LimitsHold
BY SpecIsEngine, EngineLimits
-----------------------------------------------------------------------------
(* Stalling. *)

\* A stalled run has nothing in flight and nothing READY: what resolves is DONE, or has a
\* capability more than one manifest provides.  This is StalledMeansExhausted made
\* inductive: the registry may gain manifests after the run has stalled, never lose one.
StalledOrAmbiguous ==
    state = "STALLED" =>
        /\ ~Open
        /\ DOMAIN claimed = {}
        /\ \A n \in Node : Resolves(n) => WorkUnitKey(n) \in done \/ providers[ModuleOf[n]] > 1

\* The registry only grows, and no further than its bound.
LEMMA ProvidersGrow ==
    ASSUME TypeOK, [AnyCall]_vars
    PROVE  /\ \A m \in Module : providers'[m] >= providers[m]
           /\ (\A m \in Module : providers[m] <= MaxProvider) =>
                \A m \in Module : providers'[m] <= MaxProvider
<1>0. providers \in [Module -> Nat \ {0}] /\ MaxProvider \in Nat
  BY TypeParts, LimitsAssumption
<1>1. ASSUME NEW m \in Module, Register(m)
      PROVE  providers[m] < MaxProvider /\ providers' = [providers EXCEPT ![m] = @ + 1]
  BY <1>1 DEF Register
<1>2. providers' = providers \/ \E m \in Module : Register(m)
  <2>1. ASSUME NEW w, NEW filter, NEW k, ClaimReady(w, filter, k) PROVE providers' = providers
    BY <2>1 DEF ClaimReady
  <2>2. ASSUME NEW w, NEW h, NEW terminal, FailWork(w, h, terminal)
        PROVE  providers' = providers
    BY <2>2 DEF FailWork, NotClaimed, FailClaimed
  <2>3. ASSUME NEW w, NEW h, NEW outs, NEW key, Commit(w, h, outs, key)
        PROVE  providers' = providers
    BY <2>3 DEF Commit, NotClaimed, CommitReplay, CommitInvalid, CommitAccept
  <2>4. ASSUME NEW w, NEW e, Heartbeat(w, e) PROVE providers' = providers
    BY <2>4 DEF Heartbeat
  <2> QED BY <2>1, <2>2, <2>3, <2>4
          DEF AnyCall, vars, StartRun, InjectInput, CancelRun, Tick, Crash
<1> QED BY <1>0, <1>1, <1>2

\* What NothingLeft says of every node.
LEMMA NothingLeftFor ==
    ASSUME TypeOK, NothingLeft, NEW n \in Node, Resolves(n)
    PROVE  WorkUnitKey(n) \in done \/ providers[ModuleOf[n]] > 1
<1>1. ~ReadyIn(n, claimed, done) /\ DOMAIN claimed = {}
  BY DEF NothingLeft, AnyReady
<1>2. providers[ModuleOf[n]] \in Nat \ {0}
  BY TypeParts, AssemblyAssumption
<1> QED BY <1>1, <1>2 DEF ReadyIn, CapabilityResolves

LEMMA NothingLeftStalls == TypeOK /\ NothingLeft => StalledOrAmbiguous
BY NothingLeftFor DEF StalledOrAmbiguous, NothingLeft

LEMMA StalledStep == TypeOK /\ TypeOK' /\ StalledOrAmbiguous /\ [AnyCall]_vars => StalledOrAmbiguous'
<1> SUFFICES ASSUME TypeOK, TypeOK', StalledOrAmbiguous, [AnyCall]_vars, state' = "STALLED"
             PROVE  StalledOrAmbiguous'
  BY DEF StalledOrAmbiguous
<1>1. CASE state # "STALLED"
  <2>1. NothingLeft'
    BY <1>1, StepKinds DEF StepKind, Releases, Accepts, HandsOut, StateAfterCommit
  <2>2. (TypeOK /\ NothingLeft => StalledOrAmbiguous)'
    BY NothingLeftStalls, PTL
  <2> QED BY <2>1, <2>2
<1>2. CASE state = "STALLED"
  <2>1. /\ UNCHANGED <<inputs, latest, done, epochs, commits>>
        /\ DOMAIN claimed' = DOMAIN claimed
    BY <1>2, ClosedStep DEF ClosedState
  <2>2. \A n \in Node : /\ Resolves(n)' = Resolves(n)
                        /\ WorkUnitKey(n)' = WorkUnitKey(n)
    BY <2>1 DEF Resolves, BindingResolves, BindingsTo, BindingIndex, WorkUnitKey, EffectiveFiring,
                DeliveryFingerprint, FirstOfPort, Generation, InputKey, KeyBindings,
                ResolveInputs, Delivered
  <2>3. \A n \in Node : providers[ModuleOf[n]] > 1 => providers'[ModuleOf[n]] > 1
    <3>1. /\ providers \in [Module -> Nat \ {0}] /\ providers' \in [Module -> Nat \ {0}]
          /\ ModuleOf \in [Node -> Module]
      BY TypeParts, TypePartsNext, AssemblyAssumption
    <3> QED BY <3>1, ProvidersGrow
  <2> QED BY <1>2, <2>1, <2>2, <2>3 DEF StalledOrAmbiguous
<1> QED BY <1>1, <1>2

LEMMA InitStalled == Init => StalledOrAmbiguous
BY DEF Init, StalledOrAmbiguous

\* STALLED is exhaustion or an ambiguous registry, for good: no unit is in flight, and every
\* node whose inputs resolve has its unit DONE or a capability with several providers.
THEOREM StallExplained == Spec => []StalledOrAmbiguous
<1>1. TypeOK /\ StalledOrAmbiguous /\ [AnyCall]_vars => StalledOrAmbiguous'
  BY StalledStep, NextTyped
<1> QED BY <1>1, InitStalled, SpecIsEngine, EngineTyped, PTL DEF Engine

LEMMA ProvidersBounded == Engine => [](\A m \in Module : providers[m] <= MaxProvider)
<1>1. Init => \A m \in Module : providers[m] <= MaxProvider
  BY LimitsAssumption DEF Init
<1>2. TypeOK /\ (\A m \in Module : providers[m] <= MaxProvider) /\ [AnyCall]_vars
        => (\A m \in Module : providers[m] <= MaxProvider)'
  BY ProvidersGrow
<1> QED BY <1>1, <1>2, EngineTyped, PTL DEF Engine

\* While nobody registers a second manifest for a capability of the run, STALLED means
\* exhausted: no unit in flight, none READY.
THEOREM StallIsExhaustion ==
    ASSUME MaxProvider = 1
    PROVE  Spec => []StalledMeansExhausted
<1>1. StalledOrAmbiguous /\ TypeOK /\ (\A m \in Module : providers[m] <= MaxProvider)
        => StalledMeansExhausted
  <2> SUFFICES ASSUME StalledOrAmbiguous, TypeOK, \A m \in Module : providers[m] <= MaxProvider
               PROVE  StalledMeansExhausted
    OBVIOUS
  <2>1. \A n \in Node : ~(providers[ModuleOf[n]] > 1)
    BY TypeParts, AssemblyAssumption
  <2> QED BY <2>1 DEF StalledOrAmbiguous, StalledMeansExhausted
<1> QED BY <1>1, StallExplained, SpecIsEngine, EngineTyped, ProvidersBounded, PTL
-----------------------------------------------------------------------------
(* Lapsed leases. *)

LEMMA LapsedStep ==
    ASSUME ~RenewFirst, TypeOK, AttemptBudget, [AnyCall]_vars,
           NEW u \in Expired(claimed) \cap DOMAIN claimed', claimed'[u].lease > 0
    PROVE  claimed'[u].attempt > claimed[u].attempt
<1>0. u \in DOMAIN claimed /\ claimed[u].lease = 0 /\ u \notin DOMAIN Live(claimed)
  BY DEF Expired, Live
<1>1. claimed' # claimed
  BY <1>0
<1>2. claimed' # Live(claimed)
  BY <1>0
<1>3. ASSUME NEW S PROVE claimed' # [v \in DOMAIN Live(claimed) \ S |-> Live(claimed)[v]]
  BY <1>0
<1>4. ASSUME NEW w \in Worker, NEW filter \in SUBSET Node, NEW k \in Nat, ClaimReady(w, filter, k)
      PROVE  claimed'[u].attempt > claimed[u].attempt
  <2> DEFINE cand == {n \in filter : ReadyIn(n, Live(claimed), done \cup Exhausted(claimed))}
  <2>1. PICK take \in SUBSET cand :
          claimed' = [v \in DOMAIN Live(claimed) \cup UnitsOf(take) |->
                       IF v \in UnitsOf(take)
                       THEN [x \in UnitsOf(take) |-> NewClaim(x.node)][v]
                       ELSE Live(claimed)[v]]
    BY <1>4 DEF ClaimReady
  <2>2. u \in UnitsOf(take) /\ claimed'[u] = NewClaim(u.node)
    BY <1>0, <2>1
  <2>3. PICK n \in take : u = WorkUnitKey(n)
    BY <2>2 DEF UnitsOf
  <2>4. claimed'[u].attempt = AttemptOf(u) + 1
    BY <2>2, <2>3, UnitNode DEF NewClaim
  <2>5. /\ AttemptOf(u) = claimed[u].attempt
        /\ claimed[u].attempt \in Nat
    <3>1. u \in DOMAIN attempts /\ claimed[u].attempt = attempts[u]
      BY <1>0 DEF AttemptBudget
    <3>2. attempts[u] \in Nat
      BY <3>1, TypeParts
    <3> QED BY <3>1, <3>2 DEF AttemptOf
  <2> QED BY <2>4, <2>5
<1>5. ASSUME NEW w \in Worker, NEW e \in Extension, Heartbeat(w, e) PROVE FALSE
  <2>1. DOMAIN claimed' = DOMAIN Live(claimed)
    BY <1>5 DEF Heartbeat, HeartbeatReapFirst, Renewed
  <2> QED BY <1>0, <2>1
<1>6. CASE Tick
  <2> DEFINE aged(v) == [claimed[v] EXCEPT !.lease = IF @ > 0 THEN @ - 1 ELSE 0]
  <2>1. claimed' = [v \in DOMAIN claimed |-> aged(v)]
    BY <1>6 DEF Tick
  <2>2. claimed[u] \in ClaimRecord
    BY <1>0, TypeParts
  <2>3. aged(u).lease = 0
    BY <1>0, <2>2 DEF ClaimRecord
  <2> HIDE DEF aged
  <2> QED BY <1>0, <2>1, <2>3
<1>7. ASSUME NEW w \in Worker, NEW h, NEW terminal, FailClaimed(w, h, terminal) PROVE FALSE
  BY <1>3, <1>7 DEF FailClaimed
<1>8. ASSUME NEW w \in Worker, NEW h, NEW outs, NEW key, CommitAccept(w, h, outs, key)
      PROVE FALSE
  BY <1>3, <1>8 DEF CommitAccept
<1>9. CASE CancelRun
  BY <1>9 DEF CancelRun
<1> QED BY <1>1, <1>2, <1>4, <1>5, <1>6, <1>7, <1>8, <1>9
        DEF AnyCall, vars, slot, StartRun, Register, InjectInput, FailWork, NotClaimed, Commit,
            CommitReplay, CommitInvalid, Crash

\* Under the renew-first heartbeat (Rust) a worker keeps what it heartbeats for, lapsed or not,
\* as long as no other call has reaped it: the claim of docs/Concurrency.md, which the other
\* order does not keep (run heartbeat_order).
THEOREM HeldRenewed ==
    ASSUME RenewFirst
    PROVE  Spec => HeldIsRenewed
<1>1. ASSUME TypeOK, NEW w \in Worker, NEW e \in Extension, Heartbeat(w, e),
             NEW h \in held[w], h.unit \in DOMAIN claimed, claimed[h.unit].attempt = h.attempt
      PROVE  /\ h.unit \in DOMAIN claimed'
             /\ claimed'[h.unit].attempt = h.attempt /\ claimed'[h.unit].lease > 0
  <2> DEFINE ids == {x.unit : x \in held[w]}
             cl == Renewed(claimed, ids, e)
  <2>1. h.unit \in ids
    BY <1>1
  <2>2. claimed' = Live(cl)
    BY <1>1 DEF Heartbeat, HeartbeatRenewFirst
  <2>3. claimed[h.unit] \in ClaimRecord /\ Extend(e) \in Nat \ {0}
    BY <1>1, TypeParts, LimitsUsable
  <2>4. h.unit \in DOMAIN cl /\ cl[h.unit] = [claimed[h.unit] EXCEPT !.lease = Extend(e)]
    BY <1>1, <2>1 DEF Renewed
  <2>5. cl[h.unit].attempt = h.attempt /\ cl[h.unit].lease = Extend(e)
    BY <1>1, <2>3, <2>4 DEF ClaimRecord
  <2> HIDE DEF cl
  <2>6. h.unit \in DOMAIN Live(cl) /\ Live(cl)[h.unit] = cl[h.unit]
    BY <2>3, <2>4, <2>5 DEF Live, Expired
  <2>7. cl[h.unit].lease > 0
    BY <2>3, <2>5
  <2> QED BY <2>2, <2>5, <2>6, <2>7
<1>2. TypeOK => HeartbeatRenews
  BY <1>1 DEF HeartbeatRenews
<1> QED BY <1>2, SpecIsEngine, EngineTyped, PTL DEF HeldIsRenewed

\* Under the reap-first heartbeat (Go, Python) a lapsed lease is lost: no call of any worker
\* brings the slot back, and the unit is in the table with time left only under a later
\* attempt.
THEOREM LapsedLost ==
    ASSUME ~RenewFirst
    PROVE  Spec => LapsedIsLost
<1>1. TypeOK /\ AttemptBudget /\ [AnyCall]_vars =>
        [\A u \in Expired(claimed) \cap DOMAIN claimed' :
           claimed'[u].lease > 0 => claimed'[u].attempt > claimed[u].attempt]_vars
  BY LapsedStep
<1> QED BY <1>1, SpecIsEngine, EngineTyped, RetryBudget, PTL DEF Engine, LapsedIsLost
-----------------------------------------------------------------------------
(* Released units. *)

\* The only unit of a ONCE node.
OnlyUnit(n) == [firing |-> "ONCE", node |-> n, id |-> << >>]

\* What ReleasedIsReady rests on when every node fires ONCE: outputs are in latest only of
\* nodes that are DONE, so a node in the table keeps the inputs it was resolved with.
InputsStay ==
    /\ \A n \in Node : DOMAIN latest[n] # {} => OnlyUnit(n) \in done
    /\ \A u \in DOMAIN claimed : Resolves(claimed[u].node)

\* DONE is for good.
LEMMA DoneGrows ==
    ASSUME TypeOK, [AnyCall]_vars
    PROVE  /\ done \subseteq done'
           /\ \A w \in Worker, h \in HeldItem(DOMAIN attempts), outs \in Outputs :
                Accepts(w, h, outs) => h.unit \in done'
<1>1. ASSUME NEW w \in Worker, NEW e \in Extension, Heartbeat(w, e)
      PROVE  done \subseteq done' /\ UNCHANGED derivations
  BY <1>1, HeartbeatTable DEF Heartbeat
<1>2. ASSUME NEW w, NEW filter, NEW k, ClaimReady(w, filter, k)
      PROVE  done \subseteq done' /\ UNCHANGED derivations
  BY <1>2 DEF ClaimReady
<1>3. ASSUME NEW w, NEW h, NEW terminal, FailWork(w, h, terminal)
      PROVE  done \subseteq done' /\ UNCHANGED derivations
  BY <1>3 DEF FailWork, NotClaimed, FailClaimed
<1>4. ASSUME NEW w, NEW h, NEW outs, NEW key, Commit(w, h, outs, key)
      PROVE  /\ done \subseteq done'
             /\ \/ UNCHANGED derivations
                \/ \E d : d.unit \in done' /\ derivations' = Append(derivations, d)
  <2>1. CASE CommitAccept(w, h, outs, key)
    <3> DEFINE d == [node |-> Live(claimed)[h.unit].node, unit |-> h.unit,
                     inputs |-> Live(claimed)[h.unit].inputs, outputs |-> outs]
    <3>1. derivations' = Append(derivations, d) /\ done' = done \cup Exhausted(claimed) \cup {h.unit}
      BY <2>1 DEF CommitAccept
    <3>2. d.unit = h.unit
      OBVIOUS
    <3> HIDE DEF d
    <3> QED BY <3>1, <3>2
  <2>2. CASE ~CommitAccept(w, h, outs, key)
    BY <1>4, <2>2 DEF Commit, NotClaimed, CommitReplay, CommitInvalid, slot
  <2> QED BY <2>1, <2>2
<1>5. /\ done \subseteq done'
      /\ \/ UNCHANGED derivations
         \/ \E d : d.unit \in done' /\ derivations' = Append(derivations, d)
  BY <1>1, <1>2, <1>3, <1>4
     DEF AnyCall, vars, slot, StartRun, Register, InjectInput, CancelRun, Tick, Crash
<1>6. ASSUME NEW w \in Worker, NEW h \in HeldItem(DOMAIN attempts), NEW outs \in Outputs,
             Accepts(w, h, outs)
      PROVE  h.unit \in done'
  <2>1. derivations' = Append(derivations, Recorded(h, outs))
    BY <1>6 DEF Accepts
  <2>2. /\ Len(derivations) \in Nat
        /\ Len(derivations') = Len(derivations) + 1
        /\ derivations'[Len(derivations) + 1] = Recorded(h, outs)
    BY <2>1, LogGrows
  <2>3. PICK d : d.unit \in done' /\ derivations' = Append(derivations, d)
    BY <1>5, <2>2
  <2>4. derivations'[Len(derivations) + 1] = d
    BY <2>3, LogGrows
  <2> QED BY <2>2, <2>3, <2>4 DEF Recorded
<1> QED BY <1>5, <1>6

\* Of ONCE nodes, the units in the table and those before a node are known.
LEMMA OnceUnits ==
    ASSUME \A n \in Node : EffectiveFiring(n) = "ONCE", TypeOK, FiringFollows
    PROVE  /\ \A n \in Node : WorkUnitKey(n) = OnlyUnit(n)
           /\ \A u \in DOMAIN claimed : claimed[u].node \in Node /\ u = OnlyUnit(claimed[u].node)
<1>1. \A u \in DOMAIN claimed : claimed[u].node \in Node
  BY TypeParts DEF ClaimRecord
<1>2. \A n \in Node : WorkUnitKey(n) = OnlyUnit(n)
  BY PresentFiring DEF FiringOf, OnlyUnit
<1>3. \A u \in DOMAIN claimed : u = OnlyUnit(claimed[u].node)
  BY <1>1 DEF FiringFollows, FiringOf, OnlyUnit
<1> QED BY <1>1, <1>2, <1>3

\* No commit takes a port away that somebody read.
LEMMA ResolvesStays ==
    ASSUME \A n \in Node : EffectiveFiring(n) = "ONCE", TypeOK, FiringFollows, ClaimedNotDone,
           InputsStay, StepKind, NEW m \in Node, Resolves(m)
    PROVE  Resolves(m)'
<1>1. CASE UNCHANGED latest
  BY <1>1 DEF Resolves, BindingResolves, BindingsTo, BindingIndex
<1>2. ASSUME NEW w \in Worker, NEW h \in HeldItem(DOMAIN attempts), NEW outs \in Outputs,
             Accepts(w, h, outs)
      PROVE  Resolves(m)'
  <2> DEFINE n == claimed[h.unit].node
  <2>1. h.unit \in DOMAIN claimed /\ latest' = [latest EXCEPT ![n] = outs]
    BY <1>2 DEF Accepts
  <2>2. n \in Node /\ h.unit = OnlyUnit(n)
    BY <2>1, OnceUnits
  <2>3. DOMAIN latest[n] = {}
    BY <2>1, <2>2 DEF InputsStay, ClaimedNotDone
  <2>4. latest \in [Node -> Outputs]
    BY TypeParts
  <2> HIDE DEF n
  <2>5. \A x \in Node : DOMAIN latest[x] \subseteq DOMAIN latest'[x]
    BY <2>1, <2>3, <2>4
  <2>6. ASSUME NEW i \in BindingsTo(m) PROVE BindingResolves(i)'
    <3>1. i \in BindingIndex /\ BindingResolves(i)
      BY DEF Resolves, BindingsTo
    <3>2. Binding[i].input # None \/ Binding[i].from \in Node
      BY <3>1, BindingTyped, AssemblyAssumption
    <3> QED BY <2>5, <3>1, <3>2 DEF BindingResolves
  <2> QED BY <2>6 DEF Resolves, BindingsTo, BindingIndex
<1> QED BY <1>1, <1>2 DEF StepKind, Releases, HandsOut

LEMMA InputsStayStep ==
    ASSUME \A n \in Node : EffectiveFiring(n) = "ONCE", TypeOK, FiringFollows, ClaimedNotDone,
           InputsStay, [AnyCall]_vars
    PROVE  InputsStay'
<1>0. StepKind /\ done \subseteq done'
  BY StepKinds, DoneGrows
<1>a. latest \in [Node -> Outputs]
  BY TypeParts
<1>1. ASSUME NEW m \in Node, DOMAIN latest'[m] # {} PROVE OnlyUnit(m) \in done'
  <2>1. CASE latest'[m] = latest[m]
    BY <1>0, <1>1, <2>1 DEF InputsStay
  <2>2. ASSUME NEW w \in Worker, NEW h \in HeldItem(DOMAIN attempts), NEW outs \in Outputs,
               Accepts(w, h, outs), latest'[m] # latest[m]
        PROVE  OnlyUnit(m) \in done'
    <3> DEFINE n == claimed[h.unit].node
    <3>1. h.unit \in DOMAIN claimed /\ latest' = [latest EXCEPT ![n] = outs]
      BY <2>2 DEF Accepts
    <3>2. h.unit = OnlyUnit(n)
      BY <3>1, OnceUnits
    <3>3. m = n
      BY <1>a, <2>2, <3>1
    <3> QED BY <2>2, <3>2, <3>3, DoneGrows
  <2> QED BY <1>0, <2>1, <2>2 DEF StepKind, Releases, HandsOut
<1>2. ASSUME NEW u \in DOMAIN claimed' PROVE Resolves(claimed[u].node)'
  <2>1. CASE SlotKept(u)
    <3>1. u \in DOMAIN claimed /\ claimed'[u].node = claimed[u].node
      BY <2>1 DEF SlotKept
    <3>2. claimed[u].node \in Node /\ Resolves(claimed[u].node)
      BY <3>1, OnceUnits DEF InputsStay
    <3>3. PICK n \in Node : n = claimed[u].node
      BY <3>2
    <3>4. Resolves(n)'
      BY <1>0, <3>2, <3>3, ResolvesStays
    <3> QED BY <3>1, <3>3, <3>4 DEF Resolves, BindingResolves, BindingsTo, BindingIndex
  <2>2. ASSUME NEW w \in Worker, NEW take \in SUBSET Node, HandsOut(w, take), u \in UnitsOf(take)
        PROVE  Resolves(claimed[u].node)'
    <3>1. PICK n \in take : u = WorkUnitKey(n)
      BY <2>2 DEF UnitsOf
    <3>2. claimed'[u] = NewClaim(n) /\ Resolves(n)
      BY <2>2, <3>1, UnitNode DEF HandsOut
    <3>3. claimed'[u].node = n
      BY <3>2 DEF NewClaim
    <3>4. Resolves(n)'
      BY <1>0, <3>2, ResolvesStays
    <3> QED BY <3>3, <3>4 DEF Resolves, BindingResolves, BindingsTo, BindingIndex
  <2> QED BY <1>0, <2>1, <2>2 DEF StepKind, Releases, Accepts, HandsOut
<1> QED BY <1>1, <1>2 DEF InputsStay, OnlyUnit

LEMMA InitInputsStay == Init => InputsStay
BY DEF Init, InputsStay, NoOutputs

LEMMA EngineFiringFollows == Engine => []FiringFollows
BY InitFiring, FiringStep, StepKinds, EngineTyped, PTL DEF Engine

LEMMA EngineInputsStay ==
    ASSUME \A n \in Node : EffectiveFiring(n) = "ONCE"
    PROVE  Engine => []InputsStay
<1>1. TypeOK /\ FiringFollows /\ ClaimedNotDone /\ InputsStay /\ [AnyCall]_vars => InputsStay'
  BY InputsStayStep
<1> QED BY <1>1, InitInputsStay, EngineTyped, EngineFiringFollows, EngineDiscipline, PTL DEF Engine

\* When every node fires ONCE (the default) and the registry is stable, a unit that leaves
\* the table without being DONE, because its lease lapsed or its worker failed it, is READY
\* again at once: no claim, commit or injection in between took its inputs away.
THEOREM ReleasedReady ==
    ASSUME \A n \in Node : EffectiveFiring(n) = "ONCE", MaxProvider = 1
    PROVE  Spec => ReleasedIsReady
<1> DEFINE Good == /\ TypeOK /\ FiringFollows /\ ClaimedNotDone /\ InputsStay
                   /\ \A m \in Module : providers[m] <= MaxProvider
<1>1. Good /\ Good' /\ [AnyCall]_vars =>
        [\A u \in DOMAIN claimed \ DOMAIN claimed' :
          (state' = "RUNNING" /\ u \notin done') =>
             /\ ReadyIn(u.node, claimed, done)'
             /\ WorkUnitKey(u.node)' = u]_vars
  <2> SUFFICES ASSUME Good, Good', [AnyCall]_vars, NEW u \in DOMAIN claimed \ DOMAIN claimed',
                      u \notin done'
               PROVE  ReadyIn(u.node, claimed, done)' /\ WorkUnitKey(u.node)' = u
    OBVIOUS
  <2>1. PICK n \in Node : n = claimed[u].node /\ u = OnlyUnit(n)
    BY OnceUnits
  <2>2. u.node = n /\ Resolves(n)
    BY <2>1 DEF OnlyUnit, InputsStay
  <2>3. Resolves(n)'
    BY <2>2, StepKinds, ResolvesStays
  <2>4. CapabilityResolves(n)'
    <3>1. providers' \in [Module -> Nat \ {0}] /\ ModuleOf[n] \in Module
      BY TypePartsNext, AssemblyAssumption
    <3> QED BY <3>1 DEF CapabilityResolves
  <2>5. WorkUnitKey(n)' = u
    <3>1. EffectiveFiring(n) = "ONCE"
      OBVIOUS
    <3> QED BY <2>1, <3>1 DEF WorkUnitKey, OnlyUnit, EffectiveFiring
  <2> QED BY <2>2, <2>3, <2>4, <2>5 DEF ReadyIn
<1>2. Spec => []Good
  BY SpecIsEngine, EngineTyped, EngineFiringFollows, EngineDiscipline, EngineInputsStay,
     ProvidersBounded, PTL
<1> QED BY <1>1, <1>2, SpecIsEngine, PTL DEF Engine, ReleasedIsReady
-----------------------------------------------------------------------------
(* No busy loop. *)

\* The units of node n that were ever handed out.
Fired(n) == {u \in DOMAIN attempts : u.node = n}

\* The units of node n that were committed.
Logged(n) == {derivations[j].unit : j \in {k \in DOMAIN derivations : derivations[k].node = n}}

\* Every source of node n has delivered.
Started(n) == \A i \in BindingsTo(n) : Generation(i) >= FirstGeneration(i)

\* What NoBusyLoop rests on.  A node that was handed out has been delivered to by all its
\* sources; each unit handed out, but the one now before the node, was overtaken by a
\* generation of some source; a commit is of a unit of its own that was handed out.
HandedOutOnce(n) ==
    /\ IsFiniteSet(Fired(n))
    /\ Fired(n) # {} => Started(n)
    /\ Cardinality(Fired(n)) <=
         Cardinality(Redelivered(n)) + (IF WorkUnitKey(n) \in Fired(n) THEN 1 ELSE 0)
CommitsCounted(n) ==
    /\ DOMAIN latest[n] # {} => commits[n] >= 1
    /\ Logged(n) \subseteq Fired(n)
    /\ commits[n] <= Cardinality(Logged(n))
NoLoop == \A n \in Node : HandedOutOnce(n) /\ CommitsCounted(n)

\* Node n is delivered to as before: the same artifacts of the same generations.
SameDelivery(n) ==
    \A i \in BindingsTo(n) : Generation(i)' = Generation(i) /\ Delivered(i)' = Delivered(i)

\* Some source of node n delivers again, and none takes a delivery back.
NewDelivery(n) ==
    /\ \A i \in BindingsTo(n) : Generation(i)' >= Generation(i)
    /\ \E i \in BindingsTo(n) : Generation(i)' > Generation(i)

LEMMA BindingsFinite == ASSUME NEW n \in Node PROVE IsFiniteSet(BindingsTo(n))
<1>1. Len(Binding) \in Nat /\ BindingIndex = 1..Len(Binding)
  <2> DEFINE R == [to : Node, port : Port, from : Node \cup {None},
                   fromPort : OutName \cup {None}, input : Input \cup {None}]
  <2>1. Binding \in Seq(R)
    BY AssemblyAssumption
  <2> HIDE DEF R
  <2> QED BY <2>1 DEF BindingIndex
<1>2. IsFiniteSet(BindingIndex)
  BY <1>1, FS_Interval
<1>3. BindingsTo(n) \in SUBSET BindingIndex
  BY DEF BindingsTo
<1> QED BY <1>2, <1>3, FS_Subset

LEMMA GenerationNat ==
    ASSUME TypeOK, NEW n \in Node, NEW i \in BindingsTo(n)
    PROVE  Generation(i) \in Nat /\ FirstGeneration(i) \in Nat
<1>1. i \in BindingIndex
  BY DEF BindingsTo
<1>2. epochs \in [Input -> Nat] /\ commits \in [Node -> Nat]
  BY TypeParts
<1>3. Binding[i].input \in Input \/ (Binding[i].input = None /\ Binding[i].from \in Node)
  BY <1>1, BindingTyped, AssemblyAssumption
<1>4. None \notin Input
  BY AssemblyAssumption
<1> QED BY <1>2, <1>3, <1>4 DEF Generation, FirstGeneration

LEMMA GenerationNatNext ==
    ASSUME TypeOK', NEW n \in Node, NEW i \in BindingsTo(n)
    PROVE  Generation(i)' \in Nat
<1>1. i \in BindingIndex
  BY DEF BindingsTo
<1>2. epochs' \in [Input -> Nat] /\ commits' \in [Node -> Nat]
  BY TypePartsNext
<1>3. Binding[i].input \in Input \/ (Binding[i].input = None /\ Binding[i].from \in Node)
  BY <1>1, BindingTyped, AssemblyAssumption
<1>4. None \notin Input
  BY AssemblyAssumption
<1> QED BY <1>2, <1>3, <1>4 DEF Generation

\* Only finitely many redeliveries, whatever the generations g are.
LEMMA ProductsFinite ==
    ASSUME NEW n \in Node, NEW g, \A i \in BindingsTo(n) : g[i] \in Nat
    PROVE  IsFiniteSet(UNION {{i} \X ((FirstGeneration(i) + 1)..g[i]) : i \in BindingsTo(n)})
<1> DEFINE G(i) == {i} \X ((FirstGeneration(i) + 1)..g[i])
           f == [i \in BindingsTo(n) |-> G(i)]
           T == {G(i) : i \in BindingsTo(n)}
<1>1. f \in Surjection(BindingsTo(n), T)
  <2>1. f \in [BindingsTo(n) -> T]
    OBVIOUS
  <2>2. \A t \in T : \E i \in BindingsTo(n) : f[i] = t
    OBVIOUS
  <2> HIDE DEF f, T, G
  <2> QED BY <2>1, <2>2 DEF Surjection
<1>2. IsFiniteSet(T)
  BY <1>1, BindingsFinite, FS_Surjection
<1>3. ASSUME NEW i \in BindingsTo(n) PROVE IsFiniteSet(G(i))
  <2>1. FirstGeneration(i) + 1 \in Int /\ g[i] \in Int
    BY DEF FirstGeneration
  <2>2. IsFiniteSet((FirstGeneration(i) + 1)..g[i])
    BY <2>1, FS_Interval
  <2> QED BY <2>2, FS_Singleton, FS_Product
<1>4. \A t \in T : IsFiniteSet(t)
  BY <1>3
<1> HIDE DEF T
<1>5. IsFiniteSet(UNION T)
  BY <1>2, <1>4, FS_UNION
<1> QED BY <1>5 DEF T

LEMMA RedeliveredFinite ==
    ASSUME NEW n \in Node
    PROVE  /\ (\A i \in BindingsTo(n) : Generation(i) \in Nat) => IsFiniteSet(Redelivered(n))
           /\ (\A i \in BindingsTo(n) : Generation(i)' \in Nat) => IsFiniteSet(Redelivered(n)')
<1>1. ASSUME \A i \in BindingsTo(n) : Generation(i) \in Nat PROVE IsFiniteSet(Redelivered(n))
  <2> DEFINE g == [i \in BindingsTo(n) |-> Generation(i)]
  <2>1. \A i \in BindingsTo(n) : g[i] \in Nat
    BY <1>1
  <2>2. Redelivered(n) = UNION {{i} \X ((FirstGeneration(i) + 1)..g[i]) : i \in BindingsTo(n)}
    BY DEF Redelivered
  <2> HIDE DEF g
  <2> QED BY <2>1, <2>2, ProductsFinite
<1>2. ASSUME \A i \in BindingsTo(n) : Generation(i)' \in Nat PROVE IsFiniteSet(Redelivered(n)')
  <2> DEFINE g == [i \in BindingsTo(n) |-> Generation(i)']
  <2>1. \A i \in BindingsTo(n) : g[i] \in Nat
    BY <1>2
  <2>2. Redelivered(n)' = UNION {{i} \X ((FirstGeneration(i) + 1)..g[i]) : i \in BindingsTo(n)}
    BY DEF Redelivered, FirstGeneration, BindingsTo, BindingIndex
  <2> HIDE DEF g
  <2> QED BY <2>1, <2>2, ProductsFinite
<1> QED BY <1>1, <1>2

\* What a unit before a node is made of.
LEMMA SameUnit ==
    ASSUME NEW n \in Node, SameDelivery(n)
    PROVE  /\ WorkUnitKey(n)' = WorkUnitKey(n)
           /\ Redelivered(n)' = Redelivered(n)
           /\ Started(n) => Started(n)'
<1>0. BindingsTo(n)' = BindingsTo(n) /\ EffectiveFiring(n)' = EffectiveFiring(n)
  BY DEF BindingsTo, BindingIndex, EffectiveFiring
<1>1. ResolveInputs(n)' = ResolveInputs(n)
  BY <1>0 DEF ResolveInputs, SameDelivery
<1>2. \A i : FirstGeneration(i)' = FirstGeneration(i) /\ FirstOfPort(n, i)' = FirstOfPort(n, i)
  BY DEF FirstGeneration, FirstOfPort, BindingsTo, BindingIndex
<1>3. DeliveryFingerprint(n, ResolveInputs(n))' = DeliveryFingerprint(n, ResolveInputs(n))
  BY <1>0, <1>1, <1>2 DEF DeliveryFingerprint, SameDelivery
<1>4. InputKey(n, ResolveInputs(n))' = InputKey(n, ResolveInputs(n))
  BY <1>1 DEF InputKey, KeyBindings, BindingsTo, BindingIndex
<1>5. WorkUnitKey(n)' = WorkUnitKey(n)
  BY <1>0, <1>3, <1>4 DEF WorkUnitKey
<1>6. Redelivered(n)' = Redelivered(n)
  BY <1>0, <1>2 DEF Redelivered, SameDelivery
<1> QED BY <1>0, <1>2, <1>5, <1>6 DEF Started, SameDelivery

\* What a step does to the sources of a delivery: nothing, an injection, or a commit.
SourcesKept == UNCHANGED <<inputs, epochs, latest, commits, derivations>>
Injects ==
    /\ UNCHANGED <<latest, commits, attempts, derivations>>
    /\ \E i \in Input, a \in Artifact :
         inputs' = [inputs EXCEPT ![i] = a] /\ epochs' = [epochs EXCEPT ![i] = @ + 1]
Records(w, h, outs) ==
    /\ Accepts(w, h, outs)
    /\ UNCHANGED <<inputs, epochs>>
    /\ commits' = [commits EXCEPT ![claimed[h.unit].node] = @ + 1]
SourceKind ==
    \/ SourcesKept /\ UNCHANGED attempts
    \/ SourcesKept /\ \E w \in Worker, take \in SUBSET Node : HandsOut(w, take)
    \/ Injects
    \/ \E w \in Worker, h \in HeldItem(DOMAIN attempts), outs \in Outputs : Records(w, h, outs)

LEMMA SourcesStep ==
    ASSUME TypeOK, [AnyCall]_vars
    PROVE  SourceKind
<1>0. held \in [Worker -> SUBSET HeldItem(DOMAIN attempts)]
  BY TypeParts
<1>1. ASSUME NEW i \in Input, NEW a \in Artifact, InjectInput(i, a) PROVE SourceKind
  BY <1>1 DEF InjectInput, Injects, SourceKind
<1>2. ASSUME NEW w \in Worker, NEW filter \in SUBSET Node, NEW k \in Nat,
             ClaimReady(w, filter, k) PROVE SourceKind
  <2>1. SourcesKept
    BY <1>2 DEF ClaimReady, SourcesKept
  <2> QED BY <1>2, <2>1, ClaimKind DEF SourceKind
<1>3. ASSUME NEW w \in Worker, NEW h \in held[w], NEW terminal \in BOOLEAN,
             FailWork(w, h, terminal) PROVE SourceKind
  BY <1>3 DEF FailWork, NotClaimed, FailClaimed, SourcesKept, SourceKind
<1>4. ASSUME NEW w \in Worker, NEW h \in held[w], NEW outs \in Outputs, NEW key \in RequestKey \cup {None},
             Commit(w, h, outs, key) PROVE SourceKind
  <2>1. CASE ~Replied(w, key) /\ state = "RUNNING" /\ CommitAccept(w, h, outs, key)
    <3>1. h \in HeldItem(DOMAIN attempts) /\ Accepts(w, h, outs)
      BY <1>0, <2>1, CommitKind
    <3>2. h.unit \in DOMAIN Live(claimed) /\ Live(claimed)[h.unit] = claimed[h.unit]
      BY <2>1, ReapSettles DEF CommitAccept
    <3>3. /\ UNCHANGED <<inputs, epochs>>
          /\ commits' = [commits EXCEPT ![claimed[h.unit].node] = @ + 1]
      BY <2>1, <3>2 DEF CommitAccept
    <3> QED BY <3>1, <3>3 DEF Records, SourceKind
  <2>2. CASE ~(~Replied(w, key) /\ state = "RUNNING" /\ CommitAccept(w, h, outs, key))
    BY <1>4, <2>2 DEF Commit, NotClaimed, CommitReplay, CommitInvalid, slot, SourcesKept,
          SourceKind
  <2> QED BY <2>1, <2>2
<1>5. ASSUME NEW w \in Worker, NEW e \in Extension, Heartbeat(w, e) PROVE SourceKind
  BY <1>5 DEF Heartbeat, SourcesKept, SourceKind
<1>6. CASE \/ StartRun \/ CancelRun \/ Tick \/ UNCHANGED vars
           \/ (\E m \in Module : Register(m))
           \/ (\E w \in Worker : Crash(w))
  BY <1>6 DEF StartRun, CancelRun, Tick, Register, Crash, vars, slot, SourcesKept,
              SourceKind
<1> QED BY <1>1, <1>2, <1>3, <1>4, <1>5, <1>6 DEF AnyCall

\* A node is delivered to as before, or some source of it moved on to a new generation.
LEMMA Deliveries ==
    ASSUME TypeOK, [AnyCall]_vars, NEW n \in Node
    PROVE  SameDelivery(n) \/ (NewDelivery(n) /\ UNCHANGED attempts)
<1>0. /\ epochs \in [Input -> Nat] /\ commits \in [Node -> Nat]
      /\ inputs \in [Input -> Artifact] /\ latest \in [Node -> Outputs]
      /\ claimed \in [DOMAIN claimed -> ClaimRecord]
  BY TypeParts
<1>1. \A i \in BindingsTo(n) : \/ Binding[i].input \in Input /\ Binding[i].input # None
                               \/ Binding[i].input = None /\ Binding[i].from \in Node
  <2> SUFFICES ASSUME NEW i \in BindingsTo(n)
               PROVE  \/ Binding[i].input \in Input /\ Binding[i].input # None
                      \/ Binding[i].input = None /\ Binding[i].from \in Node
    OBVIOUS
  <2>1. i \in BindingIndex
    BY DEF BindingsTo
  <2> QED BY <2>1, BindingTyped, AssemblyAssumption
<1>2. CASE SourcesKept
  BY <1>2 DEF SourcesKept, SameDelivery, Generation, Delivered
<1>3. ASSUME NEW j \in Input, NEW a \in Artifact, UNCHANGED <<latest, commits, attempts>>,
             inputs' = [inputs EXCEPT ![j] = a], epochs' = [epochs EXCEPT ![j] = @ + 1]
      PROVE  SameDelivery(n) \/ (NewDelivery(n) /\ UNCHANGED attempts)
  <2>1. CASE \A i \in BindingsTo(n) : Binding[i].input # j
    BY <1>0, <1>1, <1>3, <2>1 DEF SameDelivery, Generation, Delivered
  <2>2. CASE \E i \in BindingsTo(n) : Binding[i].input = j
    <3>1. j # None
      BY AssemblyAssumption
    <3>2. \A i \in BindingsTo(n) : Generation(i)' >= Generation(i)
      BY <1>0, <1>1, <1>3 DEF Generation
    <3>3. \A i \in BindingsTo(n) : Binding[i].input = j => Generation(i)' > Generation(i)
      BY <1>0, <1>3, <3>1 DEF Generation
    <3> QED BY <1>3, <2>2, <3>2, <3>3 DEF NewDelivery
  <2> QED BY <2>1, <2>2
<1>4. ASSUME NEW w \in Worker, NEW h \in HeldItem(DOMAIN attempts), NEW outs \in Outputs,
             Records(w, h, outs)
      PROVE  SameDelivery(n) \/ (NewDelivery(n) /\ UNCHANGED attempts)
  <2> DEFINE m == claimed[h.unit].node
  <2>1. /\ h.unit \in DOMAIN claimed /\ latest' = [latest EXCEPT ![m] = outs]
        /\ commits' = [commits EXCEPT ![m] = @ + 1]
        /\ UNCHANGED <<inputs, epochs, attempts>>
    BY <1>4 DEF Records, Accepts
  <2>2. m \in Node
    BY <1>0, <2>1 DEF ClaimRecord
  <2> HIDE DEF m
  <2>3. CASE \A i \in BindingsTo(n) : Binding[i].input # None \/ Binding[i].from # m
    BY <1>0, <1>1, <2>1, <2>3 DEF SameDelivery, Generation, Delivered
  <2>4. CASE \E i \in BindingsTo(n) : Binding[i].input = None /\ Binding[i].from = m
    <3>1. \A i \in BindingsTo(n) : Generation(i)' >= Generation(i)
      BY <1>0, <1>1, <2>1, <2>2 DEF Generation
    <3>2. \A i \in BindingsTo(n) :
            Binding[i].input = None /\ Binding[i].from = m => Generation(i)' > Generation(i)
      BY <1>0, <2>1, <2>2 DEF Generation
    <3> QED BY <2>1, <2>4, <3>1, <3>2 DEF NewDelivery
  <2> QED BY <2>3, <2>4
<1> QED BY <1>2, <1>3, <1>4, SourcesStep DEF SourceKind, Injects

\* A delivery to every source of a started node is one more redelivery.
LEMMA RedeliveryCounted ==
    ASSUME TypeOK, TypeOK', NEW n \in Node, NewDelivery(n), Started(n)
    PROVE  /\ Started(n)'
           /\ Cardinality(Redelivered(n)) + 1 <= Cardinality(Redelivered(n)')
<1> DEFINE R == Redelivered(n)
           S == Redelivered(n)'
<1>0. BindingsTo(n)' = BindingsTo(n) /\ \A i : FirstGeneration(i)' = FirstGeneration(i)
  BY DEF BindingsTo, BindingIndex, FirstGeneration
<1>1. ASSUME NEW i \in BindingsTo(n)
      PROVE  Generation(i) \in Nat /\ Generation(i)' \in Nat /\ FirstGeneration(i) \in Nat
  BY GenerationNat, GenerationNatNext
<1>2. IsFiniteSet(R)
  BY <1>1, RedeliveredFinite
<1>3. IsFiniteSet(S)
  BY <1>1, RedeliveredFinite
<1>4. Started(n)'
  BY <1>0, <1>1 DEF Started, NewDelivery
<1>5. PICK i \in BindingsTo(n) : Generation(i)' > Generation(i)
  BY DEF NewDelivery
<1> DEFINE x == <<i, Generation(i)'>>
<1>6. x \notin R
  <2> SUFFICES ASSUME x \in R PROVE FALSE
    OBVIOUS
  <2>1. PICK j \in BindingsTo(n) : x \in {j} \X ((FirstGeneration(j) + 1)..Generation(j))
    BY DEF Redelivered
  <2>2. j = i /\ Generation(i)' \in (FirstGeneration(i) + 1)..Generation(i)
    BY <2>1
  <2> QED BY <1>1, <1>5, <2>2
<1>7. R \cup {x} \in SUBSET S
  <2>1. ASSUME NEW y \in R PROVE y \in S
    <3>1. PICK j \in BindingsTo(n) : y \in {j} \X ((FirstGeneration(j) + 1)..Generation(j))
      BY DEF Redelivered
    <3>2. Generation(j)' >= Generation(j)
      BY DEF NewDelivery
    <3>3. y \in {j} \X ((FirstGeneration(j) + 1)..Generation(j)')
      BY <1>1, <3>1, <3>2
    <3> QED BY <1>0, <3>3 DEF Redelivered
  <2>2. x \in S
    <3>1. Generation(i)' \in (FirstGeneration(i) + 1)..Generation(i)'
      BY <1>1, <1>5 DEF Started
    <3>2. x \in {i} \X ((FirstGeneration(i) + 1)..Generation(i)')
      BY <3>1
    <3> QED BY <1>0, <3>2 DEF Redelivered
  <2> QED BY <2>1, <2>2
<1> HIDE DEF R, S, x
<1>8. Cardinality(R \cup {x}) = Cardinality(R) + 1
  BY <1>2, <1>6, FS_AddElement
<1>9. Cardinality(R \cup {x}) <= Cardinality(S)
  BY <1>3, <1>7, FS_Subset
<1> QED BY <1>4, <1>8, <1>9 DEF R, S

\* A node whose inputs resolve has been delivered to by every source.
LEMMA ResolvedStarted ==
    ASSUME TypeOK, NoLoop, NEW n \in Node, Resolves(n)
    PROVE  Started(n)
<1> SUFFICES ASSUME NEW i \in BindingsTo(n) PROVE Generation(i) >= FirstGeneration(i)
  BY DEF Started
<1>1. Generation(i) \in Nat
  BY GenerationNat
<1>2. i \in BindingIndex /\ BindingResolves(i)
  BY DEF Resolves, BindingsTo
<1>3. CASE Binding[i].input # None
  BY <1>1, <1>3 DEF FirstGeneration
<1>4. CASE Binding[i].input = None
  <2>1. Binding[i].from \in Node
    BY <1>2, <1>4, BindingTyped, AssemblyAssumption
  <2>2. DOMAIN latest[Binding[i].from] # {}
    BY <1>2, <1>4 DEF BindingResolves
  <2> QED BY <1>4, <2>1, <2>2 DEF NoLoop, CommitsCounted, FirstGeneration, Generation
<1> QED BY <1>3, <1>4

LEMMA HandedOutStep ==
    ASSUME TypeOK, TypeOK', NoLoop, [AnyCall]_vars, NEW n \in Node
    PROVE  HandedOutOnce(n)'
<1> DEFINE F == Fired(n)
           u == WorkUnitKey(n)
<1>0. /\ IsFiniteSet(F) /\ (F # {} => Started(n))
      /\ Cardinality(F) <= Cardinality(Redelivered(n)) + (IF u \in F THEN 1 ELSE 0)
  BY DEF NoLoop, HandedOutOnce
<1>a. Cardinality(F) \in Nat
  BY <1>0, FS_CardinalityType
<1>b. IsFiniteSet(Redelivered(n)) /\ Cardinality(Redelivered(n)) \in Nat
  BY GenerationNat, RedeliveredFinite, FS_CardinalityType
<1>1. CASE SameDelivery(n)
  <2>1. /\ WorkUnitKey(n)' = u /\ Redelivered(n)' = Redelivered(n)
        /\ Started(n) => Started(n)'
    BY <1>1, SameUnit
  <2>2. CASE UNCHANGED attempts
    <3>1. Fired(n)' = F
      BY <2>2 DEF Fired
    <3> HIDE DEF F, u
    <3> QED BY <1>0, <2>1, <3>1 DEF HandedOutOnce
  <2>3. ASSUME NEW w \in Worker, NEW take \in SUBSET Node, HandsOut(w, take)
        PROVE  HandedOutOnce(n)'
    <3>1. DOMAIN attempts' = DOMAIN attempts \cup UnitsOf(take) /\ \A m \in take : Resolves(m)
      BY <2>3 DEF HandsOut
    <3>2. CASE n \in take
      <4>1. Fired(n)' = F \cup {u}
        <5>1. \A v \in UnitsOf(take) : v.node = n => v = u
          BY UnitNode DEF UnitsOf
        <5>2. u \in UnitsOf(take) /\ u.node = n
          BY <3>2, UnitNode DEF UnitsOf
        <5> HIDE DEF u
        <5> QED BY <3>1, <5>1, <5>2 DEF Fired
      <4>2. Started(n)'
        BY <2>1, <3>1, <3>2, ResolvedStarted
      <4> HIDE DEF F, u
      <4>3. /\ IsFiniteSet(F \cup {u})
            /\ Cardinality(F \cup {u}) = IF u \in F THEN Cardinality(F) ELSE Cardinality(F) + 1
        BY <1>0, FS_AddElement
      <4>4. Cardinality(F \cup {u}) <= Cardinality(Redelivered(n)) + 1
        BY <1>0, <1>a, <1>b, <4>3
      <4>5. u \in F \cup {u}
        OBVIOUS
      <4> QED BY <2>1, <4>1, <4>2, <4>3, <4>4, <4>5 DEF HandedOutOnce
    <3>3. CASE n \notin take
      <4>1. \A v \in UnitsOf(take) : v.node # n
        BY <3>3, UnitNode DEF UnitsOf
      <4>2. Fired(n)' = F
        BY <3>1, <4>1 DEF Fired
      <4> HIDE DEF F, u
      <4> QED BY <1>0, <2>1, <4>2 DEF HandedOutOnce
    <3> QED BY <3>2, <3>3
  <2>4. UNCHANGED attempts \/ \E w \in Worker, take \in SUBSET Node : HandsOut(w, take)
    BY SourcesStep DEF SourceKind, Injects, Records, Accepts
  <2> QED BY <2>2, <2>3, <2>4
<1>2. CASE NewDelivery(n) /\ UNCHANGED attempts
  <2>1. Fired(n)' = F
    BY <1>2 DEF Fired
  <2>2. IsFiniteSet(Redelivered(n)') /\ Cardinality(Redelivered(n)') \in Nat
    <3>1. ASSUME NEW i \in BindingsTo(n) PROVE Generation(i)' \in Nat
      BY GenerationNatNext
    <3> QED BY <3>1, RedeliveredFinite, FS_CardinalityType
  <2> HIDE DEF F, u
  <2>3. CASE F = {}
    <3>1. Cardinality(F) = 0
      BY <2>3, FS_EmptySet
    <3> QED BY <1>0, <2>1, <2>2, <2>3, <3>1 DEF HandedOutOnce
  <2>4. CASE F # {}
    <3>1. Started(n)' /\ Cardinality(Redelivered(n)) + 1 <= Cardinality(Redelivered(n)')
      BY <1>0, <1>2, <2>4, RedeliveryCounted
    <3>2. Cardinality(F) <= Cardinality(Redelivered(n)')
      BY <1>0, <1>a, <1>b, <2>2, <3>1
    <3> QED BY <1>0, <1>a, <2>1, <2>2, <3>1, <3>2 DEF HandedOutOnce
  <2> QED BY <2>3, <2>4
<1> QED BY <1>1, <1>2, Deliveries

\* What is recorded is DONE.
LEMMA LoggedDone == ASSUME TypeOK PROVE \A j \in DOMAIN derivations : derivations[j].unit \in done
<1> DEFINE D == Derivation(done)
<1>1. derivations \in Seq(D)
  BY TypeParts
<1>2. \A d \in D : d.unit \in done
  BY DEF Derivation
<1> HIDE DEF D
<1>3. \A j \in DOMAIN derivations : derivations[j] \in D
  BY <1>1
<1> QED BY <1>2, <1>3

LEMMA CountedStep ==
    ASSUME TypeOK, NoLoop, FiringFollows, ClaimedNotDone, AttemptBudget, [AnyCall]_vars,
           NEW n \in Node
    PROVE  CommitsCounted(n)'
<1>0. /\ DOMAIN latest[n] # {} => commits[n] >= 1
      /\ Logged(n) \subseteq Fired(n) /\ commits[n] <= Cardinality(Logged(n))
      /\ IsFiniteSet(Fired(n))
  BY DEF NoLoop, CommitsCounted, HandedOutOnce
<1>a. /\ commits \in [Node -> Nat] /\ latest \in [Node -> Outputs]
      /\ claimed \in [DOMAIN claimed -> ClaimRecord]
  BY TypeParts
<1>1. Fired(n) \subseteq Fired(n)'
  <2>1. DOMAIN attempts \subseteq DOMAIN attempts'
    BY SourcesStep DEF SourceKind, HandsOut, Injects, Records, Accepts
  <2> QED BY <2>1 DEF Fired
<1>2. CASE UNCHANGED <<latest, commits, derivations>>
  <2>1. Logged(n)' = Logged(n)
    BY <1>2 DEF Logged
  <2> QED BY <1>0, <1>1, <1>2, <2>1 DEF CommitsCounted
<1>3. ASSUME NEW w \in Worker, NEW h \in HeldItem(DOMAIN attempts), NEW outs \in Outputs,
             Records(w, h, outs)
      PROVE  CommitsCounted(n)'
  <2> DEFINE u == h.unit
             m == claimed[u].node
             d == Recorded(h, outs)
             len == Len(derivations)
  <2>1. /\ u \in DOMAIN claimed /\ latest' = [latest EXCEPT ![m] = outs]
        /\ commits' = [commits EXCEPT ![m] = @ + 1]
        /\ derivations' = Append(derivations, d)
    BY <1>3 DEF Records, Accepts
  <2>2. m \in Node /\ d.node = m /\ d.unit = u /\ u.node = m /\ u \in DOMAIN attempts
    BY <1>a, <2>1 DEF ClaimRecord, Recorded, FiringFollows, FiringOf, AttemptBudget
  <2>3. /\ len \in Nat /\ DOMAIN derivations = 1..len /\ DOMAIN derivations' = 1..(len + 1)
        /\ \A k \in DOMAIN derivations : derivations'[k] = derivations[k]
        /\ derivations'[len + 1] = d
    BY <2>1, LogGrows
  <2>4. \A j \in DOMAIN derivations : derivations[j].unit # u
    BY <2>1, LoggedDone DEF ClaimedNotDone
  <2> HIDE DEF u, m, d, len
  <2>5. CASE n = m
    <3>1. Logged(n)' = Logged(n) \cup {u}
      <4>1. ASSUME NEW x \in Logged(n)' PROVE x \in Logged(n) \cup {u}
        <5>1. PICK j \in DOMAIN derivations' : derivations'[j].node = n /\ x = derivations'[j].unit
          BY <4>1 DEF Logged
        <5>2. j \in DOMAIN derivations \/ j = len + 1
          BY <2>3, <5>1
        <5> QED BY <2>2, <2>3, <5>1, <5>2 DEF Logged
      <4>2. ASSUME NEW x \in Logged(n) PROVE x \in Logged(n)'
        <5>1. PICK j \in DOMAIN derivations : derivations[j].node = n /\ x = derivations[j].unit
          BY <4>2 DEF Logged
        <5>2. j \in DOMAIN derivations' /\ derivations'[j] = derivations[j]
          BY <2>3, <5>1
        <5> QED BY <5>1, <5>2 DEF Logged
      <4>3. u \in Logged(n)'
        <5>1. len + 1 \in DOMAIN derivations'
          BY <2>3
        <5> QED BY <2>2, <2>3, <2>5, <5>1 DEF Logged
      <4> QED BY <4>1, <4>2, <4>3
    <3>2. u \notin Logged(n)
      BY <2>4 DEF Logged
    <3>3. IsFiniteSet(Logged(n))
      BY <1>0, FS_Subset
    <3>4. /\ Cardinality(Logged(n)) \in Nat
          /\ Cardinality(Logged(n) \cup {u}) = Cardinality(Logged(n)) + 1
      BY <3>2, <3>3, FS_AddElement, FS_CardinalityType
    <3>5. commits'[n] = commits[n] + 1 /\ commits[n] \in Nat
      BY <1>a, <2>1, <2>5
    <3>6. u \in Fired(n)
      BY <2>2, <2>5 DEF Fired
    <3> QED BY <1>0, <1>1, <3>1, <3>4, <3>5, <3>6 DEF CommitsCounted
  <2>6. CASE n # m
    <3>1. Logged(n)' = Logged(n)
      <4>1. ASSUME NEW x \in Logged(n)' PROVE x \in Logged(n)
        <5>1. PICK j \in DOMAIN derivations' : derivations'[j].node = n /\ x = derivations'[j].unit
          BY <4>1 DEF Logged
        <5>2. j \in DOMAIN derivations \/ j = len + 1
          BY <2>3, <5>1
        <5> QED BY <2>2, <2>3, <2>6, <5>1, <5>2 DEF Logged
      <4>2. ASSUME NEW x \in Logged(n) PROVE x \in Logged(n)'
        <5>1. PICK j \in DOMAIN derivations : derivations[j].node = n /\ x = derivations[j].unit
          BY <4>2 DEF Logged
        <5>2. j \in DOMAIN derivations' /\ derivations'[j] = derivations[j]
          BY <2>3, <5>1
        <5> QED BY <5>1, <5>2 DEF Logged
      <4> QED BY <4>1, <4>2
    <3>2. commits'[n] = commits[n] /\ latest'[n] = latest[n]
      BY <1>a, <2>1, <2>6
    <3> QED BY <1>0, <1>1, <3>1, <3>2 DEF CommitsCounted
  <2> QED BY <2>5, <2>6
<1> QED BY <1>2, <1>3, SourcesStep DEF SourceKind, SourcesKept, Injects

LEMMA InitNoLoop == Init => NoLoop
<1> SUFFICES ASSUME Init, NEW n \in Node PROVE HandedOutOnce(n) /\ CommitsCounted(n)
  BY DEF NoLoop
<1>1. Fired(n) = {} /\ Logged(n) = {} /\ Cardinality({}) = 0 /\ IsFiniteSet({})
  BY FS_EmptySet DEF Init, Fired, Logged
<1>2. IsFiniteSet(Redelivered(n)) /\ Cardinality(Redelivered(n)) \in Nat
  BY InitTyped, GenerationNat, RedeliveredFinite, FS_CardinalityType
<1>3. DOMAIN latest[n] = {} /\ commits[n] = 0
  BY DEF Init, NoOutputs
<1> QED BY <1>1, <1>2, <1>3 DEF HandedOutOnce, CommitsCounted

\* The generations of the sources bound the commits.
LEMMA NoLoopCounts == TypeOK /\ NoLoop => NoBusyLoop
<1> SUFFICES ASSUME TypeOK, NoLoop, NEW n \in Node
             PROVE  commits[n] <= 1 + Cardinality(Redelivered(n))
  BY DEF NoBusyLoop
<1>1. /\ IsFiniteSet(Fired(n)) /\ Logged(n) \subseteq Fired(n)
      /\ commits[n] <= Cardinality(Logged(n))
      /\ Cardinality(Fired(n)) <=
           Cardinality(Redelivered(n)) + (IF WorkUnitKey(n) \in Fired(n) THEN 1 ELSE 0)
  BY DEF NoLoop, HandedOutOnce, CommitsCounted
<1>2. IsFiniteSet(Redelivered(n)) /\ Cardinality(Redelivered(n)) \in Nat
  BY GenerationNat, RedeliveredFinite, FS_CardinalityType
<1>3. Cardinality(Logged(n)) <= Cardinality(Fired(n)) /\ IsFiniteSet(Logged(n))
  BY <1>1, FS_Subset
<1>4. Cardinality(Logged(n)) \in Nat /\ Cardinality(Fired(n)) \in Nat
  BY <1>1, <1>3, FS_CardinalityType
<1>5. commits[n] \in Nat
  BY TypeParts
<1> QED BY <1>1, <1>2, <1>3, <1>4, <1>5

LEMMA EngineNoBusyLoop == Engine => []NoBusyLoop
<1>1. TypeOK /\ TypeOK' /\ FiringFollows /\ ClaimedNotDone /\ AttemptBudget /\ NoLoop
        /\ [AnyCall]_vars => NoLoop'
  <2> SUFFICES ASSUME TypeOK, TypeOK', FiringFollows, ClaimedNotDone, AttemptBudget, NoLoop,
                      [AnyCall]_vars, NEW n \in Node
               PROVE  HandedOutOnce(n)' /\ CommitsCounted(n)'
    BY DEF NoLoop
  <2> QED BY HandedOutStep, CountedStep
<1> QED BY <1>1, InitNoLoop, NoLoopCounts, EngineTyped, EngineFiringFollows, EngineDiscipline, PTL
        DEF Engine

\* No node busy-loops, whatever its firing mode, the injections, lapsed leases, retries and
\* lost replies: a node commits at most once more than its sources redelivered since they
\* first delivered, because every unit handed out but the last was overtaken by a
\* generation of some source.
THEOREM NeverBusyLoops == Spec => []NoBusyLoop
BY SpecIsEngine, EngineNoBusyLoop
=============================================================================
