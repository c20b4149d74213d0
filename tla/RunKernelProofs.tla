-------------------------- MODULE RunKernelProofs --------------------------
(***************************************************************************)
(* The unit discipline of the convergence engine, for every assembly,      *)
(* firing policy, limit and number of workers: types, CLAIMED and DONE     *)
(* disjoint, at most one commit per unit, the retry budget; and that the   *)
(* engine implements the work-unit lifecycle.                              *)
(***************************************************************************)
EXTENDS RunProperties, TLAPS

Derivation(units) == [node : Node, unit : units, inputs : InputMap, outputs : Outputs]
HeldItem(units) == [unit : units, attempt : Nat \ {0}]
ClaimRecord == [node : Node, inputs : InputMap, lease : Nat, attempt : Nat \ {0}]
ReplyRecord == [caller : Worker, key : RequestKey \ {None}, derivation : Nat \ {0}]

\* Next without its bounds on what a caller passes: every filter, every max_items, commits
\* with or without a request_key.  Every client of the kernel takes such steps.
AnyCall ==
    \/ StartRun
    \/ \E m \in Module : Register(m)
    \/ \E i \in Input, a \in Artifact : InjectInput(i, a)
    \/ \E w \in Worker, filter \in SUBSET Node, k \in Nat : ClaimReady(w, filter, k)
    \/ \E w \in Worker, e \in Extension : Heartbeat(w, e)
    \/ \E w \in Worker : \E h \in held[w], terminal \in BOOLEAN : FailWork(w, h, terminal)
    \/ \E w \in Worker : \E h \in held[w], outs \in Outputs, key \in RequestKey \cup {None} :
            Commit(w, h, outs, key)
    \/ CancelRun
    \/ Tick
    \/ \E w \in Worker : Crash(w)
Engine == Init /\ [][AnyCall]_vars

-----------------------------------------------------------------------------
(* Facts about the operators the actions are built from. *)

LEMMA NextIsCall == Next => AnyCall
<1>1. Filter \subseteq SUBSET Node /\ MaxItems \subseteq Nat
  BY LimitsAssumption
<1> QED BY <1>1 DEF Next, AnyCall

LEMMA SpecIsEngine == Spec => Engine
BY NextIsCall, PTL DEF Spec, Engine

\* The limits a run is frozen with are usable whatever the request left at zero.
LEMMA LimitsUsable ==
    /\ LeaseMs \in Nat \ {0}
    /\ MaxAttempts \in Nat \ {0}
    /\ \A e \in Extension : Extend(e) \in Nat \ {0}
BY LimitsAssumption DEF LeaseMs, MaxAttempts, Extend

\* A sequence over a set is a sequence over every larger set.
LEMMA SeqOver ==
    ASSUME NEW S, NEW T, S \subseteq T, NEW s \in Seq(S)
    PROVE  s \in Seq(T)
OBVIOUS

\* The fields of a binding.
LEMMA BindingTyped ==
    ASSUME NEW i \in BindingIndex
    PROVE  /\ Binding[i].input \in Input \cup {None}
           /\ Binding[i].from \in Node \cup {None}
<1> DEFINE R == [to : Node, port : Port, from : Node \cup {None},
                 fromPort : OutName \cup {None}, input : Input \cup {None}]
<1>1. Binding \in Seq(R)
  BY AssemblyAssumption
<1>2. Binding[i] \in R
  <2> HIDE DEF R
  <2> QED BY <1>1 DEF BindingIndex
<1> QED BY <1>2

\* What resolve_inputs returns for a node whose bindings all resolve.
LEMMA ResolvedInputs ==
    ASSUME TypeOK, NEW n \in Node, Resolves(n)
    PROVE  ResolveInputs(n) \in [BindingsTo(n) -> Artifact] /\ ResolveInputs(n) \in InputMap
<1>1. ASSUME NEW i \in BindingsTo(n) PROVE Delivered(i) \in Artifact
  <2>1. i \in BindingIndex /\ BindingResolves(i)
    BY DEF Resolves, BindingsTo
  <2>2. Binding[i].input \in Input \cup {None} /\ Binding[i].from \in Node \cup {None}
    BY <2>1, BindingTyped
  <2>3. CASE Binding[i].input # None
    BY <2>2, <2>3 DEF Delivered, TypeOK
  <2>4. CASE Binding[i].input = None
    <3>1. Binding[i].from \in Node
      BY <2>1, <2>2, <2>4, AssemblyAssumption
    <3>a. latest[Binding[i].from] \in Outputs
      BY <3>1 DEF TypeOK
    <3>2. PICK S \in SUBSET OutName : latest[Binding[i].from] \in [S -> Artifact]
      BY <3>a DEF Outputs
    <3>3. Binding[i].fromPort \in S
      BY <2>1, <2>4, <3>2 DEF BindingResolves
    <3> QED BY <2>4, <3>2, <3>3 DEF Delivered
  <2> QED BY <2>3, <2>4
<1>2. ResolveInputs(n) \in [BindingsTo(n) -> Artifact]
  BY <1>1 DEF ResolveInputs
<1> QED BY <1>2 DEF InputMap

\* The reap keeps the slots it keeps, and takes only units out of the table.
LEMMA ReapTyped ==
    ASSUME NEW cl, cl \in [DOMAIN cl -> ClaimRecord]
    PROVE  /\ Live(cl) \in [DOMAIN Live(cl) -> ClaimRecord]
           /\ DOMAIN Live(cl) \subseteq DOMAIN cl
           /\ \A u \in DOMAIN Live(cl) : Live(cl)[u] = cl[u]
           /\ Exhausted(cl) \subseteq DOMAIN cl
           /\ Exhausted(cl) \cap DOMAIN Live(cl) = {}
           /\ DOMAIN Live(cl) = DOMAIN cl \ Expired(cl)
BY DEF Live, Expired, Exhausted
-----------------------------------------------------------------------------
(* Type correctness. *)

\* TypeOK with the sets the proofs quote by name.
LEMMA TypeParts ==
    TypeOK <=> /\ state \in RunState
               /\ answer \in Artifact \cup {None}
               /\ steps \in Nat
               /\ inputs \in [Input -> Artifact]
               /\ claimed \in [DOMAIN claimed -> ClaimRecord]
               /\ latest \in [Node -> Outputs]
               /\ attempts \in [DOMAIN attempts -> Nat \ {0}]
               /\ epochs \in [Input -> Nat]
               /\ commits \in [Node -> Nat]
               /\ derivations \in Seq(Derivation(done))
               /\ providers \in [Module -> Nat \ {0}]
               /\ cached \in SUBSET ReplyRecord
               /\ held \in [Worker -> SUBSET HeldItem(DOMAIN attempts)]
BY DEF TypeOK, ClaimRecord, Derivation, HeldItem, ReplyRecord

\* The reap at the head of every worker call, and nothing else in the table.
LEMMA ReapStepTyped ==
    ASSUME TypeOK, done' = done \cup Exhausted(claimed), claimed' = Live(claimed)
    PROVE  /\ claimed' \in [DOMAIN claimed' -> ClaimRecord]
           /\ derivations \in Seq(Derivation(done'))
<1>1. claimed \in [DOMAIN claimed -> ClaimRecord] /\ derivations \in Seq(Derivation(done))
  BY TypeParts
<1>2. Derivation(done) \subseteq Derivation(done')
  BY DEF Derivation
<1> QED BY <1>1, <1>2, SeqOver, ReapTyped

LEMMA InitTyped == Init => TypeOK
<1> SUFFICES ASSUME Init PROVE TypeOK
  OBVIOUS
<1>1. claimed \in [DOMAIN claimed -> ClaimRecord] /\ attempts \in [DOMAIN attempts -> Nat \ {0}]
  BY DEF Init
<1>2. NoOutputs \in Outputs
  <2>1. NoOutputs \in [{} -> Artifact]
    BY DEF NoOutputs
  <2> QED BY <2>1 DEF Outputs
<1>3. derivations \in Seq(Derivation(done))
  BY DEF Init
<1>4. /\ state \in RunState /\ answer \in Artifact \cup {None} /\ steps \in Nat
      /\ inputs \in [Input -> Artifact] /\ latest \in [Node -> Outputs]
      /\ epochs \in [Input -> Nat] /\ commits \in [Node -> Nat]
      /\ providers \in [Module -> Nat \ {0}]
      /\ cached = {}
      /\ held \in [Worker -> SUBSET HeldItem(DOMAIN attempts)]
  BY <1>2 DEF Init, RunState
<1> QED BY <1>1, <1>3, <1>4, TypeParts

\* What ClaimReady adds: a typed slot for each unit it takes.
LEMMA NewClaimTyped ==
    ASSUME TypeOK, NEW n \in Node, Resolves(n)
    PROVE  NewClaim(n) \in ClaimRecord
<1>1. ResolveInputs(n) \in InputMap
  BY ResolvedInputs
<1>2. AttemptOf(WorkUnitKey(n)) + 1 \in Nat \ {0}
  <2>1. AttemptOf(WorkUnitKey(n)) \in Nat
    BY TypeParts DEF AttemptOf
  <2> QED BY <2>1
<1>3. LeaseMs \in Nat
  BY LimitsUsable
<1> QED BY <1>1, <1>2, <1>3 DEF NewClaim, ClaimRecord

LEMMA UnitNode == \A n : WorkUnitKey(n).node = n
BY DEF WorkUnitKey

\* TypeParts in the next state.
LEMMA TypePartsNext ==
    TypeOK' <=> /\ state' \in RunState
                /\ answer' \in Artifact \cup {None}
                /\ steps' \in Nat
                /\ inputs' \in [Input -> Artifact]
                /\ claimed' \in [DOMAIN claimed' -> ClaimRecord]
                /\ latest' \in [Node -> Outputs]
                /\ attempts' \in [DOMAIN attempts' -> Nat \ {0}]
                /\ epochs' \in [Input -> Nat]
                /\ commits' \in [Node -> Nat]
                /\ derivations' \in Seq(Derivation(done'))
                /\ providers' \in [Module -> Nat \ {0}]
                /\ cached' \in SUBSET ReplyRecord
                /\ held' \in [Worker -> SUBSET HeldItem(DOMAIN attempts')]
BY DEF TypeOK, ClaimRecord, Derivation, HeldItem, ReplyRecord

LEMMA ClaimReadyTyped ==
    ASSUME TypeOK, NEW w \in Worker, NEW filter \in SUBSET Node, NEW k,
           ClaimReady(w, filter, k)
    PROVE  TypeOK'
<1> DEFINE cl == Live(claimed)
           dn == done \cup Exhausted(claimed)
           cand == {n \in filter : ReadyIn(n, cl, dn)}
<1>1. PICK take \in SUBSET cand :
        LET new == [u \in UnitsOf(take) |-> NewClaim(u.node)] IN
        /\ claimed' = [u \in DOMAIN cl \cup UnitsOf(take) |->
                         IF u \in UnitsOf(take) THEN new[u] ELSE cl[u]]
        /\ done' = dn
        /\ attempts' = [u \in DOMAIN attempts \cup UnitsOf(take) |->
                         IF u \in UnitsOf(take) THEN new[u].attempt ELSE attempts[u]]
        /\ held' = [held EXCEPT ![w] =
                     @ \cup {[unit |-> u, attempt |-> new[u].attempt] : u \in UnitsOf(take)}]
        /\ UNCHANGED <<answer, steps, inputs, latest, epochs, commits, derivations, providers,
                       cached>>
        /\ state' \in {"STALLED", state}
  BY DEF ClaimReady
<1> DEFINE units == UnitsOf(take)
           new == [u \in units |-> NewClaim(u.node)]
<1>2. \A n \in take : n \in Node /\ Resolves(n)
  BY DEF ReadyIn
<1>3. \A u \in units : new[u] \in ClaimRecord
  BY <1>2, NewClaimTyped, UnitNode DEF UnitsOf
<1>4. \A u \in units : new[u].attempt \in Nat \ {0}
  BY <1>3 DEF ClaimRecord
<1>5. cl \in [DOMAIN cl -> ClaimRecord]
  BY TypeParts, ReapTyped
<1> HIDE DEF new, units, cl
<1>6. claimed' \in [DOMAIN claimed' -> ClaimRecord]
  BY <1>1, <1>3, <1>5 DEF new, units
<1>7. attempts' \in [DOMAIN attempts' -> Nat \ {0}] /\ DOMAIN attempts \subseteq DOMAIN attempts'
      /\ units \subseteq DOMAIN attempts'
  BY <1>1, <1>4, TypeParts DEF new, units
<1>8. held' \in [Worker -> SUBSET HeldItem(DOMAIN attempts')]
  <2>1. held \in [Worker -> SUBSET HeldItem(DOMAIN attempts)]
    BY TypeParts
  <2>2. HeldItem(DOMAIN attempts) \subseteq HeldItem(DOMAIN attempts')
    BY <1>7 DEF HeldItem
  <2>3. {[unit |-> u, attempt |-> new[u].attempt] : u \in units} \subseteq HeldItem(DOMAIN attempts')
    BY <1>4, <1>7 DEF HeldItem
  <2>4. held' = [held EXCEPT ![w] =
                  @ \cup {[unit |-> u, attempt |-> new[u].attempt] : u \in units}]
    BY <1>1 DEF new, units
  <2> QED BY <2>1, <2>2, <2>3, <2>4
<1>9. derivations' \in Seq(Derivation(done'))
  <2>1. Derivation(done) \subseteq Derivation(done')
    BY <1>1 DEF Derivation
  <2> QED BY <2>1, <1>1, SeqOver, TypeParts
<1>10. cached' \in SUBSET ReplyRecord
  BY <1>1, TypeParts
<1> QED BY <1>1, <1>6, <1>7, <1>8, <1>9, <1>10, TypeParts, TypePartsNext DEF RunState, ClosedState

\* Renewing a lease changes no slot's shape, and no unit of the table.
LEMMA RenewTyped ==
    ASSUME NEW cl, cl \in [DOMAIN cl -> ClaimRecord], NEW ids, NEW e \in Extension
    PROVE  /\ Renewed(cl, ids, e) \in [DOMAIN cl -> ClaimRecord]
           /\ DOMAIN Renewed(cl, ids, e) = DOMAIN cl
           /\ \A u \in DOMAIN cl : Renewed(cl, ids, e)[u].attempt = cl[u].attempt
           /\ \A u \in DOMAIN cl : Renewed(cl, ids, e)[u].node = cl[u].node
           /\ \A u \in DOMAIN cl : Renewed(cl, ids, e)[u].inputs = cl[u].inputs
<1>1. Extend(e) \in Nat
  BY LimitsUsable
<1> QED BY <1>1 DEF Renewed, ClaimRecord

\* What both heartbeat orders do to the table: some units leave it, those past their
\* last attempt as DONE, and the others keep everything but the lease.
LEMMA HeartbeatTable ==
    ASSUME TypeOK, NEW w \in Worker, NEW e \in Extension, Heartbeat(w, e)
    PROVE  /\ claimed' \in [DOMAIN claimed' -> ClaimRecord]
           /\ DOMAIN claimed' \subseteq DOMAIN claimed
           /\ \A u \in DOMAIN claimed' : /\ claimed'[u].attempt = claimed[u].attempt
                                        /\ claimed'[u].node = claimed[u].node
                                        /\ claimed'[u].inputs = claimed[u].inputs
           /\ done \subseteq done'
           /\ done' \subseteq done \cup (DOMAIN claimed \ DOMAIN claimed')
           /\ \A u \in DOMAIN claimed \ DOMAIN claimed' :
                claimed[u].attempt >= MaxAttempts => u \in done'
<1> DEFINE ids == {h.unit : h \in held[w]}
           re == Renewed(claimed, ids, e)
<1>1. claimed \in [DOMAIN claimed -> ClaimRecord]
  BY TypeParts
<1>2. /\ re \in [DOMAIN claimed -> ClaimRecord] /\ DOMAIN re = DOMAIN claimed
      /\ \A u \in DOMAIN claimed : /\ re[u].attempt = claimed[u].attempt
                                   /\ re[u].node = claimed[u].node
                                   /\ re[u].inputs = claimed[u].inputs
  BY <1>1, RenewTyped
<1> HIDE DEF re
<1>3. CASE RenewFirst
  <2>1. claimed' = Live(re) /\ done' = done \cup Exhausted(re)
    BY <1>3 DEF Heartbeat, HeartbeatRenewFirst, re
  <2>2. /\ Live(re) \in [DOMAIN Live(re) -> ClaimRecord]
        /\ DOMAIN Live(re) = DOMAIN re \ Expired(re)
        /\ \A u \in DOMAIN Live(re) : Live(re)[u] = re[u]
    BY <1>2, ReapTyped
  <2>3. /\ claimed' \in [DOMAIN claimed' -> ClaimRecord]
        /\ DOMAIN claimed' = DOMAIN claimed \ Expired(re)
        /\ \A u \in DOMAIN claimed' : /\ claimed'[u].attempt = claimed[u].attempt
                                     /\ claimed'[u].node = claimed[u].node
                                     /\ claimed'[u].inputs = claimed[u].inputs
    BY <1>2, <2>1, <2>2
  <2>4. Exhausted(re) = {u \in DOMAIN claimed \ DOMAIN claimed' : claimed[u].attempt >= MaxAttempts}
    BY <1>2, <2>3 DEF Exhausted, Expired
  <2> QED BY <2>1, <2>3, <2>4
<1>4. CASE ~RenewFirst
  <2>1. claimed' = Renewed(Live(claimed), ids, e) /\ done' = done \cup Exhausted(claimed)
    BY <1>4 DEF Heartbeat, HeartbeatReapFirst
  <2>2. /\ Live(claimed) \in [DOMAIN Live(claimed) -> ClaimRecord]
        /\ DOMAIN Live(claimed) = DOMAIN claimed \ Expired(claimed)
        /\ \A u \in DOMAIN Live(claimed) : Live(claimed)[u] = claimed[u]
    BY <1>1, ReapTyped
  <2>3. /\ claimed' \in [DOMAIN claimed' -> ClaimRecord]
        /\ DOMAIN claimed' = DOMAIN claimed \ Expired(claimed)
        /\ \A u \in DOMAIN claimed' : /\ claimed'[u].attempt = claimed[u].attempt
                                     /\ claimed'[u].node = claimed[u].node
                                     /\ claimed'[u].inputs = claimed[u].inputs
    <3> HIDE DEF ids
    <3> QED BY <2>1, <2>2, RenewTyped
  <2>4. Exhausted(claimed) = {u \in DOMAIN claimed \ DOMAIN claimed' : claimed[u].attempt >= MaxAttempts}
    BY <2>3 DEF Exhausted, Expired
  <2> QED BY <2>1, <2>3, <2>4
<1> QED BY <1>3, <1>4

LEMMA HeartbeatTyped ==
    ASSUME TypeOK, NEW w \in Worker, NEW e \in Extension, Heartbeat(w, e)
    PROVE  TypeOK'
<1>1. claimed' \in [DOMAIN claimed' -> ClaimRecord] /\ done \subseteq done'
  BY HeartbeatTable
<1>2. derivations \in Seq(Derivation(done'))
  <2>1. Derivation(done) \subseteq Derivation(done')
    BY <1>1 DEF Derivation
  <2> QED BY <2>1, SeqOver, TypeParts
<1>3. held' \in [Worker -> SUBSET HeldItem(DOMAIN attempts)]
  <2>1. held' = [held EXCEPT ![w] = {h \in @ : h.unit \in DOMAIN claimed'}]
    BY DEF Heartbeat
  <2> QED BY <2>1, TypeParts
<1>4. UNCHANGED <<run, inputs, latest, attempts, epochs, commits, derivations, providers,
                     cached>>
  BY DEF Heartbeat
<1> QED BY <1>1, <1>2, <1>3, <1>4, TypeParts, TypePartsNext DEF run

\* A worker gives an item up.
LEMMA DropTyped ==
    ASSUME TypeOK, NEW w \in Worker, NEW h
    PROVE  Drop(w, h) \in [Worker -> SUBSET HeldItem(DOMAIN attempts)]
BY TypeParts DEF Drop

LEMMA NotClaimedTyped ==
    ASSUME TypeOK, NEW w \in Worker, NEW h \in held[w], NotClaimed(w, h)
    PROVE  TypeOK'
<1>1. /\ claimed' = Live(claimed) /\ done' = done \cup Exhausted(claimed)
      /\ held' = Drop(w, h)
      /\ UNCHANGED <<run, inputs, latest, attempts, epochs, commits, derivations, providers,
                     cached>>
  BY DEF NotClaimed
<1> QED BY <1>1, ReapStepTyped, DropTyped, TypeParts, TypePartsNext DEF run

LEMMA CommitInvalidTyped ==
    ASSUME TypeOK, NEW w \in Worker, NEW h \in held[w], NEW outs, CommitInvalid(w, h, outs)
    PROVE  TypeOK'
<1>1. /\ claimed' = Live(claimed) /\ done' = done \cup Exhausted(claimed)
      /\ held' \in {held, Drop(w, h)}
      /\ UNCHANGED <<run, inputs, latest, attempts, epochs, commits, derivations, providers,
                     cached>>
  BY DEF CommitInvalid
<1> QED BY <1>1, ReapStepTyped, DropTyped, TypeParts, TypePartsNext DEF run

\* Taking one unit out of the table after the reap (FailWork, Commit).
LEMMA ReleaseTyped ==
    ASSUME TypeOK, NEW u,
           claimed' = [v \in DOMAIN Live(claimed) \ {u} |-> Live(claimed)[v]],
           done \cup Exhausted(claimed) \subseteq done'
    PROVE  /\ claimed' \in [DOMAIN claimed' -> ClaimRecord]
           /\ derivations \in Seq(Derivation(done'))
<1>1. claimed \in [DOMAIN claimed -> ClaimRecord] /\ derivations \in Seq(Derivation(done))
  BY TypeParts
<1>2. Derivation(done) \subseteq Derivation(done')
  BY DEF Derivation
<1>3. Live(claimed) \in [DOMAIN Live(claimed) -> ClaimRecord]
  BY <1>1, ReapTyped
<1>4. claimed' \in [DOMAIN claimed' -> ClaimRecord]
  BY <1>3
<1> QED BY <1>1, <1>2, <1>4, SeqOver

LEMMA FailClaimedTyped ==
    ASSUME TypeOK, NEW w \in Worker, NEW h \in held[w], NEW terminal \in BOOLEAN,
           FailClaimed(w, h, terminal)
    PROVE  TypeOK'
<1>1. /\ claimed' = [u \in DOMAIN Live(claimed) \ {h.unit} |-> Live(claimed)[u]]
      /\ done \cup Exhausted(claimed) \subseteq done'
      /\ held' = Drop(w, h)
      /\ UNCHANGED <<answer, steps, inputs, latest, attempts, epochs, commits, derivations,
                     providers, cached>>
      /\ state' \in {"STALLED", state}
  BY DEF FailClaimed
<1>2. claimed' \in [DOMAIN claimed' -> ClaimRecord] /\ derivations \in Seq(Derivation(done'))
  BY <1>1, ReleaseTyped
<1> QED BY <1>1, <1>2, DropTyped, TypeParts, TypePartsNext DEF RunState, ClosedState

LEMMA CommitAcceptTyped ==
    ASSUME TypeOK, NEW w \in Worker, NEW h \in held[w], NEW outs \in Outputs,
           NEW key \in RequestKey \cup {None}, CommitAccept(w, h, outs, key)
    PROVE  TypeOK'
<1> DEFINE c == Live(claimed)[h.unit]
           d == [node |-> c.node, unit |-> h.unit, inputs |-> c.inputs, outputs |-> outs]
<1>1. /\ h.unit \in DOMAIN Live(claimed)
      /\ claimed' = [u \in DOMAIN Live(claimed) \ {h.unit} |-> Live(claimed)[u]]
      /\ done' = done \cup Exhausted(claimed) \cup {h.unit}
      /\ latest' = [latest EXCEPT ![c.node] = outs]
      /\ commits' = [commits EXCEPT ![c.node] = @ + 1]
      /\ steps' = steps + 1
      /\ derivations' = Append(derivations, d)
      /\ answer' = IF Answers(c.node, outs) THEN outs[TerminalPort] ELSE answer
      /\ cached' = IF key = None THEN cached ELSE cached \cup {Reply(w, key, Len(derivations'))}
      /\ held' \in {held, Drop(w, h)}
      /\ UNCHANGED <<inputs, attempts, epochs, providers>>
      /\ state' \in {"COMPLETED", "FAILED", "STALLED", state}
  BY DEF CommitAccept, StateAfterCommit
<1>2. claimed' \in [DOMAIN claimed' -> ClaimRecord] /\ derivations \in Seq(Derivation(done'))
  BY <1>1, ReleaseTyped
<1>3. c \in ClaimRecord
  <2>1. claimed \in [DOMAIN claimed -> ClaimRecord]
    BY TypeParts
  <2>2. Live(claimed) \in [DOMAIN Live(claimed) -> ClaimRecord]
    BY <2>1, ReapTyped
  <2> QED BY <1>1, <2>2
<1>4. c.node \in Node /\ c.inputs \in InputMap
  BY <1>3 DEF ClaimRecord
<1> HIDE DEF c
<1>5. derivations' \in Seq(Derivation(done'))
  <2>1. d \in Derivation(done')
    BY <1>1, <1>4 DEF Derivation
  <2> HIDE DEF d
  <2> QED BY <1>1, <1>2, <2>1
<1>6. answer' \in Artifact \cup {None}
  <2>1. CASE Answers(c.node, outs)
    <3>1. PICK S \in SUBSET OutName : outs \in [S -> Artifact]
      BY DEF Outputs
    <3>2. TerminalPort \in S
      BY <2>1, <3>1 DEF Answers
    <3> QED BY <1>1, <2>1, <3>1, <3>2
  <2>2. CASE ~Answers(c.node, outs)
    BY <1>1, <2>2, TypeParts
  <2> QED BY <2>1, <2>2
<1>7. latest' \in [Node -> Outputs] /\ commits' \in [Node -> Nat] /\ steps' \in Nat
  <2>1. latest \in [Node -> Outputs] /\ commits \in [Node -> Nat] /\ steps \in Nat
    BY TypeParts
  <2>2. latest' \in [Node -> Outputs]
    BY <1>1, <1>4, <2>1
  <2> QED BY <1>1, <1>4, <2>1, <2>2
<1>8. held' \in [Worker -> SUBSET HeldItem(DOMAIN attempts')]
  BY <1>1, DropTyped, TypeParts
<1>9. cached' \in SUBSET ReplyRecord
  <2>1. Len(derivations') = Len(derivations) + 1 /\ Len(derivations) \in Nat
    <3>1. derivations \in Seq(Derivation(done))
      BY TypeParts
    <3> HIDE DEF d
    <3> QED BY <1>1, <3>1
  <2>2. key # None => Reply(w, key, Len(derivations')) \in ReplyRecord
    BY <2>1 DEF Reply, ReplyRecord
  <2>3. cached \in SUBSET ReplyRecord
    BY TypeParts
  <2> QED BY <1>1, <2>2, <2>3
<1> QED BY <1>1, <1>2, <1>5, <1>6, <1>7, <1>8, <1>9, TypeParts, TypePartsNext DEF RunState, ClosedState

\* The clock moves leases only.
LEMMA TickTable ==
    ASSUME TypeOK, Tick
    PROVE  /\ claimed' \in [DOMAIN claimed -> ClaimRecord]
           /\ \A u \in DOMAIN claimed : /\ claimed'[u].attempt = claimed[u].attempt
                                       /\ claimed'[u].node = claimed[u].node
                                       /\ claimed'[u].inputs = claimed[u].inputs
<1>1. claimed \in [DOMAIN claimed -> ClaimRecord]
  BY TypeParts
<1> DEFINE aged(u) == [claimed[u] EXCEPT !.lease = IF @ > 0 THEN @ - 1 ELSE 0]
<1>2. claimed' = [u \in DOMAIN claimed |-> aged(u)]
  BY DEF Tick
<1>3. \A u \in DOMAIN claimed :
        /\ aged(u) \in ClaimRecord /\ aged(u).attempt = claimed[u].attempt
        /\ aged(u).node = claimed[u].node /\ aged(u).inputs = claimed[u].inputs
  BY <1>1 DEF ClaimRecord
<1> HIDE DEF aged
<1> QED BY <1>2, <1>3

LEMMA NextTyped == TypeOK /\ [AnyCall]_vars => TypeOK'
<1> SUFFICES ASSUME TypeOK, [AnyCall]_vars PROVE TypeOK'
  OBVIOUS
<1>1. CASE StartRun
  BY <1>1, TypeParts, TypePartsNext DEF StartRun, slot, RunState
<1>2. ASSUME NEW m \in Module, Register(m) PROVE TypeOK'
  BY <1>2, TypeParts, TypePartsNext DEF Register, run, slot
<1>3. ASSUME NEW i \in Input, NEW a \in Artifact, InjectInput(i, a) PROVE TypeOK'
  BY <1>3, TypeParts, TypePartsNext DEF InjectInput, run
<1>4. ASSUME NEW w \in Worker, NEW filter \in SUBSET Node, NEW k \in Nat,
             ClaimReady(w, filter, k) PROVE TypeOK'
  BY <1>4, ClaimReadyTyped
<1>5. ASSUME NEW w \in Worker, NEW e \in Extension, Heartbeat(w, e) PROVE TypeOK'
  BY <1>5, HeartbeatTyped
<1>6. ASSUME NEW w \in Worker, NEW h \in held[w], NEW terminal \in BOOLEAN,
             FailWork(w, h, terminal) PROVE TypeOK'
  BY <1>6, NotClaimedTyped, FailClaimedTyped DEF FailWork
<1>7. ASSUME NEW w \in Worker, NEW h \in held[w], NEW outs \in Outputs, NEW key \in RequestKey \cup {None},
             Commit(w, h, outs, key) PROVE TypeOK'
  <2>1. CASE CommitReplay(w, h)
    BY <2>1, DropTyped, TypeParts, TypePartsNext DEF CommitReplay, run, slot
  <2> QED BY <1>7, <2>1, NotClaimedTyped, CommitInvalidTyped, CommitAcceptTyped DEF Commit
<1>8. CASE CancelRun
  <2>1. claimed' \in [DOMAIN claimed' -> ClaimRecord]
    BY <1>8 DEF CancelRun
  <2> QED BY <1>8, <2>1, TypeParts, TypePartsNext DEF CancelRun, RunState, ClosedState
<1>9. CASE Tick
  BY <1>9, TickTable, TypeParts, TypePartsNext DEF Tick, run
<1>10. ASSUME NEW w \in Worker, Crash(w) PROVE TypeOK'
  BY <1>10, TypeParts, TypePartsNext DEF Crash, run, slot
<1>11. CASE UNCHANGED vars
  BY <1>11, TypeParts, TypePartsNext DEF vars
<1> QED BY <1>1, <1>2, <1>3, <1>4, <1>5, <1>6, <1>7, <1>8, <1>9, <1>10, <1>11 DEF AnyCall

LEMMA EngineTyped == Engine => []TypeOK
BY InitTyped, NextTyped, PTL DEF Engine

\* Whatever the assembly and the limits, the run record, its slot and the workers'
\* items keep their shapes through every RPC, tick and crash.
THEOREM TypeCorrect == Spec => []TypeOK
BY SpecIsEngine, EngineTyped
-----------------------------------------------------------------------------
(* The engine implements the work-unit lifecycle, so whatever the lifecycle guarantees holds of
   the claim table, of done_units and of the derivations. *)

\* Slots that stay keep their attempt: how Flight follows the claim table.
LEMMA FlightOf ==
    ASSUME NEW gone, gone \subseteq DOMAIN claimed,
           DOMAIN claimed' = DOMAIN claimed \ gone,
           \A u \in DOMAIN claimed' : claimed'[u].attempt = claimed[u].attempt
    PROVE  Flight' = [u \in DOMAIN Flight \ gone |-> Flight[u]]
BY DEF Flight

\* A call that reaps, and takes further units out of the table, settles them.
LEMMA SettleStep ==
    ASSUME NEW gone \in SUBSET DOMAIN claimed, NEW fin \in SUBSET gone,
           state = "RUNNING", state' \in {"RUNNING", "STALLED"},
           DOMAIN claimed' = DOMAIN claimed \ gone,
           \A u \in DOMAIN claimed' : claimed'[u].attempt = claimed[u].attempt,
           \A u \in gone : claimed[u].attempt >= MaxAttempts => u \in fin,
           done' = done \cup fin, UNCHANGED <<attempts, derivations>>
    PROVE  WU!Next
<1>1. Flight' = [u \in DOMAIN Flight \ gone |-> Flight[u]]
  BY FlightOf
<1>2. DOMAIN Flight = DOMAIN claimed /\ \A u \in DOMAIN claimed : Flight[u] = claimed[u].attempt
  BY DEF Flight
<1>3. Phase = "open" /\ Phase' \in {"open", "closed"} /\ Log' = Log
  BY DEF Phase, Log
<1>4. WU!Settle(gone, fin)
  BY <1>1, <1>2, <1>3 DEF WU!Settle, WU!Settles
<1> QED BY <1>2, <1>4 DEF WU!Next

\* What the reap settles.
LEMMA ReapSettles ==
    ASSUME TypeOK
    PROVE  /\ Expired(claimed) \in SUBSET DOMAIN claimed
           /\ Exhausted(claimed) \in SUBSET Expired(claimed)
           /\ \A u \in Expired(claimed) :
                claimed[u].attempt >= MaxAttempts => u \in Exhausted(claimed)
           /\ DOMAIN Live(claimed) = DOMAIN claimed \ Expired(claimed)
           /\ \A u \in DOMAIN Live(claimed) : Live(claimed)[u] = claimed[u]
BY DEF Expired, Exhausted, Live

\* A call refused with Conflict or Invalid settles what its reap took.
LEMMA RefusedStep ==
    ASSUME TypeOK, state = "RUNNING", UNCHANGED <<run, attempts, derivations>>,
           claimed' = Live(claimed), done' = done \cup Exhausted(claimed)
    PROVE  WU!Next
<1>1. state' = "RUNNING"
  BY DEF run
<1> QED BY <1>1, ReapSettles, SettleStep

LEMMA HeartbeatStep ==
    ASSUME TypeOK, NEW w \in Worker, NEW e \in Extension, Heartbeat(w, e)
    PROVE  WU!Next
<1> DEFINE gone == DOMAIN claimed \ DOMAIN claimed'
           fin == done' \cap gone
<1>1. state = "RUNNING" /\ state' = "RUNNING" /\ UNCHANGED <<attempts, derivations>>
  BY DEF Heartbeat, run
<1>2. /\ DOMAIN claimed' = DOMAIN claimed \ gone
      /\ \A u \in DOMAIN claimed' : claimed'[u].attempt = claimed[u].attempt
      /\ \A u \in gone : claimed[u].attempt >= MaxAttempts => u \in fin
      /\ done' = done \cup fin
  BY HeartbeatTable
<1> QED BY <1>1, <1>2, SettleStep

LEMMA FailMaps ==
    ASSUME TypeOK, state = "RUNNING", NEW w \in Worker, NEW h \in held[w],
           NEW terminal \in BOOLEAN, FailClaimed(w, h, terminal)
    PROVE  WU!Next
<1> DEFINE final == terminal \/ Live(claimed)[h.unit].attempt >= MaxAttempts
           gone == Expired(claimed) \cup {h.unit}
           fin == Exhausted(claimed) \cup (IF final THEN {h.unit} ELSE {})
<1>1. /\ h.unit \in DOMAIN Live(claimed)
      /\ claimed' = [u \in DOMAIN Live(claimed) \ {h.unit} |-> Live(claimed)[u]]
      /\ done' = done \cup fin
      /\ UNCHANGED <<attempts, derivations>>
      /\ state' \in {"RUNNING", "STALLED"}
  BY DEF FailClaimed
<1>2. gone \in SUBSET DOMAIN claimed /\ fin \in SUBSET gone
  BY <1>1, ReapSettles
<1>3. /\ DOMAIN claimed' = DOMAIN claimed \ gone
      /\ \A u \in DOMAIN claimed' : claimed'[u].attempt = claimed[u].attempt
  BY <1>1, ReapSettles
<1>4. \A u \in gone : claimed[u].attempt >= MaxAttempts => u \in fin
  BY <1>1, ReapSettles
<1> HIDE DEF gone, fin
<1> QED BY <1>1, <1>2, <1>3, <1>4, SettleStep

LEMMA CommitStep ==
    ASSUME TypeOK, state = "RUNNING", NEW w \in Worker, NEW h \in held[w],
           NEW outs \in Outputs, NEW key, CommitAccept(w, h, outs, key)
    PROVE  WU!Next
<1> DEFINE gone == Expired(claimed) \cup {h.unit}
           fin == Exhausted(claimed) \cup {h.unit}
           c == Live(claimed)[h.unit]
           d == [node |-> c.node, unit |-> h.unit, inputs |-> c.inputs, outputs |-> outs]
<1>1. /\ h.unit \in DOMAIN Live(claimed)
      /\ claimed' = [u \in DOMAIN Live(claimed) \ {h.unit} |-> Live(claimed)[u]]
      /\ done' = done \cup fin
      /\ derivations' = Append(derivations, d)
      /\ attempts' = attempts
      /\ state' \in {"RUNNING", "COMPLETED", "FAILED", "STALLED"}
  BY DEF CommitAccept, StateAfterCommit
<1>2. gone \in SUBSET DOMAIN claimed /\ fin \in SUBSET gone /\ h.unit \in fin
  BY <1>1, ReapSettles
<1>3. /\ DOMAIN claimed' = DOMAIN claimed \ gone
      /\ \A u \in DOMAIN claimed' : claimed'[u].attempt = claimed[u].attempt
  BY <1>1, ReapSettles
<1>4. \A u \in gone : claimed[u].attempt >= MaxAttempts => u \in fin
  BY <1>1, ReapSettles
<1>5. Log' = Append(Log, h.unit)
  <2>1. derivations \in Seq(Derivation(done)) /\ d.unit = h.unit
    BY TypeParts
  <2> HIDE DEF d
  <2>2. /\ Len(derivations') = Len(derivations) + 1
        /\ \A k \in 1..Len(derivations) : derivations'[k] = derivations[k]
        /\ derivations'[Len(derivations) + 1] = d
        /\ DOMAIN derivations = 1..Len(derivations)
        /\ DOMAIN derivations' = 1..Len(derivations')
        /\ Len(derivations) \in Nat
    BY <1>1, <2>1
  <2>3. Log = [k \in 1..Len(derivations) |-> derivations[k].unit]
    BY <2>2 DEF Log
  <2>4. Log' = [k \in 1..(Len(derivations) + 1) |-> derivations'[k].unit]
    BY <2>2 DEF Log
  <2>5. Log \in Seq(done) /\ Len(Log) = Len(derivations)
    <3>1. \A k \in 1..Len(derivations) : derivations[k].unit \in done
      <4> SUFFICES ASSUME NEW k \in 1..Len(derivations) PROVE derivations[k].unit \in done
        OBVIOUS
      <4>1. derivations[k] \in Derivation(done)
        BY <2>1, <2>2
      <4> QED BY <4>1 DEF Derivation
    <3> QED BY <2>2, <2>3, <3>1
  <2> QED BY <2>1, <2>2, <2>3, <2>4, <2>5
<1> HIDE DEF gone, fin, d
<1>6. Flight' = [u \in DOMAIN Flight \ gone |-> Flight[u]]
  BY <1>2, <1>3, FlightOf
<1>7. DOMAIN Flight = DOMAIN claimed /\ \A u \in DOMAIN claimed : Flight[u] = claimed[u].attempt
  BY DEF Flight
<1>8. Phase = "open" /\ Phase' \in {"open", "closed"}
  BY <1>1 DEF Phase
<1>9. WU!CommitUnit(gone, fin, h.unit)
  BY <1>1, <1>2, <1>4, <1>5, <1>6, <1>7, <1>8 DEF WU!CommitUnit, WU!Settles
<1> QED BY <1>2, <1>7, <1>9 DEF WU!Next

LEMMA ClaimStep ==
    ASSUME TypeOK, NEW w \in Worker, NEW filter \in SUBSET Node, NEW k,
           ClaimReady(w, filter, k)
    PROVE  WU!Next
<1> DEFINE cl == Live(claimed)
           dn == done \cup Exhausted(claimed)
           cand == {n \in filter : ReadyIn(n, cl, dn)}
<1>1. PICK nodes \in SUBSET cand :
        LET new == [u \in UnitsOf(nodes) |-> NewClaim(u.node)] IN
        /\ claimed' = [u \in DOMAIN cl \cup UnitsOf(nodes) |->
                         IF u \in UnitsOf(nodes) THEN new[u] ELSE cl[u]]
        /\ done' = dn
        /\ attempts' = [u \in DOMAIN attempts \cup UnitsOf(nodes) |->
                         IF u \in UnitsOf(nodes) THEN new[u].attempt ELSE attempts[u]]
        /\ UNCHANGED derivations
        /\ state' \in {"STALLED", state}
        /\ state = "RUNNING"
  BY DEF ClaimReady
<1> DEFINE gone == Expired(claimed)
           fin == Exhausted(claimed)
           take == UnitsOf(nodes)
<1>2. \A u \in take : NewClaim(u.node).attempt = WU!Tried(u) + 1
  <2> SUFFICES ASSUME NEW n \in nodes
               PROVE  NewClaim(WorkUnitKey(n).node).attempt = WU!Tried(WorkUnitKey(n)) + 1
    BY DEF UnitsOf
  <2>1. WorkUnitKey(n).node = n
    BY UnitNode
  <2>2. NewClaim(n).attempt = AttemptOf(WorkUnitKey(n)) + 1
    BY DEF NewClaim
  <2>3. AttemptOf(WorkUnitKey(n)) = WU!Tried(WorkUnitKey(n))
    BY DEF AttemptOf, WU!Tried
  <2> QED BY <2>1, <2>2, <2>3
<1>3. take \cap (done \cup fin \cup (DOMAIN claimed \ gone)) = {}
  <2>1. DOMAIN cl = DOMAIN claimed \ gone
    BY ReapSettles
  <2> QED BY <2>1 DEF UnitsOf, ReadyIn
<1>4. DOMAIN Flight = DOMAIN claimed /\ \A u \in DOMAIN claimed : Flight[u] = claimed[u].attempt
  BY DEF Flight
<1>5. /\ DOMAIN cl = DOMAIN claimed \ gone
      /\ \A u \in DOMAIN cl : cl[u] = claimed[u]
      /\ gone \in SUBSET DOMAIN claimed /\ fin \in SUBSET gone
      /\ \A u \in gone : claimed[u].attempt >= MaxAttempts => u \in fin
  BY ReapSettles
<1> HIDE DEF cl, gone, fin, take
<1>6. claimed' = [u \in (DOMAIN claimed \ gone) \cup take |->
                    IF u \in take THEN NewClaim(u.node) ELSE claimed[u]]
  BY <1>1, <1>5 DEF take
<1>7. Flight' = [u \in (DOMAIN Flight \ gone) \cup take |->
                    IF u \in take THEN WU!Tried(u) + 1 ELSE Flight[u]]
  BY <1>2, <1>4, <1>6 DEF Flight
<1>8. attempts' = [u \in DOMAIN attempts \cup take |->
                    IF u \in take THEN WU!Tried(u) + 1 ELSE attempts[u]]
  BY <1>1, <1>2 DEF take
<1>9. done' = done \cup fin /\ Log' = Log
  BY <1>1 DEF fin, Log
<1>10. Phase = "open" /\ Phase' \in {"open", "closed"}
  BY <1>1 DEF Phase
<1>11. WU!HandOut(gone, fin, take)
  <2>1. WU!Settles(gone, fin)
    BY <1>4, <1>5 DEF WU!Settles
  <2>2. take \cap (done \cup fin \cup (DOMAIN Flight \ gone)) = {}
    BY <1>3, <1>4
  <2> QED BY <2>1, <2>2, <1>7, <1>8, <1>9, <1>10 DEF WU!HandOut
<1>12. take \in SUBSET DOMAIN Flight'
  BY <1>7
<1> QED BY <1>4, <1>5, <1>11, <1>12 DEF WU!Next

\* Initial states map to initial states.
LEMMA InitMaps == Init => WU!Init
BY DEF Init, WU!Init, Phase, Flight, Log

\* Every step of the run is a step of the lifecycle, or leaves it alone.
LEMMA StepMaps == TypeOK /\ [AnyCall]_vars => [WU!Next]_(WU!wvars)
<1> SUFFICES ASSUME TypeOK, [AnyCall]_vars PROVE [WU!Next]_(WU!wvars)
  OBVIOUS
<1> USE DEF WU!wvars
<1>1. CASE StartRun
  <2>1. WU!Start
    BY <1>1 DEF StartRun, slot, WU!Start, Phase, Flight, Log
  <2> QED BY <2>1 DEF WU!Next
<1>2. ASSUME NEW m \in Module, Register(m) PROVE UNCHANGED WU!wvars
  BY <1>2 DEF Register, run, slot, Phase, Flight, Log
<1>3. ASSUME NEW i \in Input, NEW a \in Artifact, InjectInput(i, a) PROVE UNCHANGED WU!wvars
  BY <1>3 DEF InjectInput, run, Phase, Flight, Log
<1>4. ASSUME NEW w \in Worker, NEW filter \in SUBSET Node, NEW k \in Nat,
             ClaimReady(w, filter, k) PROVE WU!Next
  BY <1>4, ClaimStep
<1>5. ASSUME NEW w \in Worker, NEW e \in Extension, Heartbeat(w, e) PROVE WU!Next
  BY <1>5, HeartbeatStep
<1>6. ASSUME NEW w \in Worker, NEW h \in held[w], NotClaimed(w, h), state = "RUNNING"
      PROVE  WU!Next
  BY <1>6, RefusedStep DEF NotClaimed
<1>7. ASSUME NEW w \in Worker, NEW h \in held[w], NEW outs \in Outputs,
             CommitInvalid(w, h, outs), state = "RUNNING"
      PROVE  WU!Next
  BY <1>7, RefusedStep DEF CommitInvalid
<1>8. ASSUME NEW w \in Worker, NEW h \in held[w], NEW terminal \in BOOLEAN,
             FailWork(w, h, terminal) PROVE WU!Next
  BY <1>6, <1>8, FailMaps DEF FailWork
<1>9. ASSUME NEW w \in Worker, NEW h \in held[w], NEW outs \in Outputs, NEW key \in RequestKey \cup {None},
             Commit(w, h, outs, key) PROVE WU!Next \/ UNCHANGED WU!wvars
  <2>1. CASE CommitReplay(w, h)
    BY <2>1 DEF CommitReplay, run, slot, Phase, Flight, Log
  <2> QED BY <1>6, <1>7, <1>9, <2>1, CommitStep DEF Commit
<1>10. CASE CancelRun
  <2>1. WU!Cancel
    BY <1>10 DEF CancelRun, WU!Cancel, Phase, Flight, Log
  <2> QED BY <2>1 DEF WU!Next
<1>11. CASE Tick
  <2>1. Flight' = Flight
    BY <1>11, TickTable DEF Flight
  <2> QED BY <1>11, <2>1 DEF Tick, run, Phase, Log
<1>12. ASSUME NEW w \in Worker, Crash(w) PROVE UNCHANGED WU!wvars
  BY <1>12 DEF Crash, run, slot, Phase, Flight, Log
<1>13. CASE UNCHANGED vars
  BY <1>13 DEF vars, Phase, Flight, Log
<1> QED BY <1>1, <1>2, <1>3, <1>4, <1>5, <1>8, <1>9, <1>10, <1>11, <1>12, <1>13 DEF AnyCall

\* Whoever calls the kernel, and with what.
LEMMA EngineLifecycle == Engine => Lifecycle
<1>1. TypeOK /\ [AnyCall]_vars => [WU!Next]_(WU!wvars)
  BY StepMaps
<1> QED BY <1>1, InitMaps, EngineTyped, PTL DEF Engine, Lifecycle, WU!Spec

\* The kernel implements the work-unit lifecycle: whatever the assembly and the
\* interleaving of workers, leases, crashes and lost replies, every unit goes
\* READY -> CLAIMED -> DONE as docs/Concurrency.md draws it.
THEOREM Implements == Spec => Lifecycle
BY SpecIsEngine, EngineLifecycle
-----------------------------------------------------------------------------
(* What the lifecycle guarantees, read back as statements about the run. *)

WUP == INSTANCE WorkUnitsProofs WITH
        Budget <- MaxAttempts, phase <- Phase, flight <- Flight, finished <- done,
        tried <- attempts, log <- Log

LEMMA SameInit == WU!Init => WUP!Init
BY DEF WU!Init, WUP!Init

LEMMA SameNext == [WU!Next]_(WU!wvars) => [WUP!Next]_(WUP!wvars)
BY DEF WU!Next, WUP!Next, WU!wvars, WUP!wvars, WU!Start, WUP!Start, WU!Settle, WUP!Settle,
       WU!Settles, WUP!Settles, WU!CommitUnit, WUP!CommitUnit, WU!HandOut, WUP!HandOut,
       WU!Tried, WUP!Tried, WU!Cancel, WUP!Cancel

LEMMA EngineDiscipline == Engine => [](ClaimedNotDone /\ CommittedOnce /\ AttemptBudget)
<1>1. WUP!BudgetOK
  BY LimitsUsable DEF WUP!BudgetOK
<1>2. WUP!Spec => [](WUP!Apart /\ WUP!LoggedOnce /\ WUP!WithinBudget)
  BY <1>1, WUP!UnitSafety
<1>3. Engine => WUP!Spec
  <2>1. Lifecycle => WUP!Spec
    BY SameInit, SameNext, PTL DEF Lifecycle, WU!Spec, WUP!Spec
  <2> QED BY <2>1, EngineLifecycle
<1>4. TypeOK /\ WUP!Apart /\ WUP!LoggedOnce /\ WUP!WithinBudget
        => ClaimedNotDone /\ CommittedOnce /\ AttemptBudget
  <2> SUFFICES ASSUME TypeOK, WUP!Apart, WUP!LoggedOnce, WUP!WithinBudget
               PROVE  ClaimedNotDone /\ CommittedOnce /\ AttemptBudget
    OBVIOUS
  <2>1. DOMAIN Flight = DOMAIN claimed /\ \A u \in DOMAIN claimed : Flight[u] = claimed[u].attempt
    BY DEF Flight
  <2>2. ClaimedNotDone
    BY <2>1 DEF WUP!Apart, ClaimedNotDone
  <2>3. CommittedOnce
    BY DEF WUP!LoggedOnce, Log, CommittedOnce
  <2>4. AttemptBudget
    BY <2>1, LimitsUsable DEF WUP!WithinBudget, AttemptBudget, Phase
  <2> QED BY <2>2, <2>3, <2>4
<1> QED BY <1>2, <1>3, <1>4, EngineTyped, PTL

\* The kernel's unit discipline, for every assembly, policy, limit and number of
\* workers: CLAIMED and DONE exclude each other, no unit is committed twice, and none
\* is handed out beyond its retry budget.
THEOREM UnitDiscipline == Spec => [](ClaimedNotDone /\ CommittedOnce /\ AttemptBudget)
BY SpecIsEngine, EngineDiscipline

\* The retry budget on its own: however leases lapse and work fails, no unit is handed out
\* more than max_attempts times, and one at its limit is in flight or DONE.
THEOREM RetryBudget == Spec => []AttemptBudget
BY UnitDiscipline, PTL
=============================================================================
