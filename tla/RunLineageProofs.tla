-------------------------- MODULE RunLineageProofs --------------------------
(***************************************************************************)
(* Where the data of a run comes from, for every assembly, policy, limit   *)
(* and set of workers: what a derivation consumed, what the answer is,     *)
(* which firings a node has, and what a kept commit reply stands for.      *)
(*                                                                         *)
(* Every step of the engine is of one of three kinds: it hands units out,  *)
(* it accepts a commit, or it at most takes units out of the table.        *)
(***************************************************************************)
EXTENDS RunKernelProofs

\* A slot that is still in the table is the slot it was, but for its lease.
SlotKept(u) ==
    /\ u \in DOMAIN claimed
    /\ claimed'[u].node = claimed[u].node
    /\ claimed'[u].inputs = claimed[u].inputs
    /\ claimed'[u].attempt = claimed[u].attempt

\* Nothing is handed out and nothing is recorded.
Releases ==
    /\ \A u \in DOMAIN claimed' : SlotKept(u)
    /\ \A w \in Worker : held'[w] \subseteq held[w]
    /\ UNCHANGED <<answer, steps, latest, attempts, commits, derivations, cached>>
    /\ \/ state' = state
       \/ state = "NONE" /\ state' = "RUNNING" /\ MaxSteps > 0
       \/ state = "RUNNING" /\ state' = "CANCELLED"
       \/ state = "RUNNING" /\ state' = "STALLED" /\ NothingLeft'

\* The derivation a commit of item h records.
Recorded(h, outs) ==
    [node |-> claimed[h.unit].node, unit |-> h.unit, inputs |-> claimed[h.unit].inputs,
     outputs |-> outs]

\* The reply of a commit is kept under a key the caller has not used, or not at all.
KeepsReply(w) ==
    \/ cached' = cached
    \/ \E key \in RequestKey \ {None} :
         ~Replied(w, key) /\ cached' = cached \cup {Reply(w, key, Len(derivations'))}

\* A commit is accepted.
Accepts(w, h, outs) ==
    LET n == claimed[h.unit].node IN
    /\ state = "RUNNING"
    /\ h.unit \in DOMAIN claimed
    /\ h.unit \notin DOMAIN claimed'
    /\ \A u \in DOMAIN claimed' : SlotKept(u)
    /\ \A x \in Worker : held'[x] \subseteq held[x]
    /\ latest' = [latest EXCEPT ![n] = outs]
    /\ derivations' = Append(derivations, Recorded(h, outs))
    /\ steps' = steps + 1
    /\ answer' = IF Answers(n, outs) THEN outs[TerminalPort] ELSE answer
    /\ KeepsReply(w)
    /\ UNCHANGED attempts
    /\ state' = StateAfterCommit(n, outs)

\* Worker w is handed the present units of the nodes in take.
HandsOut(w, take) ==
    /\ state = "RUNNING"
    /\ state' = "RUNNING" \/ (state' = "STALLED" /\ NothingLeft')
    /\ take \subseteq Node /\ \A n \in take : Resolves(n)
    /\ \A u \in DOMAIN claimed' :
         IF u \in UnitsOf(take) THEN claimed'[u] = NewClaim(u.node) ELSE SlotKept(u)
    /\ attempts' = [u \in DOMAIN attempts \cup UnitsOf(take) |->
                      IF u \in UnitsOf(take) THEN AttemptOf(u) + 1 ELSE attempts[u]]
    /\ held' = [held EXCEPT ![w] =
                  @ \cup {[unit |-> u, attempt |-> AttemptOf(u) + 1] : u \in UnitsOf(take)}]
    /\ UNCHANGED <<answer, steps, inputs, latest, commits, derivations, cached>>

StepKind ==
    \/ Releases
    \/ \E w \in Worker, h \in HeldItem(DOMAIN attempts), outs \in Outputs : Accepts(w, h, outs)
    \/ \E w \in Worker, filter \in SUBSET Node, k \in Nat : \E take \in SUBSET Node :
            ClaimReady(w, filter, k) /\ HandsOut(w, take)
-----------------------------------------------------------------------------
(* The kind of each action. *)

\* The reap, and a further unit taken out, keep the other slots.
LEMMA ReapKeeps ==
    ASSUME TypeOK, NEW S,
           claimed' = [u \in DOMAIN Live(claimed) \ S |-> Live(claimed)[u]]
    PROVE  \A u \in DOMAIN claimed' : SlotKept(u)
BY ReapSettles DEF SlotKept

LEMMA ReapAlone ==
    ASSUME TypeOK, claimed' = Live(claimed)
    PROVE  \A u \in DOMAIN claimed' : SlotKept(u)
BY ReapSettles DEF SlotKept

\* A worker that gives an item up holds no more than before.
LEMMA DropShrinks ==
    ASSUME TypeOK, NEW w \in Worker, NEW h, held' \in {held, Drop(w, h)}
    PROVE  \A x \in Worker : held'[x] \subseteq held[x]
<1>1. held \in [Worker -> SUBSET HeldItem(DOMAIN attempts)]
  BY TypeParts
<1> QED BY <1>1 DEF Drop

LEMMA RefusedKind ==
    ASSUME TypeOK, NEW w \in Worker, NEW h, NEW outs,
           NotClaimed(w, h) \/ CommitInvalid(w, h, outs)
    PROVE  Releases
<1>1. /\ claimed' = Live(claimed)
      /\ held' \in {held, Drop(w, h)}
      /\ UNCHANGED <<run, latest, attempts, commits, derivations, cached>>
  BY DEF NotClaimed, CommitInvalid
<1> QED BY <1>1, ReapAlone, DropShrinks DEF Releases, run

LEMMA FailKind ==
    ASSUME TypeOK, state = "RUNNING", NEW w \in Worker, NEW h, NEW terminal,
           FailClaimed(w, h, terminal)
    PROVE  Releases
<1>1. /\ claimed' = [u \in DOMAIN Live(claimed) \ {h.unit} |-> Live(claimed)[u]]
      /\ held' = Drop(w, h)
      /\ UNCHANGED <<answer, steps, latest, attempts, commits, derivations, cached>>
      /\ state' = IF NothingLeft' THEN "STALLED" ELSE state
  BY DEF FailClaimed
<1>2. \A u \in DOMAIN claimed' : SlotKept(u)
  BY <1>1, ReapKeeps
<1> QED BY <1>1, <1>2, DropShrinks DEF Releases

LEMMA HeartbeatKind ==
    ASSUME TypeOK, NEW w \in Worker, NEW e \in Extension, Heartbeat(w, e)
    PROVE  Releases
<1>1. \A u \in DOMAIN claimed' : SlotKept(u)
  BY HeartbeatTable DEF SlotKept
<1>2. held' = [held EXCEPT ![w] = {h \in @ : h.unit \in DOMAIN claimed'}]
  BY DEF Heartbeat
<1>3. \A x \in Worker : held'[x] \subseteq held[x]
  BY <1>2, TypeParts
<1>4. UNCHANGED <<run, latest, attempts, commits, derivations, cached>>
  BY DEF Heartbeat
<1> QED BY <1>1, <1>3, <1>4 DEF Releases, run

LEMMA CommitKind ==
    ASSUME TypeOK, state = "RUNNING", NEW w \in Worker, NEW h, NEW outs,
           NEW key \in RequestKey \cup {None}, ~Replied(w, key), CommitAccept(w, h, outs, key)
    PROVE  Accepts(w, h, outs)
<1> DEFINE c == Live(claimed)[h.unit]
<1>1. /\ h.unit \in DOMAIN Live(claimed)
      /\ claimed' = [u \in DOMAIN Live(claimed) \ {h.unit} |-> Live(claimed)[u]]
      /\ latest' = [latest EXCEPT ![c.node] = outs]
      /\ steps' = steps + 1
      /\ derivations' = Append(derivations,
            [node |-> c.node, unit |-> h.unit, inputs |-> c.inputs, outputs |-> outs])
      /\ answer' = IF Answers(c.node, outs) THEN outs[TerminalPort] ELSE answer
      /\ KeepsReply(w)
      /\ held' \in {held, Drop(w, h)}
      /\ attempts' = attempts
      /\ state' = StateAfterCommit(c.node, outs)
  BY DEF CommitAccept, KeepsReply
<1>2. h.unit \in DOMAIN claimed /\ c = claimed[h.unit]
  BY <1>1, ReapSettles
<1> HIDE DEF c
<1>3. h.unit \notin DOMAIN claimed'
  BY <1>1
<1>4. \A u \in DOMAIN claimed' : SlotKept(u)
  BY <1>1, ReapKeeps
<1> QED BY <1>1, <1>2, <1>3, <1>4, DropShrinks DEF Accepts, Recorded

LEMMA ClaimKind ==
    ASSUME TypeOK, NEW w \in Worker, NEW filter \in SUBSET Node, NEW k,
           ClaimReady(w, filter, k)
    PROVE  \E take \in SUBSET Node : HandsOut(w, take)
<1> DEFINE cl == Live(claimed)
           dn == done \cup Exhausted(claimed)
           cand == {n \in filter : ReadyIn(n, cl, dn)}
<1>1. PICK take \in SUBSET cand :
        LET new == [u \in UnitsOf(take) |-> NewClaim(u.node)] IN
        /\ state = "RUNNING"
        /\ claimed' = [u \in DOMAIN cl \cup UnitsOf(take) |->
                         IF u \in UnitsOf(take) THEN new[u] ELSE cl[u]]
        /\ attempts' = [u \in DOMAIN attempts \cup UnitsOf(take) |->
                         IF u \in UnitsOf(take) THEN new[u].attempt ELSE attempts[u]]
        /\ held' = [held EXCEPT ![w] =
                     @ \cup {[unit |-> u, attempt |-> new[u].attempt] : u \in UnitsOf(take)}]
        /\ UNCHANGED <<answer, steps, inputs, latest, commits, derivations, cached>>
        /\ state' = IF take = {} /\ NothingLeft' THEN "STALLED" ELSE state
  BY DEF ClaimReady
<1>2. take \subseteq Node /\ \A n \in take : Resolves(n)
  BY DEF ReadyIn
<1>3. \A u \in UnitsOf(take) : NewClaim(u.node).attempt = AttemptOf(u) + 1
  <2> SUFFICES ASSUME NEW n \in take
               PROVE  NewClaim(WorkUnitKey(n).node).attempt = AttemptOf(WorkUnitKey(n)) + 1
    BY DEF UnitsOf
  <2> QED BY UnitNode DEF NewClaim
<1> DEFINE new == [u \in UnitsOf(take) |-> NewClaim(u.node)]
<1>4. \A u \in DOMAIN cl : u \in DOMAIN claimed /\ cl[u] = claimed[u]
  BY ReapSettles
<1>5. \A u \in UnitsOf(take) : new[u] = NewClaim(u.node) /\ new[u].attempt = AttemptOf(u) + 1
  BY <1>3
<1> HIDE DEF cl, dn, cand, new
<1>6. \A u \in DOMAIN claimed' :
        IF u \in UnitsOf(take) THEN claimed'[u] = NewClaim(u.node) ELSE SlotKept(u)
  BY <1>1, <1>4, <1>5 DEF SlotKept, new
<1>7. attempts' = [u \in DOMAIN attempts \cup UnitsOf(take) |->
                     IF u \in UnitsOf(take) THEN AttemptOf(u) + 1 ELSE attempts[u]]
  BY <1>1, <1>5 DEF new
<1>8. {[unit |-> u, attempt |-> new[u].attempt] : u \in UnitsOf(take)}
        = {[unit |-> u, attempt |-> AttemptOf(u) + 1] : u \in UnitsOf(take)}
  BY <1>5
<1>9. HandsOut(w, take)
  BY <1>1, <1>2, <1>6, <1>7, <1>8 DEF HandsOut, new
<1> QED BY <1>2, <1>9

\* Every action of the engine is of one of the three kinds.
LEMMA StepKinds == TypeOK /\ [AnyCall]_vars => StepKind
<1> SUFFICES ASSUME TypeOK, [AnyCall]_vars PROVE StepKind
  OBVIOUS
<1>0. held \in [Worker -> SUBSET HeldItem(DOMAIN attempts)]
  BY TypeParts
<1>1. CASE StartRun
  BY <1>1 DEF StartRun, slot, StepKind, Releases, SlotKept
<1>2. ASSUME NEW m \in Module, Register(m) PROVE Releases
  BY <1>2 DEF Register, run, slot, Releases, SlotKept
<1>3. ASSUME NEW i \in Input, NEW a \in Artifact, InjectInput(i, a) PROVE Releases
  BY <1>3 DEF InjectInput, run, Releases, SlotKept
<1>4. ASSUME NEW w \in Worker, NEW filter \in SUBSET Node, NEW k \in Nat,
             ClaimReady(w, filter, k) PROVE StepKind
  BY <1>4, ClaimKind DEF StepKind
<1>5. ASSUME NEW w \in Worker, NEW e \in Extension, Heartbeat(w, e) PROVE Releases
  BY <1>5, HeartbeatKind
<1>6. ASSUME NEW w \in Worker, NEW h \in held[w], NEW terminal \in BOOLEAN,
             FailWork(w, h, terminal) PROVE Releases
  BY <1>6, RefusedKind, FailKind DEF FailWork
<1>7. ASSUME NEW w \in Worker, NEW h \in held[w], NEW outs \in Outputs, NEW key \in RequestKey \cup {None},
             Commit(w, h, outs, key) PROVE StepKind
  <2>1. CASE CommitReplay(w, h)
    BY <2>1, DropShrinks DEF CommitReplay, run, slot, StepKind, Releases, SlotKept
  <2>2. CASE ~Replied(w, key) /\ state = "RUNNING" /\ CommitAccept(w, h, outs, key)
    <3>1. h \in HeldItem(DOMAIN attempts)
      BY <1>0
    <3> QED BY <2>2, <3>1, CommitKind DEF StepKind
  <2> QED BY <1>7, <2>1, <2>2, RefusedKind DEF Commit, StepKind
<1>8. CASE CancelRun
  BY <1>8 DEF CancelRun, StepKind, Releases
<1>9. CASE Tick
  <2>1. \A u \in DOMAIN claimed' : SlotKept(u)
    BY <1>9, TickTable DEF SlotKept
  <2> QED BY <1>9, <2>1 DEF Tick, run, StepKind, Releases
<1>10. ASSUME NEW w \in Worker, Crash(w) PROVE Releases
  BY <1>0, <1>10 DEF Crash, run, slot, Releases, SlotKept
<1>11. CASE UNCHANGED vars
  BY <1>11 DEF vars, StepKind, Releases, SlotKept
<1> QED BY <1>1, <1>2, <1>3, <1>4, <1>5, <1>6, <1>7, <1>8, <1>9, <1>10, <1>11 DEF AnyCall, StepKind
-----------------------------------------------------------------------------
(* Lineage and firings. *)

\* Derivation d delivered artifact a to binding i.
Feeds(d, i, a) ==
    /\ d.node = Binding[i].from
    /\ Binding[i].fromPort \in DOMAIN d.outputs
    /\ d.outputs[Binding[i].fromPort] = a

\* What LineageClosed rests on: everything in latest, and everything a claimed slot has
\* resolved from upstream, is in the derivations already.
LatestProduced ==
    \A n \in Node : \A p \in DOMAIN latest[n] : \E j \in DOMAIN derivations :
        /\ derivations[j].node = n
        /\ p \in DOMAIN derivations[j].outputs
        /\ derivations[j].outputs[p] = latest[n][p]
ClaimsProduced ==
    \A u \in DOMAIN claimed : \A i \in BindingsTo(claimed[u].node) :
        Binding[i].from # None =>
            \E j \in DOMAIN derivations : Feeds(derivations[j], i, claimed[u].inputs[i])
Lineage == LatestProduced /\ ClaimsProduced /\ LineageClosed

\* Unit u is the firing of node n on inputs ins.
FiringOf(u, n, ins) ==
    /\ u.node = n
    /\ EffectiveFiring(n) = "ONCE" => u = [firing |-> "ONCE", node |-> n, id |-> << >>]
    /\ EffectiveFiring(n) = "ONCE_PER_KEY" =>
         u = [firing |-> "ONCE_PER_KEY", node |-> n, id |-> InputKey(n, ins)]

\* What FiringIdentity rests on: the unit of a claim or derivation is the firing of its
\* node on the inputs it was resolved with, however those changed meanwhile.
FiringFollows ==
    /\ \A u \in DOMAIN claimed : FiringOf(u, claimed[u].node, claimed[u].inputs)
    /\ \A k \in DOMAIN derivations :
         FiringOf(derivations[k].unit, derivations[k].node, derivations[k].inputs)

\* A commit adds one derivation at the end.
LEMMA LogGrows ==
    ASSUME TypeOK, NEW d, derivations' = Append(derivations, d)
    PROVE  /\ Len(derivations) \in Nat
           /\ DOMAIN derivations = 1..Len(derivations)
           /\ DOMAIN derivations' = 1..(Len(derivations) + 1)
           /\ Len(derivations') = Len(derivations) + 1
           /\ \A k \in DOMAIN derivations : derivations'[k] = derivations[k]
           /\ derivations'[Len(derivations) + 1] = d
<1>1. derivations \in Seq(Derivation(done))
  BY TypeParts
<1>2. derivations \in Seq(Derivation(done) \cup {d})
  BY <1>1, SeqOver
<1> QED BY <1>2

\* A binding with a source node reads its latest output.
LEMMA DeliveredLatest ==
    ASSUME NEW n \in Node, Resolves(n), NEW i \in BindingsTo(n), Binding[i].from # None
    PROVE  /\ Binding[i].from \in Node
           /\ Binding[i].fromPort \in DOMAIN latest[Binding[i].from]
           /\ ResolveInputs(n)[i] = latest[Binding[i].from][Binding[i].fromPort]
<1>1. i \in BindingIndex /\ BindingResolves(i)
  BY DEF Resolves, BindingsTo
<1>2. Binding[i].from \in Node /\ Binding[i].input = None
  BY <1>1, BindingTyped, AssemblyAssumption
<1> QED BY <1>1, <1>2 DEF BindingResolves, ResolveInputs, Delivered

LEMMA LineageStep == TypeOK /\ Lineage /\ StepKind => Lineage'
<1> SUFFICES ASSUME TypeOK, Lineage, StepKind PROVE Lineage'
  OBVIOUS
<1>1. CASE Releases
  <2>1. UNCHANGED <<latest, derivations>> /\ \A u \in DOMAIN claimed' : SlotKept(u)
    BY <1>1 DEF Releases
  <2>2. LatestProduced' /\ LineageClosed'
    BY <2>1 DEF Lineage, LatestProduced, LineageClosed
  <2>3. ClaimsProduced'
    BY <2>1 DEF Lineage, ClaimsProduced, SlotKept, Feeds
  <2> QED BY <2>2, <2>3 DEF Lineage
<1>2. ASSUME NEW w \in Worker, NEW h \in HeldItem(DOMAIN attempts), NEW outs \in Outputs,
             Accepts(w, h, outs)
      PROVE  Lineage'
  <2> DEFINE d == Recorded(h, outs)
             n == claimed[h.unit].node
             len == Len(derivations)
  <2>1. /\ h.unit \in DOMAIN claimed
        /\ \A u \in DOMAIN claimed' : SlotKept(u)
        /\ latest' = [latest EXCEPT ![n] = outs]
        /\ derivations' = Append(derivations, d)
    BY <1>2 DEF Accepts
  <2>2. /\ len \in Nat /\ DOMAIN derivations = 1..len /\ DOMAIN derivations' = 1..(len + 1)
        /\ \A k \in DOMAIN derivations : derivations'[k] = derivations[k]
        /\ derivations'[len + 1] = d
    BY <2>1, LogGrows
  <2>3. d.node = n /\ d.outputs = outs /\ d.inputs = claimed[h.unit].inputs
    BY DEF Recorded
  <2>4. latest \in [Node -> Outputs]
    BY TypeParts
  <2> HIDE DEF d, n
  <2>5. LatestProduced'
    <3> SUFFICES ASSUME NEW m \in Node, NEW p \in DOMAIN latest'[m]
                 PROVE  \E j \in DOMAIN derivations' :
                            /\ derivations'[j].node = m
                            /\ p \in DOMAIN derivations'[j].outputs
                            /\ derivations'[j].outputs[p] = latest'[m][p]
      BY DEF LatestProduced
    <3>1. CASE m = n
      BY <2>1, <2>2, <2>3, <2>4, <3>1
    <3>2. CASE m # n
      <4>1. latest'[m] = latest[m]
        BY <2>1, <2>4, <3>2
      <4>2. PICK j \in DOMAIN derivations : /\ derivations[j].node = m
                                            /\ p \in DOMAIN derivations[j].outputs
                                            /\ derivations[j].outputs[p] = latest[m][p]
        BY <4>1 DEF Lineage, LatestProduced
      <4> QED BY <2>2, <4>1, <4>2
    <3> QED BY <3>1, <3>2
  <2>6. ClaimsProduced'
    <3> SUFFICES ASSUME NEW u \in DOMAIN claimed', NEW i \in BindingsTo(claimed'[u].node),
                        Binding[i].from # None
                 PROVE  \E j \in DOMAIN derivations' :
                            Feeds(derivations'[j], i, claimed'[u].inputs[i])
      BY DEF ClaimsProduced, Feeds, BindingsTo, BindingIndex
    <3>1. u \in DOMAIN claimed /\ claimed'[u].node = claimed[u].node
          /\ claimed'[u].inputs = claimed[u].inputs
      BY <2>1 DEF SlotKept
    <3>2. PICK j \in DOMAIN derivations : Feeds(derivations[j], i, claimed[u].inputs[i])
      BY <3>1 DEF Lineage, ClaimsProduced
    <3> QED BY <2>2, <3>1, <3>2
  <2>7. LineageClosed'
    <3> SUFFICES ASSUME NEW k \in DOMAIN derivations',
                        NEW i \in BindingsTo(derivations'[k].node), Binding[i].from # None
                 PROVE  \E j \in 1..(k - 1) :
                            Feeds(derivations'[j], i, derivations'[k].inputs[i])
      BY DEF LineageClosed, Feeds, BindingsTo, BindingIndex
    <3>1. CASE k \in DOMAIN derivations
      <4>1. PICK j \in 1..(k - 1) : Feeds(derivations[j], i, derivations[k].inputs[i])
        BY <2>2, <3>1 DEF Lineage, LineageClosed, Feeds
      <4>2. j \in DOMAIN derivations
        BY <2>2, <3>1
      <4> QED BY <2>2, <3>1, <4>1, <4>2
    <3>2. CASE k = len + 1
      <4>1. i \in BindingsTo(claimed[h.unit].node) /\ derivations'[k].inputs = claimed[h.unit].inputs
        BY <2>2, <2>3, <3>2 DEF n
      <4>2. PICK j \in DOMAIN derivations : Feeds(derivations[j], i, claimed[h.unit].inputs[i])
        BY <2>1, <4>1 DEF Lineage, ClaimsProduced
      <4>3. j \in 1..(k - 1)
        BY <2>2, <3>2
      <4> QED BY <2>2, <4>1, <4>2, <4>3
    <3> QED BY <2>2, <3>1, <3>2
  <2> QED BY <2>5, <2>6, <2>7 DEF Lineage
<1>3. ASSUME NEW w \in Worker, NEW take \in SUBSET Node, HandsOut(w, take)
      PROVE  Lineage'
  <2>1. /\ \A n \in take : Resolves(n)
        /\ \A u \in DOMAIN claimed' :
             IF u \in UnitsOf(take) THEN claimed'[u] = NewClaim(u.node) ELSE SlotKept(u)
        /\ UNCHANGED <<latest, derivations>>
    BY <1>3 DEF HandsOut
  <2>2. LatestProduced' /\ LineageClosed'
    BY <2>1 DEF Lineage, LatestProduced, LineageClosed
  <2>3. ClaimsProduced'
    <3> SUFFICES ASSUME NEW u \in DOMAIN claimed', NEW i \in BindingsTo(claimed'[u].node),
                        Binding[i].from # None
                 PROVE  \E j \in DOMAIN derivations : Feeds(derivations[j], i, claimed'[u].inputs[i])
      BY <2>1 DEF ClaimsProduced, Feeds, BindingsTo, BindingIndex
    <3>1. CASE u \in UnitsOf(take)
      <4>1. PICK n \in take : u = WorkUnitKey(n)
        BY <3>1 DEF UnitsOf
      <4>2. claimed'[u] = NewClaim(n)
        BY <2>1, <3>1, <4>1, UnitNode
      <4>3. claimed'[u].node = n /\ claimed'[u].inputs = ResolveInputs(n)
        BY <4>2 DEF NewClaim
      <4>4. /\ Binding[i].from \in Node
            /\ Binding[i].fromPort \in DOMAIN latest[Binding[i].from]
            /\ ResolveInputs(n)[i] = latest[Binding[i].from][Binding[i].fromPort]
        BY <2>1, <4>3, DeliveredLatest
      <4> QED BY <4>3, <4>4 DEF Lineage, LatestProduced, Feeds
    <3>2. CASE u \notin UnitsOf(take)
      BY <2>1, <3>2 DEF SlotKept, Lineage, ClaimsProduced
    <3> QED BY <3>1, <3>2
  <2> QED BY <2>2, <2>3 DEF Lineage
<1> QED BY <1>1, <1>2, <1>3 DEF StepKind

LEMMA InitLineage == Init => Lineage
<1> SUFFICES ASSUME Init PROVE Lineage
  OBVIOUS
<1>1. derivations = << >> /\ DOMAIN derivations = {} /\ DOMAIN claimed = {}
  BY DEF Init
<1>2. \A n \in Node : DOMAIN latest[n] = {}
  BY DEF Init, NoOutputs
<1> QED BY <1>1, <1>2 DEF Lineage, LatestProduced, ClaimsProduced, LineageClosed

LEMMA EngineLineage == Engine => []LineageClosed
<1>1. Lineage => LineageClosed
  BY DEF Lineage
<1> QED BY <1>1, InitLineage, LineageStep, StepKinds, EngineTyped, PTL DEF Engine

\* Lineage is closed: whatever is injected, reclaimed after a lapsed lease or committed in
\* which order, what a derivation says it consumed from an upstream node was recorded by
\* an earlier derivation of that node, on that port.
THEOREM ClosedLineage == Spec => []LineageClosed
BY SpecIsEngine, EngineLineage
-----------------------------------------------------------------------------
(* Firing identity. *)

\* The unit before a node is the firing of the node on the inputs it resolves to.
LEMMA PresentFiring == \A n : FiringOf(WorkUnitKey(n), n, ResolveInputs(n))
<1> SUFFICES ASSUME NEW n PROVE FiringOf(WorkUnitKey(n), n, ResolveInputs(n))
  OBVIOUS
<1>1. CASE EffectiveFiring(n) = "ONCE"
  BY <1>1 DEF FiringOf, WorkUnitKey
<1>2. CASE EffectiveFiring(n) = "ONCE_PER_KEY"
  BY <1>2 DEF FiringOf, WorkUnitKey
<1>3. CASE EffectiveFiring(n) \notin {"ONCE", "ONCE_PER_KEY"}
  BY <1>3 DEF FiringOf, WorkUnitKey
<1> QED BY <1>1, <1>2, <1>3

LEMMA FiringStep == TypeOK /\ FiringFollows /\ StepKind => FiringFollows'
<1> SUFFICES ASSUME TypeOK, FiringFollows, StepKind PROVE FiringFollows'
  OBVIOUS
<1>0. \A u, n, ins : FiringOf(u, n, ins)' = FiringOf(u, n, ins)
  BY DEF FiringOf, EffectiveFiring, InputKey, KeyBindings, BindingsTo, BindingIndex
<1> HIDE DEF FiringOf
<1>1. CASE Releases
  BY <1>0, <1>1 DEF Releases, SlotKept, FiringFollows
<1>2. ASSUME NEW w \in Worker, NEW h \in HeldItem(DOMAIN attempts), NEW outs \in Outputs,
             Accepts(w, h, outs)
      PROVE  FiringFollows'
  <2> DEFINE d == Recorded(h, outs)
             len == Len(derivations)
  <2>1. /\ h.unit \in DOMAIN claimed
        /\ \A u \in DOMAIN claimed' : SlotKept(u)
        /\ derivations' = Append(derivations, d)
    BY <1>2 DEF Accepts
  <2>2. /\ len \in Nat /\ DOMAIN derivations = 1..len /\ DOMAIN derivations' = 1..(len + 1)
        /\ \A k \in DOMAIN derivations : derivations'[k] = derivations[k]
        /\ derivations'[len + 1] = d
    BY <2>1, LogGrows
  <2>3. FiringOf(d.unit, d.node, d.inputs)
    BY <2>1 DEF Recorded, FiringFollows
  <2> HIDE DEF d
  <2>4. \A k \in DOMAIN derivations' :
          FiringOf(derivations'[k].unit, derivations'[k].node, derivations'[k].inputs)
    <3> SUFFICES ASSUME NEW k \in DOMAIN derivations'
                 PROVE  FiringOf(derivations'[k].unit, derivations'[k].node, derivations'[k].inputs)
      OBVIOUS
    <3>1. k \in DOMAIN derivations \/ k = len + 1
      BY <2>2
    <3> QED BY <2>2, <2>3, <3>1 DEF FiringFollows
  <2>5. \A u \in DOMAIN claimed' : FiringOf(u, claimed'[u].node, claimed'[u].inputs)
    BY <2>1 DEF SlotKept, FiringFollows
  <2> QED BY <1>0, <2>4, <2>5 DEF FiringFollows
<1>3. ASSUME NEW w \in Worker, NEW take \in SUBSET Node, HandsOut(w, take)
      PROVE  FiringFollows'
  <2>1. /\ \A u \in DOMAIN claimed' :
             IF u \in UnitsOf(take) THEN claimed'[u] = NewClaim(u.node) ELSE SlotKept(u)
        /\ UNCHANGED derivations
    BY <1>3 DEF HandsOut
  <2>2. ASSUME NEW u \in DOMAIN claimed'
        PROVE  FiringOf(u, claimed'[u].node, claimed'[u].inputs)
    <3>1. CASE u \in UnitsOf(take)
      <4>1. PICK n \in take : u = WorkUnitKey(n)
        BY <3>1 DEF UnitsOf
      <4>2. claimed'[u] = NewClaim(n)
        BY <2>1, <3>1, <4>1, UnitNode
      <4>3. claimed'[u].node = n /\ claimed'[u].inputs = ResolveInputs(n)
        BY <4>2 DEF NewClaim
      <4> QED BY <4>1, <4>3, PresentFiring
    <3>2. CASE u \notin UnitsOf(take)
      BY <2>1, <3>2 DEF SlotKept, FiringFollows
    <3> QED BY <3>1, <3>2
  <2> QED BY <1>0, <2>1, <2>2 DEF FiringFollows
<1> QED BY <1>1, <1>2, <1>3 DEF StepKind

LEMMA InitFiring == Init => FiringFollows
BY DEF Init, FiringFollows

\* Distinct units, and the firings they are, give the firing policy.
LEMMA FiringsDiffer == FiringFollows /\ CommittedOnce => FiringIdentity
<1> SUFFICES ASSUME FiringFollows, CommittedOnce,
                    NEW j \in DOMAIN derivations, NEW k \in DOMAIN derivations, j # k,
                    derivations[k].node = derivations[j].node
             PROVE  LET n == derivations[j].node IN
                    /\ EffectiveFiring(n) # "ONCE"
                    /\ EffectiveFiring(n) = "ONCE_PER_KEY" =>
                         InputKey(n, derivations[j].inputs) # InputKey(n, derivations[k].inputs)
  BY DEF FiringIdentity
<1> DEFINE n == derivations[j].node
<1>1. derivations[j].unit # derivations[k].unit
  BY DEF CommittedOnce
<1>2. /\ FiringOf(derivations[j].unit, n, derivations[j].inputs)
      /\ FiringOf(derivations[k].unit, n, derivations[k].inputs)
  BY DEF FiringFollows
<1> HIDE DEF n
<1>3. /\ EffectiveFiring(n) # "ONCE"
      /\ EffectiveFiring(n) = "ONCE_PER_KEY" =>
            InputKey(n, derivations[j].inputs) # InputKey(n, derivations[k].inputs)
  BY <1>1, <1>2 DEF FiringOf
<1> QED BY <1>3 DEF n

LEMMA EngineFirings == Engine => []FiringIdentity
BY InitFiring, FiringStep, StepKinds, EngineTyped, EngineDiscipline, FiringsDiffer, PTL DEF Engine

\* The firing policy holds whatever is injected and however claims lapse and are handed
\* out again: a ONCE node commits once in a run, an ONCE_PER_KEY node never twice for the
\* same key artifacts, although the inputs of a claim may be stale when it is committed.
THEOREM FiringPolicy == Spec => []FiringIdentity
BY SpecIsEngine, EngineFirings
-----------------------------------------------------------------------------
(* The answer, and the replies the idempotency table keeps. *)

Answering == {k \in DOMAIN derivations : Answers(derivations[k].node, derivations[k].outputs)}

LEMMA AnswerStep == TypeOK /\ AnswerProvenance /\ StepKind => AnswerProvenance'
<1> SUFFICES ASSUME TypeOK, AnswerProvenance, StepKind PROVE AnswerProvenance'
  OBVIOUS
<1>0. /\ Answering = {} => answer = None
      /\ \A k \in Answering : (\A j \in Answering : j <= k) =>
            answer = derivations[k].outputs[TerminalPort]
      /\ ~Open => (state = "COMPLETED" <=> Answering # {})
  BY DEF AnswerProvenance, Answering
<1>1. CASE UNCHANGED <<answer, derivations>> /\ (state' = "COMPLETED" <=> state = "COMPLETED")
  <2>1. Answering' = Answering
    BY <1>1 DEF Answering, Answers
  <2> QED BY <1>0, <1>1, <2>1 DEF AnswerProvenance, Answering
<1>2. ASSUME NEW w \in Worker, NEW h \in HeldItem(DOMAIN attempts), NEW outs \in Outputs,
             Accepts(w, h, outs)
      PROVE  AnswerProvenance'
  <2> DEFINE d == Recorded(h, outs)
             n == claimed[h.unit].node
             len == Len(derivations)
  <2>1. /\ state = "RUNNING"
        /\ derivations' = Append(derivations, d)
        /\ answer' = IF Answers(n, outs) THEN outs[TerminalPort] ELSE answer
        /\ ~Open => (state' = "COMPLETED" <=> Answers(n, outs))
    BY <1>2 DEF Accepts, StateAfterCommit
  <2>2. /\ len \in Nat /\ DOMAIN derivations = 1..len /\ DOMAIN derivations' = 1..(len + 1)
        /\ \A k \in DOMAIN derivations : derivations'[k] = derivations[k]
        /\ derivations'[len + 1] = d
    BY <2>1, LogGrows
  <2>3. d.node = n /\ d.outputs = outs
    BY DEF Recorded
  <2> HIDE DEF d, n
  <2>4. Answering' = Answering \cup (IF Answers(n, outs) THEN {len + 1} ELSE {})
    BY <2>2, <2>3 DEF Answering, Answers
  <2>5. CASE Answers(n, outs)
    <3>1. \A k \in Answering' : (\A j \in Answering' : j <= k) => k = len + 1
      BY <2>2, <2>4, <2>5 DEF Answering
    <3>2. answer' = derivations'[len + 1].outputs[TerminalPort]
      BY <2>1, <2>2, <2>3, <2>5
    <3>3. Answering' # {}
      BY <2>4, <2>5
    <3> QED BY <2>1, <2>5, <3>1, <3>2, <3>3 DEF AnswerProvenance, Answering
  <2>6. CASE ~Answers(n, outs)
    <3>1. Answering' = Answering /\ answer' = answer
      BY <2>1, <2>4, <2>6
    <3>2. \A k \in Answering : derivations'[k] = derivations[k]
      BY <2>2 DEF Answering
    <3>3. ~Open => state' # "COMPLETED" /\ Answering = {}
      BY <1>0, <2>1, <2>6
    <3> QED BY <1>0, <3>1, <3>2, <3>3 DEF AnswerProvenance, Answering
  <2> QED BY <2>5, <2>6
<1> QED BY <1>1, <1>2 DEF StepKind, Releases, HandsOut

LEMMA InitAnswer == Init => AnswerProvenance
BY DEF Init, AnswerProvenance

LEMMA EngineAnswer == Engine => []AnswerProvenance
BY InitAnswer, AnswerStep, StepKinds, EngineTyped, PTL DEF Engine

\* The answer of a run is the terminal output of the last derivation that has one, and a
\* FIRST_TERMINAL run is COMPLETED exactly when there is one: neither the budget nor a
\* stall nor a cancellation that comes with the answer takes its place.
THEOREM AnswerFollowsLog == Spec => []AnswerProvenance
BY SpecIsEngine, EngineAnswer

LEMMA RepliesStep == TypeOK /\ RepliesAreCommits /\ StepKind => RepliesAreCommits'
<1> SUFFICES ASSUME TypeOK, RepliesAreCommits, StepKind PROVE RepliesAreCommits'
  OBVIOUS
<1>1. CASE UNCHANGED <<cached, derivations>>
  BY <1>1 DEF RepliesAreCommits
<1>2. ASSUME NEW w \in Worker, NEW h \in HeldItem(DOMAIN attempts), NEW outs \in Outputs,
             Accepts(w, h, outs)
      PROVE  RepliesAreCommits'
  <2> DEFINE d == Recorded(h, outs)
             len == Len(derivations)
  <2>1. derivations' = Append(derivations, d) /\ KeepsReply(w)
    BY <1>2 DEF Accepts
  <2>2. /\ len \in Nat /\ DOMAIN derivations = 1..len /\ DOMAIN derivations' = 1..(len + 1)
        /\ Len(derivations') = len + 1
    BY <2>1, LogGrows
  <2>3. CASE cached' = cached
    BY <2>2, <2>3 DEF RepliesAreCommits
  <2>4. ASSUME NEW key \in RequestKey \ {None}, ~Replied(w, key),
               cached' = cached \cup {Reply(w, key, Len(derivations'))}
        PROVE  RepliesAreCommits'
    <3> DEFINE new == Reply(w, key, len + 1)
    <3>1. cached' = cached \cup {new}
      BY <2>2, <2>4
    <3>2. new.caller = w /\ new.key = key /\ new.derivation = len + 1
      BY DEF Reply
    <3>3. \A c \in cached : c.derivation \in 1..len /\ ~(c.caller = w /\ c.key = key)
      BY <2>2, <2>4 DEF RepliesAreCommits, Replied
    <3>4. \A c \in cached : c.derivation # len + 1
      BY <2>2, <3>3
    <3> HIDE DEF new
    <3>5. \A c \in cached' : c.derivation \in DOMAIN derivations'
      BY <2>2, <3>1, <3>2, <3>3
    <3>6. \A c, e \in cached' :
            ((c.caller = e.caller /\ c.key = e.key) \/ c.derivation = e.derivation) => c = e
      BY <3>1, <3>2, <3>3, <3>4 DEF RepliesAreCommits
    <3> QED BY <3>5, <3>6 DEF RepliesAreCommits
  <2> QED BY <2>1, <2>3, <2>4 DEF KeepsReply
<1> QED BY <1>1, <1>2 DEF StepKind, Releases, HandsOut

LEMMA InitReplies == Init => RepliesAreCommits
BY DEF Init, RepliesAreCommits

LEMMA EngineReplies == Engine => []RepliesAreCommits
BY InitReplies, RepliesStep, StepKinds, EngineTyped, PTL DEF Engine

\* A commit answered from the idempotency table repeats the reply of one recorded derivation,
\* the first under that caller and key: no reply of a commit that was refused, or lost with its
\* lease, is ever kept, and no derivation is kept under two keys.
THEOREM KeptReplies == Spec => []RepliesAreCommits
BY SpecIsEngine, EngineReplies
=============================================================================
