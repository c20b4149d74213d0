----------------------------- MODULE HostProofs -----------------------------
(***************************************************************************)
(* Proofs about the Host: each of its steps is a call of the kernel or     *)
(* none, so what the kernel promises holds under it; and its own state     *)
(* agrees with what the kernel handed out and accepted.                    *)
(***************************************************************************)
EXTENDS HostProperties, RunLimitsProofs

\* A work item the Host has been handed, without the bound on its attempt.
Work(i, units) ==
    /\ i \in [unit : units, attempt : Nat \ {0}, node : Node,
              inputs : [BindingsTo(i.node) -> Artifact], ok : BOOLEAN]
    /\ i.unit.node = i.node

\* The Host's thread: what it works on is what the kernel handed it, one item per node.
Thread ==
    /\ \A i \in wave \cup deferred : Work(i, DOMAIN attempts)
    /\ \A i, j \in wave \cup deferred : i.node = j.node => i = j
    /\ wave \cap deferred = {}
    /\ pc \in {"idle", "poll", "claim", "items", "execute", "finish", "check", "error"}
    /\ pc \in {"idle", "poll", "claim", "check"} =>
         wave = {} /\ deferred = {} /\ held[Driver] = {}
    /\ pc = "items" => wave # {}
    /\ pc \in {"execute", "finish"} => deferred # {}
    /\ {Claim(i) : i \in wave \cup deferred} \subseteq held[Driver]
    /\ pc # "error" => held[Driver] \subseteq {Claim(i) : i \in wave \cup deferred}

\* The Host's stores.
Side ==
    /\ policy \in Policies \cup {None}
    /\ memo \in [DOMAIN memo -> Outputs]
    /\ plugins \in PluginSets /\ build \in Current
    /\ present \subseteq Artifact /\ breaks \in 0..MaxBreaks
    /\ runTables \subseteq DOMAIN tables
    /\ DOMAIN tables \subseteq SharedTable \cup RunTable

\* Units are units of nodes.
UnitsNamed == \A u \in DOMAIN attempts : u.node \in Node

HostInv == TypeOK /\ UnitsNamed /\ Thread /\ Side

-----------------------------------------------------------------------------
(* Items *)

LEMMA Least ==
    ASSUME NEW S, S \subseteq Nat, S # {}
    PROVE  \E x \in S : \A y \in S : x <= y
<1>1. PICK x \in S : \A y \in S : ~ (<<y, x>> \in OpToRel(<, Nat))
  BY NatLessThanWellFounded, WFMin
<1>2. \A y \in S : ~(y < x)
  BY <1>1 DEF OpToRel
<1>3. x \in Nat /\ \A y \in S : y \in Nat
  OBVIOUS
<1>4. \A y \in S : x <= y
  BY <1>2, <1>3
<1> QED BY <1>4

\* The item the Host takes next is one it has.
LEMMA FirstIn ==
    ASSUME NEW S, S # {}, \A i \in S : i.node \in Node
    PROVE  First(S) \in S
<1> DEFINE R == {NodeOrder[i.node] : i \in S}
<1>1. R \subseteq Nat /\ R # {}
  BY AssemblyAssumption
<1>2. PICK x \in R : \A y \in R : x <= y
  BY <1>1, Least
<1>3. \E i \in S : \A j \in S : NodeOrder[i.node] <= NodeOrder[j.node]
  BY <1>2
<1> QED BY <1>3 DEF First

\* What an item remains when the kernel hands out more.
LEMMA WorkGrows ==
    ASSUME NEW S, NEW T, S \subseteq T, NEW i, Work(i, S)
    PROVE  Work(i, T)
BY DEF Work

\* Different items are different claims.
LEMMA ClaimsDiffer ==
    ASSUME Thread, NEW i \in wave \cup deferred, NEW j \in wave \cup deferred, Claim(i) = Claim(j)
    PROVE  i = j
<1>1. i.unit = j.unit
  BY DEF Claim
<1>2. i.unit.node = i.node /\ j.unit.node = j.node
  BY DEF Thread, Work
<1> QED BY <1>1, <1>2 DEF Thread

-----------------------------------------------------------------------------
(* What the kernel's answers do to the Host's items *)

LEMMA AttemptsGrow ==
    ASSUME TypeOK, UnitsNamed, [AnyCall]_vars
    PROVE  DOMAIN attempts \subseteq DOMAIN attempts' /\ UnitsNamed'
<1>1. StepKind
  BY StepKinds
<1>2. CASE attempts' = attempts
  BY <1>2 DEF UnitsNamed
<1>3. ASSUME NEW w \in Worker, NEW take \in SUBSET Node, HandsOut(w, take)
      PROVE  DOMAIN attempts \subseteq DOMAIN attempts' /\ UnitsNamed'
  <2>1. DOMAIN attempts' = DOMAIN attempts \cup UnitsOf(take)
    BY <1>3 DEF HandsOut
  <2>2. \A u \in UnitsOf(take) : u.node \in Node
    BY UnitNode DEF UnitsOf
  <2> QED BY <2>1, <2>2 DEF UnitsNamed
<1> QED BY <1>1, <1>2, <1>3 DEF StepKind, Releases, Accepts

\* A claim of a Host that holds nothing: the items are what it holds now.
LEMMA HandedItems ==
    ASSUME TypeOK, held[Driver] = {}, NEW filter \in SUBSET Node, NEW k, ClaimReady(Driver, filter, k)
    PROVE  /\ \A i \in HandedOut : Work(i, DOMAIN attempts')
           /\ \A i, j \in HandedOut : i.node = j.node => i = j
           /\ {Claim(i) : i \in HandedOut} = held'[Driver]
           /\ \A i \in HandedOut : Resolves(i.node) /\ i.inputs = ResolveInputs(i.node)
<1> DEFINE cl == Live(claimed)
           dn == done \cup Exhausted(claimed)
           cand == {n \in filter : ReadyIn(n, cl, dn)}
<1>1. PICK take \in SUBSET cand :
        LET new == [u \in UnitsOf(take) |-> NewClaim(u.node)] IN
        /\ claimed' = [u \in DOMAIN cl \cup UnitsOf(take) |->
                         IF u \in UnitsOf(take) THEN new[u] ELSE cl[u]]
        /\ attempts' = [u \in DOMAIN attempts \cup UnitsOf(take) |->
                         IF u \in UnitsOf(take) THEN new[u].attempt ELSE attempts[u]]
        /\ held' = [held EXCEPT ![Driver] =
                     @ \cup {[unit |-> u, attempt |-> new[u].attempt] : u \in UnitsOf(take)}]
  BY DEF ClaimReady
<1>2. take \subseteq Node /\ \A n \in take : Resolves(n)
  BY DEF ReadyIn
<1>3. \A u \in UnitsOf(take) : claimed'[u] = NewClaim(u.node) /\ u \in DOMAIN attempts'
  BY <1>1
<1>4. held'[Driver] = {[unit |-> u, attempt |-> NewClaim(u.node).attempt] : u \in UnitsOf(take)}
  <2>1. held \in [Worker -> SUBSET HeldItem(DOMAIN attempts)] /\ Driver \in Worker
    BY HostAssumption DEF TypeOK, HeldItem
  <2> QED BY <1>1, <2>1
<1>5. \A u \in UnitsOf(take) : u.node \in take /\ u = WorkUnitKey(u.node)
  BY UnitNode DEF UnitsOf
<1>6. \A n \in take : NewClaim(n).inputs \in [BindingsTo(n) -> Artifact] /\ NewClaim(n).attempt \in Nat \ {0}
  <2> SUFFICES ASSUME NEW n \in take
               PROVE  NewClaim(n).inputs \in [BindingsTo(n) -> Artifact] /\ NewClaim(n).attempt \in Nat \ {0}
    OBVIOUS
  <2>1. NewClaim(n).inputs = ResolveInputs(n)
    BY DEF NewClaim
  <2>2. NewClaim(n) \in ClaimRecord
    BY <1>2, NewClaimTyped
  <2> QED BY <1>2, <2>1, <2>2, ResolvedInputs DEF ClaimRecord
<1> HIDE DEF cl, dn, cand
<1> DEFINE item(u) == [unit |-> u, attempt |-> NewClaim(u.node).attempt, node |-> u.node,
                       inputs |-> NewClaim(u.node).inputs, ok |-> TRUE]
<1> DEFINE got(u) == [unit |-> u, attempt |-> NewClaim(u.node).attempt]
           made(h) == [unit |-> h.unit, attempt |-> h.attempt, node |-> h.unit.node,
                       inputs |-> claimed'[h.unit].inputs, ok |-> TRUE]
<1>a. held'[Driver] = {got(u) : u \in UnitsOf(take)}
  BY <1>4
<1>b. \A u \in UnitsOf(take) : made(got(u)) = item(u)
  BY <1>3
<1>c. HandedOut = {made(h) : h \in held'[Driver]}
  BY DEF HandedOut
<1>d. \A u : Claim(item(u)) = got(u)
  BY DEF Claim
<1> HIDE DEF got, made, item
<1>7. HandedOut = {item(u) : u \in UnitsOf(take)}
  BY <1>a, <1>b, <1>c
<1> USE DEF item
<1>8. \A u \in UnitsOf(take) : Work(item(u), DOMAIN attempts')
  BY <1>2, <1>3, <1>5, <1>6 DEF Work
<1>9. \A u, v \in UnitsOf(take) : item(u).node = item(v).node => item(u) = item(v)
  BY <1>5
<1>10. {Claim(i) : i \in HandedOut} = held'[Driver]
  <2> HIDE DEF item
  <2> QED BY <1>a, <1>d, <1>7
<1>11. \A u \in UnitsOf(take) : /\ Resolves(item(u).node)
                               /\ item(u).inputs = ResolveInputs(item(u).node)
  BY <1>2, <1>5 DEF NewClaim
<1> HIDE DEF item
<1> QED BY <1>7, <1>8, <1>9, <1>10, <1>11

-----------------------------------------------------------------------------
(* The Host's thread, for the steps that hand out nothing new *)

\* What is left of the items is still work, one item per node.
LEMMA FewerItems ==
    ASSUME Thread, DOMAIN attempts \subseteq DOMAIN attempts',
           wave' \subseteq wave, deferred' \subseteq wave \cup deferred, wave' \cap deferred' = {}
    PROVE  /\ \A i \in wave' \cup deferred' : Work(i, DOMAIN attempts')
           /\ \A i, j \in wave' \cup deferred' : i.node = j.node => i = j
BY WorkGrows DEF Thread

\* A name for what Thread says of pc, so that it is opened only where pc moves.
LEMMA ThreadKept ==
    ASSUME Thread, DOMAIN attempts \subseteq DOMAIN attempts',
           UNCHANGED <<wave, deferred, pc>>, held'[Driver] = held[Driver]
    PROVE  Thread'
<1>1. \A i \in wave' \cup deferred' : Work(i, DOMAIN attempts')
  BY WorkGrows DEF Thread
<1>2. \A i \in wave' \cup deferred' : Claim(i)' = Claim(i)
  BY DEF Claim
<1> QED BY <1>1, <1>2 DEF Thread, Claim

-----------------------------------------------------------------------------
(* The Host's stores *)

LEMMA PolicyTyped ==
    ASSUME Side, policy # None
    PROVE  policy \in Policy /\ policy \in Policies
BY HostAssumption DEF Side

LEMMA TableNames ==
    ASSUME NEW p
    PROVE  /\ LogTable(p) \in SharedTable \cup RunTable
           /\ \A m \in Module : ModuleTable(p, m) \in SharedTable \cup RunTable
BY DEF LogTable, ModuleTable, SharedTable, RunTable

\* The tables ensure_run_storage asks for have names of tables.
LEMMA TablesNamed ==
    ASSUME NEW p, Side
    PROVE  TablesOf(p) \subseteq SharedTable \cup RunTable
BY TableNames, HostAssumption DEF TablesOf

LEMMA EnsuredDomain ==
    ASSUME NEW tb, NEW ts
    PROVE  DOMAIN Ensured(tb, ts) = DOMAIN tb \cup ts
BY DEF Ensured

LEMMA WrittenDomain ==
    ASSUME NEW tb, NEW t, NEW mode, NEW row
    PROVE  DOMAIN Written(tb, t, mode, row) = DOMAIN tb
BY DEF Written

\* What StoreRows may do: a step log may appear, no table goes, one failure more at most.
LEMMA RowsStored ==
    ASSUME Side, NEW item, NEW ok, NEW next, NEW failed, StoreRows(item, ok, next, failed)
    PROVE  /\ DOMAIN tables \subseteq DOMAIN tables'
           /\ DOMAIN tables' \subseteq SharedTable \cup RunTable
           /\ breaks' \in 0..MaxBreaks
           /\ pc' \in {next, failed}
<1>1. PICK r \in StorageResults(item, ok) :
        /\ tables' = r.tables
        /\ breaks' = (IF r.ok THEN breaks ELSE breaks + 1)
        /\ pc' = (IF r.ok THEN next ELSE failed)
  BY DEF StoreRows
<1>2. breaks \in 0..MaxBreaks /\ MaxBreaks \in Nat /\ DOMAIN tables \subseteq SharedTable \cup RunTable
  BY HostAssumption DEF Side
<1>3. CASE policy = None
  <2>1. r = [tables |-> tables, ok |-> TRUE]
    BY <1>3 DEF StorageResults
  <2> QED BY <1>1, <1>2, <2>1
<1>4. CASE policy # None
  <2> DEFINE m == ModuleOf[item.node]
             hasTable == HasModuleTables(policy) /\ m \in Schemas
             afterModule == IF ~hasTable THEN tables
                            ELSE Written(tables, ModuleTable(policy, m), policy.write, Row(item, ok))
             afterLog == IF ~policy.log THEN afterModule
                         ELSE Written(Ensured(afterModule, {LogTable(policy)}),
                                      LogTable(policy), "APPEND", Row(item, ok))
             broken == (IF hasTable THEN {tables} ELSE {})
                         \cup (IF policy.log THEN {afterModule} ELSE {})
  <2>1. r \in {[tables |-> afterLog, ok |-> TRUE]}
               \cup (IF breaks < MaxBreaks THEN {[tables |-> t, ok |-> FALSE] : t \in broken}
                     ELSE {})
    BY <1>4 DEF StorageResults
  <2>2. DOMAIN afterModule = DOMAIN tables
    BY WrittenDomain
  <2>3. DOMAIN tables \subseteq DOMAIN afterLog /\ DOMAIN afterLog \subseteq DOMAIN tables \cup {LogTable(policy)}
    <3> DEFINE ensured == Ensured(afterModule, {LogTable(policy)})
               logged == Written(ensured, LogTable(policy), "APPEND", Row(item, ok))
    <3>1. DOMAIN ensured = DOMAIN afterModule \cup {LogTable(policy)}
      BY EnsuredDomain
    <3>2. DOMAIN logged = DOMAIN ensured
      BY WrittenDomain
    <3>3. afterLog = IF ~policy.log THEN afterModule ELSE logged
      OBVIOUS
    <3> HIDE DEF afterModule, ensured, logged, afterLog
    <3> QED BY <2>2, <3>1, <3>2, <3>3
  <2>4. \A t \in broken : t = tables \/ t = afterModule
    OBVIOUS
  <2> HIDE DEF afterModule, afterLog, broken
  <2>5. \/ r.tables = afterLog /\ r.ok
        \/ breaks < MaxBreaks /\ r.tables \in broken /\ ~r.ok
    BY <2>1
  <2>6. DOMAIN tables \subseteq DOMAIN r.tables /\ DOMAIN r.tables \subseteq SharedTable \cup RunTable
    BY <1>2, <2>2, <2>3, <2>4, <2>5, TableNames
  <2>7. breaks' \in 0..MaxBreaks
    BY <1>1, <1>2, <2>5
  <2> QED BY <1>1, <2>6, <2>7
<1> QED BY <1>3, <1>4

\* finish_run_storage takes tables away, and forgets the ones it might have taken.
LEMMA StorageFinished ==
    ASSUME Side, FinishRunStorage
    PROVE  /\ policy' = None /\ runTables' = {}
           /\ DOMAIN tables' \subseteq SharedTable \cup RunTable
BY DEF Side, FinishRunStorage

-----------------------------------------------------------------------------
(* The Host's commit *)

LEMMA DriverDrop ==
    ASSUME TypeOK, NEW h
    PROVE  Drop(Driver, h)[Driver] = held[Driver] \ {h}
<1>1. held \in [Worker -> SUBSET HeldItem(DOMAIN attempts)] /\ Driver \in Worker
  BY HostAssumption, TypeParts
<1> QED BY <1>1 DEF Drop

\* An accepted commit is a commit of the kernel, and its item is given up.
LEMMA AcceptedCommit ==
    ASSUME TypeOK, NEW h \in held[Driver], NEW outs \in Outputs, state = "RUNNING",
           CommitAccept(Driver, h, outs, None), held' = Drop(Driver, h)
    PROVE  AnyCall /\ held'[Driver] = held[Driver] \ {h}
<1>1. Commit(Driver, h, outs, None)
  BY DEF Commit, Replied
<1> QED BY <1>1, DriverDrop, HostAssumption DEF AnyCall

\* A refused one is a commit of the kernel too, or no step of it.
LEMMA RefusedCommit ==
    ASSUME TypeOK, NEW item, Claim(item) \in held[Driver], NEW outs \in Outputs,
           CommitRefused(item, outs)
    PROVE  /\ [AnyCall]_vars
           /\ held'[Driver] \in {held[Driver], held[Driver] \ {Claim(item)}}
           /\ UNCHANGED derivations
<1>1. CASE UNCHANGED vars
  BY <1>1 DEF vars
<1>2. CASE state = "RUNNING" /\ NotClaimed(Driver, Claim(item))
  <2>1. Commit(Driver, Claim(item), outs, None)
    BY <1>2 DEF Commit, Replied
  <2> QED BY <1>2, <2>1, DriverDrop, HostAssumption DEF AnyCall, NotClaimed
<1>3. CASE state = "RUNNING" /\ CommitInvalid(Driver, Claim(item), outs)
  <2>1. Commit(Driver, Claim(item), outs, None)
    BY <1>3 DEF Commit, Replied
  <2>2. held' \in {held, Drop(Driver, Claim(item))} /\ UNCHANGED derivations
    BY <1>3 DEF CommitInvalid
  <2> QED BY <2>1, <2>2, DriverDrop, HostAssumption DEF AnyCall
<1> QED BY <1>1, <1>2, <1>3 DEF CommitRefused

\* A backend that fails once more.
LEMMA OneMoreBreak ==
    ASSUME Side, BackendFails
    PROVE  breaks' = breaks + 1 /\ breaks' \in 0..MaxBreaks /\ breaks' # 0
BY HostAssumption DEF Side, BackendFails

\* Storing the memo entry and the rows of a step, or failing at either.
LEMMA StepStored ==
    ASSUME Side, NEW item, NEW outs, NEW puts, NEW next, StoreStep(item, outs, puts, next)
    PROVE  /\ DOMAIN tables \subseteq DOMAIN tables'
           /\ DOMAIN tables' \subseteq SharedTable \cup RunTable
           /\ breaks' \in 0..MaxBreaks
           /\ pc' \in {next, "error"}
           /\ memo' \in {memo, MemoAfter(item, outs, puts)}
<1>1. CASE memo' = MemoAfter(item, outs, puts) /\ StoreRows(item, TRUE, next, "error")
  BY <1>1, RowsStored
<1>2. CASE BackendFails /\ pc' = "error" /\ UNCHANGED <<memo, tables>>
  BY <1>2, OneMoreBreak DEF Side
<1> QED BY <1>1, <1>2 DEF StoreStep

\* What HostCommit does: accepted, the thread goes on (or fails to store something); refused,
\* the drive ends with an error.
LEMMA HostCommitted ==
    ASSUME TypeOK, Side, NEW item, Claim(item) \in held[Driver], NEW outs \in Outputs,
           NEW puts, NEW next, HostCommit(item, outs, puts, next)
    PROVE  /\ [AnyCall]_vars
           /\ held'[Driver] \subseteq held[Driver]
           /\ held[Driver] \ {Claim(item)} \subseteq held'[Driver]
           /\ \/ pc' = "error"
              \/ /\ pc' = next
                 /\ held'[Driver] = held[Driver] \ {Claim(item)}
                 /\ mine' = mine \cup {item.unit}
           /\ mine \subseteq mine' /\ shown' = shown \cup {item.unit}
           /\ memo' \in {memo, MemoAfter(item, outs, puts)}
           /\ DOMAIN tables \subseteq DOMAIN tables'
           /\ DOMAIN tables' \subseteq SharedTable \cup RunTable
           /\ breaks' \in 0..MaxBreaks
           /\ UNCHANGED <<policy, runTables>>
<1>0. shown' = shown \cup {item.unit} /\ UNCHANGED <<policy, runTables>>
  BY DEF HostCommit
<1>1. CASE /\ state = "RUNNING"
           /\ CommitAccept(Driver, Claim(item), outs, None)
           /\ held' = Drop(Driver, Claim(item))
           /\ mine' = mine \cup {item.unit}
           /\ StoreStep(item, outs, puts, next)
  <2>1. AnyCall /\ held'[Driver] = held[Driver] \ {Claim(item)}
    BY <1>1, AcceptedCommit
  <2>2. /\ DOMAIN tables \subseteq DOMAIN tables'
        /\ DOMAIN tables' \subseteq SharedTable \cup RunTable
        /\ breaks' \in 0..MaxBreaks
        /\ pc' \in {next, "error"}
        /\ memo' \in {memo, MemoAfter(item, outs, puts)}
    BY <1>1, StepStored
  <2> QED BY <1>0, <1>1, <2>1, <2>2
<1>2. CASE CommitRefused(item, outs) /\ pc' = "error" /\ UNCHANGED <<tables, breaks, memo, mine>>
  <2>1. [AnyCall]_vars /\ held'[Driver] \in {held[Driver], held[Driver] \ {Claim(item)}}
    BY <1>2, RefusedCommit
  <2> QED BY <1>0, <1>2, <2>1 DEF Side
<1> QED BY <1>1, <1>2 DEF HostCommit

-----------------------------------------------------------------------------
(* Each action keeps the Host's state in order, and is a call of the kernel or none *)

Kept == [AnyCall]_vars /\ Thread' /\ Side'

\* Steps between drives and at their ends: the Host holds nothing, before and after.
LEMMA AtRest ==
    ASSUME HostInv, [AnyCall]_vars, held'[Driver] = {}, wave' = {}, deferred' = {},
           pc' \in {"idle", "poll", "claim", "check", "error"}
    PROVE  Thread'
BY DEF Thread

LEMMA StartKept == ASSUME HostInv, NEW p \in Policies, StartPipeline(p) PROVE Kept
<1>1. StartRun /\ UNCHANGED held
  BY DEF StartPipeline, StartRun
<1>2. AnyCall
  BY <1>1 DEF AnyCall
<1>3. DOMAIN attempts \subseteq DOMAIN attempts' /\ Thread'
  <2>1. DOMAIN attempts \subseteq DOMAIN attempts'
    BY <1>2, AttemptsGrow DEF HostInv
  <2> QED BY <1>1, <2>1, ThreadKept DEF HostInv, StartPipeline
<1>4. Side'
  <2>0. Side /\ UNCHANGED <<memo, present, plugins, build>>
    BY DEF HostInv, StartPipeline, setup
  <2>1. TablesOf(p) \subseteq SharedTable \cup RunTable
    BY <2>0, TablesNamed
  <2>2. CASE /\ tables' = Ensured(tables, TablesOf(p))
             /\ runTables' = TablesOf(p)
             /\ policy' = p
             /\ UNCHANGED breaks
    BY <2>0, <2>1, <2>2, EnsuredDomain DEF Side
  <2>3. CASE /\ breaks < MaxBreaks
             /\ breaks' = breaks + 1
             /\ \E made \in SUBSET (TablesOf(p) \ {LogTable(p)}) : tables' = Ensured(tables, made)
             /\ UNCHANGED <<runTables, policy>>
    <3>1. PICK made \in SUBSET TablesOf(p) : tables' = Ensured(tables, made)
      BY <2>3
    <3>2. DOMAIN tables' = DOMAIN tables \cup made
      BY <3>1, EnsuredDomain
    <3>3. breaks' \in 0..MaxBreaks
      BY <2>0, <2>3, HostAssumption DEF Side
    <3> QED BY <2>0, <2>1, <2>3, <3>2, <3>3 DEF Side
  <2> QED BY <2>2, <2>3 DEF StartPipeline, BackendFails
<1> QED BY <1>2, <1>3, <1>4 DEF Kept

LEMMA DriveKept == ASSUME HostInv, NEW how, Drive(how) PROVE Kept
<1>1. /\ UNCHANGED vars /\ UNCHANGED <<wave, deferred, held>> /\ pc = "idle" /\ pc' = "poll"
      /\ UNCHANGED <<policy, runTables, tables, memo, present, plugins, build, breaks>>
  BY DEF Drive, store, setup, vars
<1>2. Thread'
  BY <1>1, AtRest DEF HostInv, Thread
<1> QED BY <1>1, <1>2 DEF Kept, HostInv, Side

LEMMA InjectKept ==
    ASSUME HostInv, NEW i \in Input, NEW a \in Artifact,
           NEW after \in {"NO", "UNTIL_IDLE", "ONE_PASS"}, Inject(i, a, after)
    PROVE  Kept
<1>1. InjectInput(i, a) /\ UNCHANGED held
  BY DEF Inject, InjectInput
<1>2. AnyCall
  BY <1>1 DEF AnyCall
<1>3. /\ UNCHANGED <<wave, deferred>> /\ pc = "idle" /\ pc' \in {"idle", "poll"}
      /\ UNCHANGED <<policy, runTables, tables, memo, plugins, build, breaks>>
      /\ present' = present \cup {a}
  BY DEF Inject, store, setup
<1>4. Thread'
  BY <1>1, <1>2, <1>3, AtRest DEF HostInv, Thread
<1> QED BY <1>2, <1>3, <1>4 DEF Kept, HostInv, Side

LEMMA CancelKept == ASSUME HostInv, Cancel PROVE Kept
<1>1. CancelRun /\ UNCHANGED held
  BY DEF Cancel, CancelRun
<1>2. AnyCall
  BY <1>1 DEF AnyCall
<1>3. /\ UNCHANGED <<wave, deferred, pc, memo, present, plugins, build, breaks>> /\ pc = "idle"
      /\ FinishRunStorage
  BY DEF Cancel, setup
<1>4. Thread'
  BY <1>1, <1>2, <1>3, AtRest DEF HostInv, Thread
<1>5. policy' = None /\ runTables' = {} /\ DOMAIN tables' \subseteq SharedTable \cup RunTable
  BY <1>3, StorageFinished DEF HostInv
<1> QED BY <1>2, <1>3, <1>4, <1>5 DEF Kept, HostInv, Side

LEMMA EndKept == ASSUME HostInv, Poll \/ Check PROVE Kept
<1>1. /\ UNCHANGED vars /\ UNCHANGED <<wave, deferred, held>> /\ pc \in {"poll", "check"}
      /\ pc' \in {"claim", "idle"}
      /\ UNCHANGED <<memo, present, plugins, build, breaks>>
      /\ UNCHANGED <<policy, runTables, tables>> \/ FinishRunStorage
  BY DEF Poll, Check, Return, setup, vars
<1>2. Thread'
  BY <1>1, AtRest DEF HostInv, Thread
<1>3. CASE FinishRunStorage
  <2>1. policy' = None /\ runTables' = {} /\ DOMAIN tables' \subseteq SharedTable \cup RunTable
    BY <1>3, StorageFinished DEF HostInv
  <2> QED BY <1>1, <1>2, <2>1 DEF Kept, HostInv, Side
<1>4. CASE UNCHANGED <<policy, runTables, tables>>
  BY <1>1, <1>2, <1>4 DEF Kept, HostInv, Side
<1> QED BY <1>1, <1>3, <1>4

LEMMA ReturnErrorKept == ASSUME HostInv, ReturnError PROVE Kept
<1>1. /\ wave' = {} /\ deferred' = {} /\ pc' = "idle"
      /\ UNCHANGED <<policy, runTables, tables, memo, present, plugins, build, breaks>>
      /\ Crash(Driver) \/ (held[Driver] = {} /\ UNCHANGED vars)
  BY DEF ReturnError, Return, store, setup
<1>2. [AnyCall]_vars /\ held'[Driver] = {}
  <2>1. held \in [Worker -> SUBSET HeldItem(DOMAIN attempts)] /\ Driver \in Worker
    BY HostAssumption, TypeParts DEF HostInv
  <2>2. CASE Crash(Driver)
    BY <2>1, <2>2 DEF Crash, AnyCall
  <2>3. CASE held[Driver] = {} /\ UNCHANGED vars
    BY <2>3 DEF vars
  <2> QED BY <1>1, <2>2, <2>3
<1>3. Thread'
  BY <1>1, <1>2, AtRest
<1> QED BY <1>1, <1>2, <1>3 DEF Kept, HostInv, Side

\* Both ways to claim: the items are what the kernel has just handed out.
LEMMA WaveClaimed ==
    ASSUME HostInv, pc \in {"idle", "claim"}, NEW filter \in SUBSET Node, NEW k \in Nat,
           ClaimReady(Driver, filter, k), wave' = HandedOut, UNCHANGED deferred,
           pc' \in {"idle", "check", "items"}, pc' = "items" <=> wave' # {}
    PROVE  AnyCall /\ Thread'
<1>1. AnyCall
  BY HostAssumption DEF AnyCall
<1>2. held[Driver] = {} /\ deferred = {} /\ deferred' = {}
  BY DEF HostInv, Thread
<1>3. /\ \A i \in wave' : Work(i, DOMAIN attempts')
      /\ \A i, j \in wave' : i.node = j.node => i = j
      /\ {Claim(i) : i \in wave'} = held'[Driver]
  BY <1>2, HandedItems DEF HostInv
<1>4. wave' = {} => held'[Driver] = {}
  BY <1>3
<1>5. {Claim(i) : i \in wave \cup deferred}' = held'[Driver]
  BY <1>2, <1>3 DEF Claim
<1> QED BY <1>1, <1>2, <1>3, <1>4, <1>5 DEF Thread

LEMMA TryStepKept == ASSUME HostInv, NEW m, TryStep(m) PROVE Kept
<1>1. /\ pc = "idle" /\ wave' = HandedOut /\ UNCHANGED deferred
      /\ ClaimReady(Driver, {n \in Node : ModuleOf[n] = m}, 1)
      /\ pc' \in {"idle", "items"} /\ (pc' = "items" <=> wave' # {})
      /\ UNCHANGED <<policy, runTables, tables, memo, present, plugins, build, breaks>>
  BY DEF TryStep, store, setup
<1>2. AnyCall /\ Thread'
  BY <1>1, WaveClaimed
<1> QED BY <1>1, <1>2 DEF Kept, HostInv, Side

LEMMA FilterTyped == ASSUME Side PROVE ClaimFilter \in SUBSET Node /\ BatchSize \in Nat
<1>1. MaxInFlight \in Nat
  BY LimitsAssumption
<1>2. CASE policy = None
  BY <1>1, <1>2 DEF ClaimFilter, BatchSize, DefaultConcurrency
<1>3. CASE policy # None
  <2>1. policy.batch \in Nat
    BY <1>3, PolicyTyped DEF Policy
  <2> QED BY <1>1, <1>3, <2>1 DEF ClaimFilter, BatchSize
<1> QED BY <1>2, <1>3

LEMMA ClaimWaveKept == ASSUME HostInv, ClaimWave PROVE Kept
<1>1. /\ pc = "claim" /\ UNCHANGED deferred
      /\ UNCHANGED <<policy, runTables, tables, memo, present, plugins, build, breaks>>
  BY DEF ClaimWave, store, setup
<1>2. CASE /\ ClaimReady(Driver, ClaimFilter, BatchSize)
           /\ wave' = HandedOut
           /\ pc' = IF wave' = {} THEN "check" ELSE "items"
  <2>1. ClaimFilter \in SUBSET Node /\ BatchSize \in Nat
    BY FilterTyped DEF HostInv
  <2>2. pc' \in {"idle", "check", "items"} /\ (pc' = "items" <=> wave' # {})
    BY <1>2
  <2>3. AnyCall /\ Thread'
    BY <1>1, <1>2, <2>1, <2>2, WaveClaimed
  <2> QED BY <1>1, <2>3 DEF Kept, HostInv, Side
<1>3. CASE pc' = "error" /\ UNCHANGED <<vars, wave>>
  <2>1. UNCHANGED <<vars, held>>
    BY <1>3 DEF vars
  <2>2. Thread'
    BY <1>1, <1>3, <2>1, AtRest DEF HostInv, Thread
  <2> QED BY <1>1, <2>1, <2>2 DEF Kept, HostInv, Side
<1> QED BY <1>2, <1>3 DEF ClaimWave

\* An item is finished, and its claim with it, unless the drive ends with an error.
LEMMA ItemGone ==
    ASSUME HostInv, pc # "error", [AnyCall]_vars, NEW item \in wave \cup deferred,
           wave' \subseteq wave, deferred' \subseteq deferred,
           wave' \cup deferred' = (wave \cup deferred) \ {item},
           held'[Driver] \subseteq held[Driver], held[Driver] \ {Claim(item)} \subseteq held'[Driver],
           pc' \in {"poll", "check", "items", "execute", "finish", "error"},
           pc' # "error" => held'[Driver] = held[Driver] \ {Claim(item)},
           pc' \in {"poll", "check"} => wave' = {} /\ deferred' = {},
           pc' = "items" => wave' # {}, pc' \in {"execute", "finish"} => deferred' # {}
    PROVE  Thread'
<1> DEFINE items == wave \cup deferred
<1>1. /\ \A i \in items : Work(i, DOMAIN attempts)
      /\ \A i, j \in items : i.node = j.node => i = j
      /\ wave \cap deferred = {}
      /\ \A i \in items : Claim(i) \in held[Driver]
      /\ \A h \in held[Driver] : \E i \in items : h = Claim(i)
  BY DEF HostInv, Thread
<1>2. DOMAIN attempts \subseteq DOMAIN attempts'
  BY AttemptsGrow DEF HostInv
<1>3. \A i \in items \ {item} : Work(i, DOMAIN attempts')
  BY <1>1, <1>2, WorkGrows
<1>4. \A i \in items : Claim(i) = Claim(item) => i = item
  BY ClaimsDiffer DEF HostInv
<1>5. \A i \in items \ {item} : Claim(i) \in held'[Driver]
  BY <1>1, <1>4
<1>6. ASSUME pc' # "error"
      PROVE  \A h \in held'[Driver] : \E i \in items \ {item} : h = Claim(i)
  BY <1>1, <1>6
<1>7. (wave \cup deferred)' = items \ {item}
  OBVIOUS
<1>8. \A i : Claim(i)' = Claim(i)
  BY DEF Claim
<1>9. /\ {Claim(i) : i \in items \ {item}} \subseteq held'[Driver]
      /\ pc' # "error" => held'[Driver] \subseteq {Claim(i) : i \in items \ {item}}
  BY <1>5, <1>6
<1>a. pc' \in {"poll", "check"} => held'[Driver] = {}
  BY <1>9
<1>b. wave' \cap deferred' = {}
  BY <1>1
<1>c. {Claim(i) : i \in wave \cup deferred}' = {Claim(i) : i \in items \ {item}}
  BY <1>7, <1>8
<1> HIDE DEF items
<1>d. /\ {Claim(i) : i \in wave \cup deferred}' \subseteq held'[Driver]
      /\ pc' # "error" => held'[Driver] \subseteq {Claim(i) : i \in wave \cup deferred}'
  BY <1>9, <1>c
<1> QED BY <1>1, <1>3, <1>7, <1>a, <1>b, <1>d DEF Thread

LEMMA LookUpKept == ASSUME HostInv, LookUp PROVE Kept
<1> DEFINE item == First(wave)
           next == IF wave' # {} THEN "items" ELSE IF deferred # {} THEN "execute" ELSE WaveDone
<1>1. /\ pc = "items" /\ wave' = wave \ {item} /\ UNCHANGED <<present, plugins, build>>
      /\ \/ /\ MemoHit(item)
            /\ HostCommit(item, memo[MemoKey(item)], FALSE, next)
            /\ UNCHANGED deferred
         \/ /\ deferred' = deferred \cup {item}
            /\ pc' = IF wave' = {} \/ Serial THEN "execute" ELSE "items"
            /\ UNCHANGED <<vars, store, breaks>>
         \/ /\ pc' = "error" /\ (UNCHANGED breaks \/ BackendFails)
            /\ UNCHANGED <<vars, store, deferred>>
  BY DEF LookUp, setup
<1>2. /\ \A i \in wave : i.node \in Node /\ Claim(i) \in held[Driver]
      /\ wave # {} /\ wave \cap deferred = {}
  BY <1>1 DEF HostInv, Thread, Work
<1>3. item \in wave
  BY <1>2, FirstIn
<1> HIDE DEF item, next
<1>4. CASE /\ MemoHit(item)
           /\ HostCommit(item, memo[MemoKey(item)], FALSE, next)
           /\ UNCHANGED deferred
  <2>1. memo[MemoKey(item)] \in Outputs
    BY <1>4 DEF MemoHit, HostInv, Side
  <2>2. Claim(item) \in held[Driver] /\ TypeOK /\ Side
    BY <1>2, <1>3 DEF HostInv
  <2>3. /\ [AnyCall]_vars
        /\ held'[Driver] \subseteq held[Driver]
        /\ held[Driver] \ {Claim(item)} \subseteq held'[Driver]
        /\ pc' = "error" \/ (pc' = next /\ held'[Driver] = held[Driver] \ {Claim(item)})
        /\ memo' \in {memo, MemoAfter(item, memo[MemoKey(item)], FALSE)}
        /\ DOMAIN tables \subseteq DOMAIN tables'
        /\ DOMAIN tables' \subseteq SharedTable \cup RunTable
        /\ breaks' \in 0..MaxBreaks
        /\ UNCHANGED <<policy, runTables>>
    BY <1>4, <2>1, <2>2, HostCommitted
  <2>4. /\ next \in {"poll", "check", "items", "execute"}
        /\ next \in {"poll", "check"} => wave' = {} /\ deferred' = {}
        /\ next = "items" => wave' # {}
        /\ next = "execute" => deferred' # {}
    BY <1>4 DEF next, WaveDone
  <2>5. Thread'
    BY <1>1, <1>2, <1>3, <1>4, <2>3, <2>4, ItemGone
  <2>6. memo' = memo
    BY <2>3 DEF MemoAfter
  <2> QED BY <1>1, <2>2, <2>3, <2>5, <2>6 DEF Kept, Side
<1>5. CASE /\ deferred' = deferred \cup {item}
           /\ pc' = IF wave' = {} \/ Serial THEN "execute" ELSE "items"
           /\ UNCHANGED <<vars, store, breaks>>
  <2>1. UNCHANGED <<held, attempts, policy, runTables, tables, memo, breaks>> /\ UNCHANGED vars
    BY <1>5 DEF vars, store
  <2>2. (wave \cup deferred)' = wave \cup deferred /\ (wave \cap deferred)' = {}
    BY <1>1, <1>2, <1>3, <1>5
  <2>3. pc' \in {"execute", "items"} /\ (pc' = "items" => wave' # {}) /\ deferred' # {}
    BY <1>5
  <2>4. Thread'
    BY <1>1, <2>1, <2>2, <2>3 DEF HostInv, Thread, Work, Claim
  <2> QED BY <1>1, <2>1, <2>4 DEF Kept, HostInv, Side
<1>6. CASE /\ pc' = "error" /\ (UNCHANGED breaks \/ BackendFails)
           /\ UNCHANGED <<vars, store, deferred>>
  <2>1. UNCHANGED <<held, attempts, policy, runTables, tables, memo, deferred>> /\ UNCHANGED vars
    BY <1>6 DEF vars, store
  <2>3. breaks' \in 0..MaxBreaks
    BY <1>6, OneMoreBreak DEF HostInv, Side
  <2>2. Thread'
    BY <1>1, <1>2, <1>3, <1>6, <2>1, ItemGone
  <2> QED BY <1>1, <2>1, <2>2, <2>3 DEF Kept, HostInv, Side
<1> QED BY <1>1, <1>4, <1>5, <1>6

\* Running the plugins changes no more of an item than whether it succeeded.
LEMMA ExecuteKept == ASSUME HostInv, Execute PROVE Kept
<1>1. PICK failing \in SUBSET deferred :
        deferred' = (deferred \ failing) \cup {[i EXCEPT !.ok = FALSE] : i \in failing}
  BY DEF Execute
<1>2. /\ UNCHANGED <<held, attempts, policy, runTables, tables, memo, breaks, present, plugins,
                     build, wave>>
      /\ UNCHANGED vars /\ pc = "execute" /\ pc' = "finish"
  BY DEF Execute, vars, store, setup
<1> DEFINE after(i) == IF i \in failing THEN [i EXCEPT !.ok = FALSE] ELSE i
<1>3. \A i \in wave \cup deferred : Work(i, DOMAIN attempts)
  BY DEF HostInv, Thread
<1>4. \A i \in wave \cup deferred :
        /\ Work(after(i), DOMAIN attempts)
        /\ after(i).node = i.node /\ Claim(after(i)) = Claim(i)
  <2> SUFFICES ASSUME NEW i \in wave \cup deferred
               PROVE  /\ Work(after(i), DOMAIN attempts)
                      /\ after(i).node = i.node /\ Claim(after(i)) = Claim(i)
    OBVIOUS
  <2> DEFINE R == [unit : DOMAIN attempts, attempt : Nat \ {0}, node : Node,
                   inputs : [BindingsTo(i.node) -> Artifact], ok : BOOLEAN]
  <2>1. i \in R /\ i.unit.node = i.node
    BY <1>3 DEF Work
  <2>2. /\ after(i) \in R /\ after(i).node = i.node /\ after(i).unit = i.unit
        /\ after(i).attempt = i.attempt
    BY <2>1
  <2> HIDE DEF after
  <2> QED BY <2>1, <2>2 DEF Work, Claim
<1>5. deferred' = {after(i) : i \in deferred}
  BY <1>1
<1>6. \A i \in wave : i \notin deferred /\ after(i) = i
  BY DEF HostInv, Thread
<1> HIDE DEF after
<1>7. (wave \cup deferred)' = {after(i) : i \in wave \cup deferred}
  BY <1>2, <1>5, <1>6
<1>8. deferred # {} /\ \A i, j \in wave \cup deferred : i.node = j.node => i = j
  BY <1>2 DEF HostInv, Thread
<1>9. wave' \cap deferred' = {}
  BY <1>2, <1>4, <1>5, <1>6, <1>8
<1>a. {Claim(i) : i \in wave \cup deferred}' = {Claim(i) : i \in wave \cup deferred}
  <2>1. \A i : Claim(i)' = Claim(i)
    BY DEF Claim
  <2>2. {Claim(i) : i \in {after(j) : j \in wave \cup deferred}} = {Claim(i) : i \in wave \cup deferred}
    BY <1>4
  <2> QED BY <1>7, <2>1, <2>2
<1>b. /\ \A i \in wave' \cup deferred' : Work(i, DOMAIN attempts')
      /\ \A i, j \in wave' \cup deferred' : i.node = j.node => i = j
      /\ deferred' # {}
  BY <1>2, <1>4, <1>5, <1>7, <1>8
<1>c. {Claim(i) : i \in wave \cup deferred} = held'[Driver]
  BY <1>2 DEF HostInv, Thread
<1>d. Thread'
  BY <1>2, <1>9, <1>a, <1>b, <1>c DEF Thread
<1> QED BY <1>2, <1>d DEF Kept, HostInv, Side

\* What a plugin returns, and what the memo becomes with it.
LEMMA ResultTyped ==
    ASSUME Side, NEW n \in Node, NEW ins \in [BindingsTo(n) -> Artifact]
    PROVE  Result(n, ins) \in Outputs /\ ArtifactsOf(Result(n, ins)) \subseteq Artifact
<1>1. Result(n, ins) \in Outputs
  BY PluginAssumption DEF Result, Side
<1>2. PICK S \in SUBSET OutName : Result(n, ins) \in [S -> Artifact]
  BY <1>1 DEF Outputs
<1> QED BY <1>1, <1>2 DEF ArtifactsOf

LEMMA MemoTyped ==
    ASSUME Side, NEW item, NEW outs \in Outputs
    PROVE  MemoAfter(item, outs, TRUE) \in [DOMAIN MemoAfter(item, outs, TRUE) -> Outputs]
BY DEF Side, MemoAfter

LEMMA FailStepKept ==
    ASSUME HostInv, NEW item, Claim(item) \in held[Driver], FailStep(item)
    PROVE  /\ [AnyCall]_vars
           /\ held'[Driver] \in {held[Driver], held[Driver] \ {Claim(item)}}
           /\ pc' = "error"
           /\ DOMAIN tables \subseteq DOMAIN tables'
           /\ DOMAIN tables' \subseteq SharedTable \cup RunTable
           /\ breaks' \in 0..MaxBreaks
           /\ UNCHANGED <<policy, runTables, memo, present, mine, shown, derivations>>
<1>1. /\ StoreRows(item, FALSE, "error", "error")
      /\ FailWork(Driver, Claim(item), FALSE) \/ UNCHANGED vars
      /\ UNCHANGED <<policy, runTables, memo, present, mine, shown>>
  BY DEF FailStep
<1>2. /\ DOMAIN tables \subseteq DOMAIN tables'
      /\ DOMAIN tables' \subseteq SharedTable \cup RunTable
      /\ breaks' \in 0..MaxBreaks /\ pc' = "error"
  BY <1>1, RowsStored DEF HostInv
<1>3. CASE UNCHANGED vars
  BY <1>1, <1>2, <1>3 DEF vars
<1>4. CASE FailWork(Driver, Claim(item), FALSE)
  <2>1. AnyCall
    BY <1>4, HostAssumption DEF AnyCall
  <2>2. held' = Drop(Driver, Claim(item)) /\ UNCHANGED derivations
    BY <1>4 DEF FailWork, NotClaimed, FailClaimed
  <2> QED BY <1>1, <1>2, <2>1, <2>2, DriverDrop DEF HostInv
<1> QED BY <1>1, <1>3, <1>4

LEMMA FinishKept == ASSUME HostInv, Finish PROVE Kept
<1> DEFINE item == First(deferred)
           outs == Result(item.node, item.inputs)
           next == IF deferred' # {} THEN "finish" ELSE IF wave # {} THEN "items" ELSE WaveDone
<1>1. /\ pc = "finish" /\ deferred' = deferred \ {item} /\ UNCHANGED <<wave, plugins, build>>
      /\ \/ /\ present' = present \cup ArtifactsOf(outs)
            /\ HostCommit(item, outs, TRUE, next)
         \/ FailStep(item)
  BY DEF Finish, CommitStepSuccess, setup
<1>2. /\ \A i \in deferred : Work(i, DOMAIN attempts) /\ Claim(i) \in held[Driver]
      /\ deferred # {} /\ wave \cap deferred = {}
  BY <1>1 DEF HostInv, Thread
<1>3. \A i \in deferred : i.node \in Node
  BY <1>2 DEF Work
<1>4. item \in deferred
  BY <1>2, <1>3, FirstIn
<1> HIDE DEF item
<1>5. item.node \in Node /\ item.inputs \in [BindingsTo(item.node) -> Artifact]
  BY <1>2, <1>4 DEF Work
<1>6. outs \in Outputs /\ ArtifactsOf(outs) \subseteq Artifact
  BY <1>5, ResultTyped DEF HostInv
<1>7. (wave \cup deferred)' = (wave \cup deferred) \ {item} /\ deferred' \subseteq deferred
  BY <1>1, <1>2, <1>4
<1>8. Claim(item) \in held[Driver] /\ TypeOK /\ Side
  BY <1>2, <1>4 DEF HostInv
<1> HIDE DEF outs, next
<1>9. CASE /\ present' = present \cup ArtifactsOf(outs)
           /\ HostCommit(item, outs, TRUE, next)
  <2>1. /\ [AnyCall]_vars
        /\ held'[Driver] \subseteq held[Driver]
        /\ held[Driver] \ {Claim(item)} \subseteq held'[Driver]
        /\ pc' = "error" \/ (pc' = next /\ held'[Driver] = held[Driver] \ {Claim(item)})
        /\ memo' \in {memo, MemoAfter(item, outs, TRUE)}
        /\ DOMAIN tables \subseteq DOMAIN tables'
        /\ DOMAIN tables' \subseteq SharedTable \cup RunTable
        /\ breaks' \in 0..MaxBreaks
        /\ UNCHANGED <<policy, runTables>>
    BY <1>6, <1>8, <1>9, HostCommitted
  <2>2. /\ next \in {"poll", "check", "items", "finish"}
        /\ next \in {"poll", "check"} => wave' = {} /\ deferred' = {}
        /\ next = "items" => wave' # {}
        /\ next = "finish" => deferred' # {}
    BY <1>1 DEF next, WaveDone
  <2>3. Thread'
    BY <1>1, <1>4, <1>7, <2>1, <2>2, ItemGone
  <2>4. memo' \in [DOMAIN memo' -> Outputs]
    BY <1>6, <1>8, <2>1, MemoTyped DEF Side
  <2> QED BY <1>1, <1>6, <1>8, <1>9, <2>1, <2>3, <2>4 DEF Kept, Side
<1>10. CASE FailStep(item)
  <2>1. /\ [AnyCall]_vars
        /\ held'[Driver] \in {held[Driver], held[Driver] \ {Claim(item)}}
        /\ pc' = "error"
        /\ DOMAIN tables \subseteq DOMAIN tables'
        /\ DOMAIN tables' \subseteq SharedTable \cup RunTable
        /\ breaks' \in 0..MaxBreaks
        /\ UNCHANGED <<policy, runTables, memo, present>>
    BY <1>8, <1>10, FailStepKept
  <2>2. Thread'
    BY <1>1, <1>4, <1>7, <2>1, ItemGone
  <2> QED BY <1>1, <1>8, <2>1, <2>2 DEF Kept, Side
<1> QED BY <1>1, <1>9, <1>10

\* A call of another client: nothing of the Host's own moves, but artifacts may be added.
LEMMA OthersKept ==
    ASSUME HostInv, [AnyCall]_vars, held'[Driver] = held[Driver],
           UNCHANGED <<policy, runTables, tables, memo, plugins, build, breaks, pc, wave, deferred>>,
           present' \subseteq Artifact
    PROVE  Kept
<1>1. DOMAIN attempts \subseteq DOMAIN attempts'
  BY AttemptsGrow DEF HostInv
<1>2. Thread'
  BY <1>1, ThreadKept DEF HostInv
<1> QED BY <1>2 DEF Kept, HostInv, Side

LEMMA PeerKept == ASSUME HostInv, NEW w \in Worker \ {Driver}, Peer(w) PROVE Kept
<1>0. held \in [Worker -> SUBSET HeldItem(DOMAIN attempts)] /\ Driver \in Worker /\ w \in Worker
  BY HostAssumption, TypeParts DEF HostInv
<1>1. \A h : Drop(w, h)[Driver] = held[Driver]
  BY <1>0 DEF Drop
<1>2. ASSUME NEW filter \in Filter, NEW k \in MaxItems, ClaimReady(w, filter, k), UNCHANGED hostOnly
      PROVE  Kept
  <2>1. AnyCall
    BY <1>2, LimitsAssumption DEF AnyCall
  <2>2. \E S : held' = [held EXCEPT ![w] = @ \cup S]
    BY <1>2 DEF ClaimReady
  <2>3. held'[Driver] = held[Driver]
    BY <1>0, <2>2
  <2> QED BY <1>2, <2>1, <2>3, OthersKept DEF hostOnly, HostInv, Side
<1>3. ASSUME NEW h \in held[w], FailWork(w, h, TRUE), UNCHANGED hostOnly
      PROVE  Kept
  <2>1. AnyCall
    BY <1>3 DEF AnyCall
  <2>2. held' = Drop(w, h)
    BY <1>3 DEF FailWork, NotClaimed, FailClaimed
  <2> QED BY <1>1, <1>3, <2>1, <2>2, OthersKept DEF hostOnly, HostInv, Side
<1>4. ASSUME NEW h \in held[w], NEW ins \in [BindingsTo(h.unit.node) -> Artifact],
             Commit(w, h, Result(h.unit.node, ins), None), held' = Drop(w, h),
             present' = present \cup ArtifactsOf(Result(h.unit.node, ins)),
             UNCHANGED <<store, setup, breaks, pc, plan, wave, deferred, shown>>
      PROVE  Kept
  <2>1. h.unit \in DOMAIN attempts
    BY <1>0 DEF HeldItem
  <2>2. h.unit.node \in Node
    BY <2>1 DEF HostInv, UnitsNamed
  <2>3. /\ Result(h.unit.node, ins) \in Outputs
        /\ ArtifactsOf(Result(h.unit.node, ins)) \subseteq Artifact
    BY <2>2, ResultTyped DEF HostInv
  <2>4. AnyCall
    BY <1>4, <2>3 DEF AnyCall
  <2>5. present' \subseteq Artifact
    BY <1>4, <2>3 DEF HostInv, Side
  <2> QED BY <1>1, <1>4, <2>4, <2>5, OthersKept DEF store, setup
<1> QED BY <1>2, <1>3, <1>4 DEF Peer

LEMMA OutsideKept == ASSUME HostInv, CancelRun \/ Tick, UNCHANGED hostOnly PROVE Kept
<1>1. AnyCall /\ UNCHANGED held
  BY DEF AnyCall, CancelRun, Tick
<1> QED BY <1>1, OthersKept DEF hostOnly, HostInv, Side

LEMMA IdleKept == ASSUME HostInv, UNCHANGED hvars PROVE Kept
BY OthersKept DEF hvars, hostOnly, vars, HostInv, Side

LEMMA NextKept == HostInv /\ [HostNext]_hvars => Kept
<1> SUFFICES ASSUME HostInv, [HostNext]_hvars PROVE Kept
  OBVIOUS
<1>1. CASE HostStep
  BY <1>1, EndKept, ClaimWaveKept, LookUpKept, ExecuteKept, FinishKept, ReturnErrorKept DEF HostStep
<1>2. CASE Caller
  BY <1>2, StartKept, DriveKept, TryStepKept, InjectKept, CancelKept DEF Caller, DriveAgain
<1>3. CASE \E w \in Worker \ {Driver} : Peer(w)
  BY <1>3, PeerKept
<1>4. CASE (CancelRun \/ Tick) /\ UNCHANGED hostOnly
  BY <1>4, OutsideKept
<1>5. CASE UNCHANGED hvars
  BY <1>5, IdleKept
<1> QED BY <1>1, <1>2, <1>3, <1>4, <1>5 DEF HostNext

LEMMA HostInvStep == HostInv /\ [HostNext]_hvars => HostInv' /\ [AnyCall]_vars
<1> SUFFICES ASSUME HostInv, [HostNext]_hvars PROVE HostInv' /\ [AnyCall]_vars
  OBVIOUS
<1>1. Kept
  BY NextKept
<1>2. TypeOK' /\ UnitsNamed'
  BY <1>1, NextTyped, AttemptsGrow DEF Kept, HostInv
<1> QED BY <1>1, <1>2 DEF Kept, HostInv

LEMMA HostInitInv == HostInit => HostInv
<1> SUFFICES ASSUME HostInit PROVE HostInv
  OBVIOUS
<1>1. Init
  BY DEF HostInit
<1>2. TypeOK
  BY <1>1, InitTyped
<1>3. UnitsNamed /\ held = [w \in Worker |-> {}] /\ inputs \in [Input -> Artifact]
  BY <1>1 DEF Init, UnitsNamed
<1>4. Thread
  BY <1>3, HostAssumption DEF HostInit, Thread
<1>5. memo \in [DOMAIN memo -> Outputs]
  <2> DEFINE K == {KeyOf(e.digest, e.node, e.inputs) : e \in Earlier}
             src(k) == CHOOSE e \in Earlier : KeyOf(e.digest, e.node, e.inputs) = k
  <2>1. memo = [k \in K |-> Compute(src(k).digest, CapabilityOf[src(k).node], src(k).inputs)]
    BY DEF HostInit
  <2>2. \A k \in K : src(k) \in Earlier
    OBVIOUS
  <2> HIDE DEF K, src
  <2> QED BY <2>1, <2>2, PluginAssumption
<1>6. present \subseteq Artifact
  BY <1>3 DEF HostInit
<1>7. /\ DOMAIN tables = SharedTable /\ MaxBreaks \in Nat
      /\ policy = None /\ runTables = {} /\ plugins \in PluginSets /\ build \in Current
      /\ breaks = 0
  BY HostAssumption DEF HostInit
<1>8. Side
  BY <1>5, <1>6, <1>7 DEF Side
<1> QED BY <1>2, <1>3, <1>4, <1>8 DEF HostInv

-----------------------------------------------------------------------------
(* What the Host's drives never break *)

LEMMA HostSafe == HostSpec => []HostInv /\ Engine
<1>1. HostInit => Init
  BY DEF HostInit
<1> QED BY <1>1, HostInitInv, HostInvStep, PTL DEF HostSpec, Engine

\* Every promise of the kernel about units, lineage, firing, answer, claims, limits and
\* redeliveries holds while a Host drives the run: whatever it claims, abandons, commits,
\* fails or cancels, and whatever peers do at the same time, is a call they cover.
THEOREM HostKeepsKernel ==
    HostSpec => []( /\ ClaimedNotDone /\ CommittedOnce /\ AttemptBudget
                    /\ LineageClosed /\ FiringIdentity /\ AnswerProvenance
                    /\ OneHolderPerAttempt /\ LimitsHold /\ NoBusyLoop )
BY HostSafe, EngineDiscipline, EngineLineage, EngineFirings, EngineAnswer, EngineHolders,
   EngineLimits, EngineNoBusyLoop, PTL

\* The Host's state is in order: between drives it works on nothing; in a drive it works on
\* exactly what the kernel handed it, one item per node; no attempt is beyond the budget; and
\* the tables it will drop are tables there are.
THEOREM HostTypeCorrect == HostSpec => []HostTypeOK
<1>1. HostInv /\ AttemptBudget /\ HeldBelow => HostTypeOK
  <2> SUFFICES ASSUME HostInv, AttemptBudget, HeldBelow PROVE HostTypeOK
    OBVIOUS
  <2>0. /\ attempts \in [DOMAIN attempts -> Nat \ {0}] /\ Driver \in Worker
        /\ MaxAttempts \in Nat
    BY TypeParts, HostAssumption, LimitsUsable DEF HostInv
  <2>1. ASSUME NEW i \in wave \cup deferred PROVE IsItem(i)
    <3>1. Work(i, DOMAIN attempts) /\ Claim(i) \in held[Driver]
      BY DEF HostInv, Thread
    <3>2. i.attempt <= attempts[i.unit]
      BY <2>0, <3>1 DEF HeldBelow, Claim
    <3>3. i.unit \in DOMAIN attempts /\ i.attempt \in Nat \ {0}
      BY <3>1 DEF Work
    <3>4. attempts[i.unit] <= MaxAttempts
      BY <3>3 DEF AttemptBudget
    <3>5. i.attempt \in 1..MaxAttempts
      BY <2>0, <3>2, <3>3, <3>4
    <3> QED BY <3>1, <3>5 DEF Work, IsItem
  <2> QED BY <2>1 DEF HostInv, Thread, Side, HostTypeOK
<1> QED BY <1>1, HostSafe, EngineDiscipline, EngineHolders, PTL

-----------------------------------------------------------------------------
(* Events and commits *)

\* Where the Host commits: a hit while it looks an item up, or a result.
MemoCommit(item, next) == MemoHit(item) /\ HostCommit(item, memo[MemoKey(item)], FALSE, next)
ResultCommit(item, next) ==
    LET outs == Result(item.node, item.inputs)
    IN  HostCommit(item, outs, TRUE, next)

LEMMA HostCommits ==
    ASSUME HostInv, LookUp \/ Finish
    PROVE  /\ pc # "error"
           /\ UNCHANGED <<plugins, build, plan>>
           /\ \/ UNCHANGED <<mine, shown, memo, derivations>>
              \/ \E item \in wave \cup deferred : \E next : MemoCommit(item, next)
              \/ \E item \in wave \cup deferred : \E next : ResultCommit(item, next)
<1>1. pc # "error" /\ UNCHANGED <<plugins, build, plan>>
  BY DEF LookUp, Finish, setup
<1>2. CASE LookUp
  <2>1. First(wave) \in wave
    BY <1>2, FirstIn DEF HostInv, Thread, Work, LookUp
  <2> DEFINE item == First(wave)
             next == IF wave' # {} THEN "items" ELSE IF deferred # {} THEN "execute" ELSE WaveDone
  <2>2. MemoCommit(item, next) \/ UNCHANGED <<mine, shown, memo, derivations>>
    BY <1>2 DEF LookUp, store, vars, MemoCommit
  <2> HIDE DEF item, next
  <2> QED BY <1>1, <2>1, <2>2 DEF item
<1>3. CASE Finish
  <2>1. First(deferred) \in deferred
    BY <1>3, FirstIn DEF HostInv, Thread, Work, Finish
  <2> DEFINE item == First(deferred)
             next == IF deferred' # {} THEN "finish" ELSE IF wave # {} THEN "items" ELSE WaveDone
  <2>2. CASE CommitStepSuccess(item)
    <3>1. ResultCommit(item, next)
      BY <2>2 DEF CommitStepSuccess, ResultCommit
    <3> HIDE DEF item, next
    <3> QED BY <1>1, <2>1, <3>1 DEF item
  <2>3. CASE FailStep(item)
    <3>1. Claim(item) \in held[Driver]
      BY <2>1 DEF HostInv, Thread
    <3>2. UNCHANGED <<mine, shown, memo, derivations>>
      BY <2>3, <3>1, FailStepKept
    <3> QED BY <1>1, <3>2
  <2> QED BY <1>3, <2>2, <2>3 DEF Finish
<1> QED BY <1>2, <1>3

\* The other steps of the Host commit nothing; a peer may.
LEMMA NoCommit ==
    ASSUME HostInv, [HostNext]_hvars, ~(LookUp \/ Finish)
    PROVE  /\ UNCHANGED <<mine, memo, plugins, build>>
           /\ shown' = {} \/ (UNCHANGED shown /\ (pc = "error" => pc' = "error"))
           /\ UNCHANGED derivations \/ \E w \in Worker \ {Driver} : Peer(w)
<1>1. CASE HostStep
  BY <1>1 DEF HostStep, Poll, ClaimWave, Execute, Check, ReturnError, Return, ClaimReady, Crash,
              store, setup, vars
<1>2. CASE Caller
  BY <1>2 DEF Caller, DriveAgain, StartPipeline, Drive, TryStep, Inject, Cancel, StartRun,
              ClaimReady, InjectInput, CancelRun, store, setup, vars
<1>3. CASE \E w \in Worker \ {Driver} : Peer(w)
  BY <1>3 DEF Peer, hostOnly, store, setup
<1>4. CASE (CancelRun \/ Tick) /\ UNCHANGED hostOnly
  BY <1>4 DEF CancelRun, Tick, hostOnly
<1>5. CASE UNCHANGED hvars
  BY <1>5 DEF hvars, hostOnly, vars
<1> QED BY <1>1, <1>2, <1>3, <1>4, <1>5 DEF HostNext

\* A committed item: its outputs are outputs and its claim is held.
LEMMA CommitTyped ==
    ASSUME HostInv, NEW item \in wave \cup deferred
    PROVE  /\ Claim(item) \in held[Driver]
           /\ MemoHit(item) => memo[MemoKey(item)] \in Outputs
           /\ item.node \in Node /\ item.inputs \in [BindingsTo(item.node) -> Artifact]
           /\ Result(item.node, item.inputs) \in Outputs
<1>1. Work(item, DOMAIN attempts) /\ Claim(item) \in held[Driver]
  BY DEF HostInv, Thread
<1>2. item.node \in Node /\ item.inputs \in [BindingsTo(item.node) -> Artifact]
  BY <1>1 DEF Work
<1>3. Result(item.node, item.inputs) \in Outputs
  BY <1>2, ResultTyped DEF HostInv
<1>4. MemoHit(item) => memo[MemoKey(item)] \in Outputs
  BY DEF MemoHit, HostInv, Side
<1> QED BY <1>1, <1>2, <1>3, <1>4

LEMMA FinalStep == HostInv /\ FinalIsAccepted /\ [HostNext]_hvars => FinalIsAccepted'
<1> SUFFICES ASSUME HostInv, FinalIsAccepted, [HostNext]_hvars PROVE FinalIsAccepted'
  OBVIOUS
<1>1. CASE ~(LookUp \/ Finish)
  BY <1>1, NoCommit DEF FinalIsAccepted
<1>2. ASSUME pc # "error", NEW item \in wave \cup deferred, NEW outs \in Outputs, NEW puts,
             NEW next, HostCommit(item, outs, puts, next)
      PROVE  FinalIsAccepted'
  <2>1. /\ pc' = "error" \/ mine' = mine \cup {item.unit}
        /\ shown' = shown \cup {item.unit}
    BY <1>2, CommitTyped, HostCommitted DEF HostInv
  <2> QED BY <1>2, <2>1 DEF FinalIsAccepted
<1>3. CASE LookUp \/ Finish
  <2>1. pc # "error"
    BY <1>3, HostCommits
  <2>2. CASE UNCHANGED <<mine, shown, memo, derivations>>
    BY <2>1, <2>2 DEF FinalIsAccepted
  <2>3. ASSUME NEW item \in wave \cup deferred, NEW next, MemoCommit(item, next)
        PROVE  FinalIsAccepted'
    BY <1>2, <2>1, <2>3, CommitTyped DEF MemoCommit
  <2>4. ASSUME NEW item \in wave \cup deferred, NEW next, ResultCommit(item, next)
        PROVE  FinalIsAccepted'
    BY <1>2, <2>1, <2>4, CommitTyped DEF ResultCommit
  <2> QED BY <1>3, <2>2, <2>3, <2>4, HostCommits
<1> QED BY <1>1, <1>3

\* A step the presentation calls done was accepted by the kernel, or the drive ends with an
\* error, although the event is emitted before the commit: for every policy, assembly and set
\* of peers, and whatever the backend does.
THEOREM FinalAccepted == HostSpec => []FinalIsAccepted
<1>1. HostInit => FinalIsAccepted
  BY DEF HostInit, FinalIsAccepted
<1> QED BY <1>1, FinalStep, HostSafe, PTL DEF HostSpec

-----------------------------------------------------------------------------
(* Which inputs the Host's items have *)

\* The items are items there were, but for their outcome.
Inherits ==
    \A i \in wave' \cup deferred' : \E j \in wave \cup deferred :
        i.unit = j.unit /\ i.node = j.node /\ i.inputs = j.inputs

SlotsKept == \A u \in DOMAIN claimed' : SlotKept(u)

\* A commit without a request key is answered by no kept reply.
LEMMA PlainCommit ==
    ASSUME TypeOK, state = "RUNNING", NEW w \in Worker, NEW h, NEW outs,
           CommitAccept(w, h, outs, None)
    PROVE  Accepts(w, h, outs)
<1>1. None \in RequestKey \cup {None} /\ ~Replied(w, None)
  BY DEF Replied
<1> QED BY <1>1, CommitKind

LEMMA CommitSlots ==
    ASSUME TypeOK, NEW item, NEW outs, NEW puts, NEW next, HostCommit(item, outs, puts, next)
    PROVE  SlotsKept /\ UNCHANGED inputs
<1>1. Driver \in Worker
  BY HostAssumption
<1>2. CASE state = "RUNNING" /\ CommitAccept(Driver, Claim(item), outs, None)
  <2>1. Accepts(Driver, Claim(item), outs)
    BY <1>1, <1>2, PlainCommit
  <2> QED BY <1>2, <2>1 DEF Accepts, SlotsKept, CommitAccept
<1>3. CASE UNCHANGED vars
  BY <1>3 DEF vars, SlotsKept, SlotKept
<1>4. CASE NotClaimed(Driver, Claim(item)) \/ CommitInvalid(Driver, Claim(item), outs)
  <2>1. Releases
    BY <1>1, <1>4, RefusedKind
  <2> QED BY <1>4, <2>1 DEF Releases, SlotsKept, NotClaimed, CommitInvalid
<1> QED BY <1>2, <1>3, <1>4 DEF HostCommit, CommitRefused

LEMMA FailSlots ==
    ASSUME TypeOK, NEW w \in Worker, NEW h, NEW terminal, FailWork(w, h, terminal)
    PROVE  SlotsKept /\ UNCHANGED inputs
<1>1. Releases
  <2>1. CASE NotClaimed(w, h)
    BY <2>1, RefusedKind
  <2>2. CASE FailClaimed(w, h, terminal)
    BY <2>2, FailKind DEF FailWork
  <2> QED BY <2>1, <2>2 DEF FailWork
<1> QED BY <1>1 DEF Releases, SlotsKept, FailWork, NotClaimed, FailClaimed

LEMMA PeerCommitSlots ==
    ASSUME TypeOK, NEW w \in Worker, NEW h, NEW outs, Commit(w, h, outs, None)
    PROVE  SlotsKept /\ UNCHANGED inputs
<1>1. CASE CommitAccept(w, h, outs, None)
  <2>1. Accepts(w, h, outs)
    BY <1>1, PlainCommit DEF Commit, Replied
  <2> QED BY <1>1, <2>1 DEF Accepts, SlotsKept, CommitAccept
<1>2. CASE NotClaimed(w, h) \/ CommitInvalid(w, h, outs)
  <2>1. Releases
    BY <1>2, RefusedKind
  <2> QED BY <1>2, <2>1 DEF Releases, SlotsKept, NotClaimed, CommitInvalid
<1> QED BY <1>1, <1>2 DEF Commit, Replied

\* A tick, and every call that leaves the table alone or empties it.
LEMMA QuietSlots ==
    ASSUME TypeOK, UNCHANGED claimed \/ CancelRun \/ Tick
    PROVE  SlotsKept
<1>1. CASE UNCHANGED claimed
  BY <1>1 DEF SlotsKept, SlotKept
<1>2. CASE CancelRun
  BY <1>2 DEF CancelRun, SlotsKept
<1>3. CASE Tick
  BY <1>3, TickTable DEF SlotsKept, SlotKept
<1> QED BY <1>1, <1>2, <1>3

\* The Host is handed items; a peer is; or items and claims are at most taken away.
DriverClaims ==
    /\ \E filter \in SUBSET Node, k \in Nat : ClaimReady(Driver, filter, k)
    /\ wave' = HandedOut /\ deferred' = {} /\ held[Driver] = {}
PeerClaims ==
    /\ \E w \in Worker \ {Driver} : \E filter \in SUBSET Node, k \in Nat : ClaimReady(w, filter, k)
    /\ UNCHANGED <<wave, deferred>>
NoClaims == Inherits /\ SlotsKept /\ (UNCHANGED inputs \/ (wave' = {} /\ deferred' = {}))

\* Steps that leave the items alone inherit them.
LEMMA SameItems == ASSUME UNCHANGED <<wave, deferred>> PROVE Inherits
BY DEF Inherits

LEMMA LookUpItems == ASSUME HostInv, LookUp PROVE NoClaims
<1>1. First(wave) \in wave
  BY FirstIn DEF HostInv, Thread, Work, LookUp
<1>2. Inherits
  <2>1. wave' \cup deferred' \subseteq wave \cup deferred
    BY <1>1 DEF LookUp
  <2> QED BY <2>1 DEF Inherits
<1>3. SlotsKept /\ UNCHANGED inputs
  <2>1. CASE UNCHANGED vars
    BY <2>1, QuietSlots DEF vars, HostInv
  <2>2. ASSUME NEW item, NEW outs, NEW puts, NEW next, HostCommit(item, outs, puts, next)
        PROVE  SlotsKept /\ UNCHANGED inputs
    BY <2>2, CommitSlots DEF HostInv
  <2> QED BY <2>1, <2>2 DEF LookUp
<1> QED BY <1>2, <1>3 DEF NoClaims

LEMMA FinishItems == ASSUME HostInv, Finish PROVE NoClaims
<1>1. Inherits
  BY DEF Finish, Inherits
<1>2. SlotsKept /\ UNCHANGED inputs
  <2>1. CASE UNCHANGED vars
    BY <2>1, QuietSlots DEF vars, HostInv
  <2>2. ASSUME NEW item, NEW outs, NEW puts, NEW next, HostCommit(item, outs, puts, next)
        PROVE  SlotsKept /\ UNCHANGED inputs
    BY <2>2, CommitSlots DEF HostInv
  <2>3. ASSUME NEW h, FailWork(Driver, h, FALSE)
        PROVE  SlotsKept /\ UNCHANGED inputs
    BY <2>3, FailSlots, HostAssumption DEF HostInv
  <2> QED BY <2>1, <2>2, <2>3 DEF Finish, CommitStepSuccess, FailStep
<1> QED BY <1>1, <1>2 DEF NoClaims

LEMMA ExecuteItems == ASSUME HostInv, Execute PROVE NoClaims
<1>1. PICK failing \in SUBSET deferred :
        deferred' = (deferred \ failing) \cup {[i EXCEPT !.ok = FALSE] : i \in failing}
  BY DEF Execute
<1>2. \A i \in deferred : Work(i, DOMAIN attempts)
  BY DEF HostInv, Thread
<1>3. ASSUME NEW i \in failing
      PROVE  LET f == [i EXCEPT !.ok = FALSE]
             IN  f.unit = i.unit /\ f.node = i.node /\ f.inputs = i.inputs
  BY <1>2, <1>3 DEF Work
<1>4. UNCHANGED <<vars, wave>>
  BY DEF Execute
<1>5. Inherits
  <2> SUFFICES ASSUME NEW i \in wave' \cup deferred'
               PROVE  \E j \in wave \cup deferred :
                         i.unit = j.unit /\ i.node = j.node /\ i.inputs = j.inputs
    BY DEF Inherits
  <2>1. CASE i \in wave \cup deferred
    BY <2>1
  <2>2. CASE \E j \in failing : i = [j EXCEPT !.ok = FALSE]
    BY <1>3, <2>2
  <2> QED BY <1>1, <1>4, <2>1, <2>2
<1> QED BY <1>4, <1>5, QuietSlots DEF NoClaims, vars, HostInv

LEMMA PeerItems == ASSUME HostInv, NEW w \in Worker \ {Driver}, Peer(w) PROVE PeerClaims \/ NoClaims
<1>1. UNCHANGED <<wave, deferred>>
  BY DEF Peer, hostOnly
<1>2. ASSUME NEW filter \in Filter, NEW k \in MaxItems, ClaimReady(w, filter, k)
      PROVE  PeerClaims
  BY <1>1, <1>2, LimitsAssumption DEF PeerClaims
<1>3. ASSUME NEW h, FailWork(w, h, TRUE)
      PROVE  NoClaims
  BY <1>1, <1>3, FailSlots, SameItems DEF NoClaims, HostInv
<1>4. ASSUME NEW h, NEW outs, Commit(w, h, outs, None)
      PROVE  NoClaims
  BY <1>1, <1>4, PeerCommitSlots, SameItems DEF NoClaims, HostInv
<1> QED BY <1>2, <1>3, <1>4 DEF Peer

LEMMA ClaimItems ==
    ASSUME HostInv, ClaimWave \/ (\E m \in Stepped : TryStep(m))
    PROVE  DriverClaims \/ NoClaims
<1>0. pc \in {"claim", "idle"} /\ UNCHANGED deferred
  BY DEF ClaimWave, TryStep
<1>1. wave = {} /\ deferred' = {} /\ held[Driver] = {}
  BY <1>0 DEF HostInv, Thread
<1>2. ASSUME NEW m, TryStep(m) PROVE DriverClaims
  <2>1. /\ ClaimReady(Driver, {n \in Node : ModuleOf[n] = m}, 1) /\ wave' = HandedOut
        /\ {n \in Node : ModuleOf[n] = m} \in SUBSET Node
    BY <1>2 DEF TryStep
  <2> QED BY <1>1, <2>1 DEF DriverClaims
<1>3. CASE ClaimWave
  <2>1. CASE ClaimReady(Driver, ClaimFilter, BatchSize) /\ wave' = HandedOut
    BY <1>1, <2>1, FilterTyped DEF DriverClaims, HostInv
  <2>2. CASE UNCHANGED <<vars, wave>>
    BY <1>0, <2>2, QuietSlots, SameItems DEF NoClaims, vars, HostInv
  <2> QED BY <1>3, <2>1, <2>2 DEF ClaimWave
<1> QED BY <1>2, <1>3

LEMMA RestItems ==
    ASSUME HostInv,
           \/ Poll \/ Check \/ ReturnError \/ DriveAgain \/ Cancel
           \/ \E p \in Policies : StartPipeline(p)
           \/ \E i \in Input, a \in Artifact, after \in {"NO", "UNTIL_IDLE", "ONE_PASS"} :
                 Inject(i, a, after)
           \/ (CancelRun \/ Tick) /\ UNCHANGED hostOnly
           \/ UNCHANGED hvars
    PROVE  NoClaims
<1>1. CASE ReturnError
  <2>1. UNCHANGED <<claimed, inputs>> /\ wave' = {} /\ deferred' = {}
    BY <1>1 DEF ReturnError, Crash, slot, vars
  <2> QED BY <2>1, QuietSlots DEF NoClaims, Inherits, HostInv
<1>2. ASSUME NEW i, NEW a, NEW after, Inject(i, a, after)
      PROVE  NoClaims
  <2>1. UNCHANGED claimed /\ wave' = {} /\ deferred' = {}
    BY <1>2 DEF Inject, InjectInput, HostInv, Thread
  <2> QED BY <2>1, QuietSlots DEF NoClaims, Inherits, HostInv
<1>3. CASE \/ Poll \/ Check \/ DriveAgain \/ Cancel \/ (\E p \in Policies : StartPipeline(p))
           \/ ((CancelRun \/ Tick) /\ UNCHANGED hostOnly) \/ UNCHANGED hvars
  <2>1. UNCHANGED <<wave, deferred, inputs>>
    BY <1>3 DEF Poll, Check, DriveAgain, Drive, Cancel, StartPipeline, StartRun, CancelRun, Tick,
                hostOnly, hvars, vars, slot
  <2>2. UNCHANGED claimed \/ CancelRun \/ Tick
    BY <1>3 DEF Poll, Check, DriveAgain, Drive, Cancel, StartPipeline, StartRun,
                hostOnly, hvars, vars, slot
  <2> QED BY <2>1, <2>2, QuietSlots, SameItems DEF NoClaims, HostInv
<1> QED BY <1>1, <1>2, <1>3

LEMMA DriveKinds == ASSUME HostInv, [HostNext]_hvars PROVE DriverClaims \/ PeerClaims \/ NoClaims
BY LookUpItems, FinishItems, ExecuteItems, PeerItems, ClaimItems, RestItems
   DEF HostNext, HostStep, Caller

\* What the kernel has in the table for an item of the Host is what it handed the Host.
SameInputs == \A i \in wave \cup deferred : i.unit \in DOMAIN claimed => claimed[i.unit].inputs = i.inputs

\* What an item was handed is still what its node would be handed.
ItemsResolve == \A i \in wave \cup deferred : Resolves(i.node) /\ i.inputs = ResolveInputs(i.node)

LEMMA SameInputsStep ==
    ASSUME HostInv, SameInputs, [HostNext]_hvars, Worker = {Driver} \/ ItemsResolve
    PROVE  SameInputs'
<1>1. CASE DriverClaims
  <2>1. \A i \in wave' : i.inputs = claimed'[i.unit].inputs
    BY <1>1 DEF DriverClaims, HandedOut
  <2> QED BY <1>1, <2>1 DEF SameInputs, DriverClaims
<1>2. CASE PeerClaims
  <2>1. PICK w \in Worker \ {Driver}, filter \in SUBSET Node, k \in Nat : ClaimReady(w, filter, k)
    BY <1>2 DEF PeerClaims
  <2>2. ItemsResolve
    BY <2>1
  <2>3. PICK take \in SUBSET Node : HandsOut(w, take)
    BY <2>1, ClaimKind DEF HostInv
  <2> SUFFICES ASSUME NEW i \in wave \cup deferred, i.unit \in DOMAIN claimed'
               PROVE  claimed'[i.unit].inputs = i.inputs
    BY <1>2 DEF SameInputs, PeerClaims
  <2>4. i.unit.node = i.node
    BY DEF HostInv, Thread, Work
  <2>5. CASE i.unit \in UnitsOf(take)
    BY <2>2, <2>3, <2>4, <2>5 DEF HandsOut, ItemsResolve, NewClaim
  <2>6. CASE SlotKept(i.unit)
    BY <2>6 DEF SlotKept, SameInputs
  <2> QED BY <2>3, <2>5, <2>6 DEF HandsOut
<1>3. CASE NoClaims
  BY <1>3 DEF NoClaims, Inherits, SlotsKept, SlotKept, SameInputs
<1> QED BY <1>1, <1>2, <1>3, DriveKinds

\* When every node fires ONCE, what a resolved node reads changes by an injection only.
LEMMA DeliveryStays ==
    ASSUME \A n \in Node : EffectiveFiring(n) = "ONCE", TypeOK, FiringFollows, ClaimedNotDone,
           InputsStay, StepKind, UNCHANGED inputs, NEW m \in Node, Resolves(m)
    PROVE  ResolveInputs(m)' = ResolveInputs(m)
<1>1. CASE UNCHANGED latest
  BY <1>1 DEF ResolveInputs, Delivered, BindingsTo, BindingIndex
<1>2. ASSUME NEW w \in Worker, NEW h \in HeldItem(DOMAIN attempts), NEW outs \in Outputs,
             Accepts(w, h, outs)
      PROVE  ResolveInputs(m)' = ResolveInputs(m)
  <2> DEFINE n == claimed[h.unit].node
  <2>1. h.unit \in DOMAIN claimed /\ latest' = [latest EXCEPT ![n] = outs]
    BY <1>2 DEF Accepts
  <2>2. n \in Node /\ h.unit = OnlyUnit(n)
    BY <2>1, OnceUnits
  <2>3. DOMAIN latest[n] = {}
    BY <2>1, <2>2 DEF InputsStay, ClaimedNotDone
  <2>4. latest \in [Node -> Outputs]
    BY TypeParts
  <2> HIDE DEF n
  <2>5. \A x \in Node : DOMAIN latest[x] # {} => latest'[x] = latest[x]
    BY <2>1, <2>3, <2>4
  <2>6. ASSUME NEW i \in BindingsTo(m) PROVE Delivered(i)' = Delivered(i)
    <3>1. i \in BindingIndex /\ BindingResolves(i)
      BY DEF Resolves, BindingsTo
    <3>2. Binding[i].input # None \/ Binding[i].from \in Node
      BY <3>1, BindingTyped, AssemblyAssumption
    <3> QED BY <2>5, <3>1, <3>2 DEF BindingResolves, Delivered
  <2> QED BY <2>6 DEF ResolveInputs, BindingsTo, BindingIndex
<1> QED BY <1>1, <1>2 DEF StepKind, Releases, HandsOut

LEMMA ItemsResolveStep ==
    ASSUME \A n \in Node : EffectiveFiring(n) = "ONCE", HostInv, FiringFollows, ClaimedNotDone,
           InputsStay, ItemsResolve, [HostNext]_hvars
    PROVE  ItemsResolve'
<1>0. StepKind
  BY HostInvStep, StepKinds DEF HostInv
<1>a. ASSUME NEW i, i.node \in Node, Resolves(i.node), i.inputs = ResolveInputs(i.node), UNCHANGED inputs
      PROVE  Resolves(i.node)' /\ i.inputs = ResolveInputs(i.node)'
  BY <1>0, <1>a, ResolvesStays, DeliveryStays DEF HostInv
<1>1. ASSUME UNCHANGED inputs, Inherits PROVE ItemsResolve'
  <2> SUFFICES ASSUME NEW i \in wave' \cup deferred'
               PROVE  Resolves(i.node)' /\ i.inputs = ResolveInputs(i.node)'
    BY DEF ItemsResolve
  <2>1. PICK j \in wave \cup deferred : i.node = j.node /\ i.inputs = j.inputs
    BY <1>1 DEF Inherits
  <2>2. j.node \in Node
    BY DEF HostInv, Thread, Work
  <2> QED BY <1>1, <1>a, <2>1, <2>2 DEF ItemsResolve
<1>2. CASE DriverClaims
  <2>1. PICK filter \in SUBSET Node, k \in Nat : ClaimReady(Driver, filter, k)
    BY <1>2 DEF DriverClaims
  <2>2. UNCHANGED inputs
    BY <2>1 DEF ClaimReady
  <2>3. \A i \in HandedOut : /\ Work(i, DOMAIN attempts')
                             /\ Resolves(i.node) /\ i.inputs = ResolveInputs(i.node)
    BY <1>2, <2>1, HandedItems DEF HostInv, DriverClaims
  <2>4. \A i \in HandedOut : i.node \in Node
    BY <2>3 DEF Work
  <2> QED BY <1>2, <1>a, <2>2, <2>3, <2>4 DEF ItemsResolve, DriverClaims
<1>3. CASE PeerClaims
  <2>1. UNCHANGED inputs
    BY <1>3 DEF PeerClaims, ClaimReady
  <2> QED BY <1>1, <1>3, <2>1, SameItems DEF PeerClaims
<1>4. CASE NoClaims
  BY <1>1, <1>4 DEF NoClaims, ItemsResolve
<1> QED BY <1>2, <1>3, <1>4, DriveKinds

-----------------------------------------------------------------------------
(* The memo *)

\* What an entry may be left by: an earlier run, or a plugin of this process on inputs it may
\* be handed.
Sources ==
    Earlier \cup UNION {{[digest |-> x[1], node |-> x[2], inputs |-> WorkInputs(x[2], ins)] :
                            ins \in [BindingsTo(x[2]) -> Artifact]} : x \in Current \X Node}
SourceKey(e) == KeyOf(e.digest, e.node, e.inputs)
SourceResult(e) == Compute(e.digest, CapabilityOf[e.node], e.inputs)

\* memo.rs "a pure function of (module, module_digest, capability, input artifact ids)": the
\* key tells apart what plugins tell apart.  It does when no port has two bindings; the run
\* memo_fan_in has a port with two.
KeysTellApart == \A e, f \in Sources : SourceKey(e) = SourceKey(f) => SourceResult(e) = SourceResult(f)

\* Every entry is what its key stands for.
MemoExact == \A k \in DOMAIN memo : \A e \in Sources : SourceKey(e) = k => memo[k] = SourceResult(e)

\* The source an item of the Host is.
ItemSource(item) == [digest |-> build, node |-> item.node, inputs |-> WorkInputs(item.node, item.inputs)]

LEMMA ItemIsSource ==
    ASSUME HostInv, NEW item \in wave \cup deferred
    PROVE  /\ ItemSource(item) \in Sources
           /\ SourceKey(ItemSource(item)) = MemoKey(item)
           /\ SourceResult(ItemSource(item)) = Result(item.node, item.inputs)
<1>1. item.node \in Node /\ item.inputs \in [BindingsTo(item.node) -> Artifact] /\ build \in Current
  BY CommitTyped DEF HostInv, Side
<1>2. ItemSource(item) \in Sources
  <2> DEFINE of(x) == {[digest |-> x[1], node |-> x[2], inputs |-> WorkInputs(x[2], ins)] :
                          ins \in [BindingsTo(x[2]) -> Artifact]}
             x0 == <<build, item.node>>
  <2>1. x0 \in Current \X Node /\ x0[1] = build /\ x0[2] = item.node
    BY <1>1
  <2>2. ItemSource(item) \in of(x0)
    BY <1>1 DEF ItemSource
  <2>3. Sources = Earlier \cup UNION {of(x) : x \in Current \X Node}
    BY DEF Sources
  <2> HIDE DEF of, x0
  <2> QED BY <2>1, <2>2, <2>3
<1> QED BY <1>2 DEF ItemSource, SourceKey, SourceResult, MemoKey, Result

\* What the Host commits, from a plugin or from the memo, is what this build computes.
LEMMA CommitsResult ==
    ASSUME HostInv, MemoExact, NEW item \in wave \cup deferred, MemoHit(item)
    PROVE  memo[MemoKey(item)] = Result(item.node, item.inputs)
BY ItemIsSource DEF MemoHit, MemoExact

LEMMA MemoExactStep ==
    ASSUME KeysTellApart, HostInv, MemoExact, [HostNext]_hvars
    PROVE  MemoExact'
<1>0. Sources' = Sources /\ \A e : SourceKey(e)' = SourceKey(e) /\ SourceResult(e)' = SourceResult(e)
  <2>a. \A n, ins : WorkInputs(n, ins)' = WorkInputs(n, ins)
    BY DEF WorkInputs, InOrder, BindingsTo, BindingIndex
  <2>b. \A n : BindingsTo(n)' = BindingsTo(n)
    BY DEF BindingsTo, BindingIndex
  <2>1. Sources' = Sources
    BY <2>a, <2>b DEF Sources
  <2>2. \A e : SourceKey(e)' = SourceKey(e) /\ SourceResult(e)' = SourceResult(e)
    BY DEF SourceKey, SourceResult, KeyOf, InputFingerprintMap
  <2> QED BY <2>1, <2>2
<1>1. CASE UNCHANGED memo
  BY <1>0, <1>1 DEF MemoExact
<1>2. ASSUME NEW item \in wave \cup deferred,
             memo' = MemoAfter(item, Result(item.node, item.inputs), TRUE), memo' # memo
      PROVE  MemoExact'
  <2> DEFINE K == MemoKey(item)
  <2>1. memo' = [k \in DOMAIN memo \cup {K} |->
                   IF k = K THEN Result(item.node, item.inputs) ELSE memo[k]]
    BY <1>2 DEF MemoAfter
  <2>2. \A e \in Sources : SourceKey(e) = K => Result(item.node, item.inputs) = SourceResult(e)
    BY ItemIsSource DEF KeysTellApart
  <2> HIDE DEF K
  <2>3. \A k \in DOMAIN memo' : \A e \in Sources : SourceKey(e) = k => memo'[k] = SourceResult(e)
    BY <2>1, <2>2 DEF MemoExact
  <2> QED BY <1>0, <2>3 DEF MemoExact
<1>3. CASE LookUp \/ Finish
  <2>1. ASSUME NEW item \in wave \cup deferred, NEW next, MemoCommit(item, next)
        PROVE  UNCHANGED memo
    <3>1. memo' \in {memo, MemoAfter(item, memo[MemoKey(item)], FALSE)}
      BY <2>1, CommitTyped, HostCommitted DEF MemoCommit, HostInv
    <3> QED BY <3>1 DEF MemoAfter
  <2>2. ASSUME NEW item \in wave \cup deferred, NEW next, ResultCommit(item, next)
        PROVE  memo' \in {memo, MemoAfter(item, Result(item.node, item.inputs), TRUE)}
    BY <2>2, CommitTyped, HostCommitted DEF ResultCommit, HostInv
  <2> QED BY <1>1, <1>2, <1>3, <2>1, <2>2, HostCommits
<1>4. CASE ~(LookUp \/ Finish)
  BY <1>1, <1>4, NoCommit
<1> QED BY <1>3, <1>4

LEMMA MemoExactInit == ASSUME KeysTellApart, HostInit PROVE MemoExact
<1> DEFINE K == {KeyOf(e.digest, e.node, e.inputs) : e \in Earlier}
           src(k) == CHOOSE e \in Earlier : KeyOf(e.digest, e.node, e.inputs) = k
<1>1. memo = [k \in K |-> Compute(src(k).digest, CapabilityOf[src(k).node], src(k).inputs)]
  BY DEF HostInit
<1>2. \A k \in K : src(k) \in Earlier /\ SourceKey(src(k)) = k
  BY DEF SourceKey
<1> HIDE DEF K, src
<1>3. \A k \in DOMAIN memo : src(k) \in Sources /\ SourceKey(src(k)) = k /\ memo[k] = SourceResult(src(k))
  BY <1>1, <1>2 DEF SourceResult, Sources
<1> QED BY <1>3 DEF KeysTellApart, MemoExact

\* Whatever earlier runs and this one left, from this build and others, an entry the memo
\* serves is what its key stands for, as long as keys tell apart what plugins tell apart.
THEOREM MemoServesResults == ASSUME KeysTellApart PROVE HostSpec => []MemoExact
<1>1. HostInit => MemoExact
  BY MemoExactInit
<1>2. HostInv /\ MemoExact /\ [HostNext]_hvars => MemoExact'
  BY MemoExactStep
<1> QED BY <1>1, <1>2, HostSafe, PTL DEF HostSpec

\* What MemoSound needs beyond MemoExact.
MemoInv == MemoSound /\ SameInputs /\ mine \subseteq done

\* A derivation is added: what was said of the others stays.
LEMMA LoggedResult ==
    ASSUME HostInv, MemoSound, UNCHANGED build, NEW d, derivations' = Append(derivations, d),
           d.unit \in mine' => d.outputs = Result(d.node, d.inputs),
           mine' \subseteq mine \cup {d.unit}, \A j \in DOMAIN derivations : derivations[j].unit # d.unit
    PROVE  MemoSound'
<1>0. \A n, ins : Result(n, ins)' = Result(n, ins)
  BY DEF Result, WorkInputs, InOrder, BindingsTo, BindingIndex
<1>1. /\ DOMAIN derivations = 1..Len(derivations) /\ Len(derivations) \in Nat
      /\ DOMAIN derivations' = 1..(Len(derivations) + 1)
      /\ \A k \in DOMAIN derivations : derivations'[k] = derivations[k]
      /\ derivations'[Len(derivations) + 1] = d
  BY LogGrows DEF HostInv
<1> SUFFICES ASSUME NEW j \in DOMAIN derivations', derivations'[j].unit \in mine'
             PROVE  derivations'[j].outputs = Result(derivations'[j].node, derivations'[j].inputs)
  BY <1>0 DEF MemoSound
<1>2. CASE j \in DOMAIN derivations
  BY <1>1, <1>2 DEF MemoSound
<1>3. CASE j = Len(derivations) + 1
  BY <1>1, <1>3
<1> QED BY <1>1, <1>2, <1>3

\* A step that does not touch the Host's commits: what a peer adds is no unit of the Host's.
LEMMA MemoSoundOther ==
    ASSUME HostInv, MemoInv, ClaimedNotDone, [HostNext]_hvars, UNCHANGED <<mine, build>>
    PROVE  MemoSound' /\ mine' \subseteq done'
<1>0. [AnyCall]_vars /\ StepKind /\ done \subseteq done'
  BY HostInvStep, StepKinds, DoneGrows DEF HostInv
<1>1. CASE UNCHANGED derivations
  <2>1. \A n, ins : Result(n, ins)' = Result(n, ins)
    BY DEF Result, WorkInputs, InOrder, BindingsTo, BindingIndex
  <2> QED BY <1>0, <1>1, <2>1 DEF MemoInv, MemoSound
<1>2. ASSUME NEW w \in Worker, NEW h \in HeldItem(DOMAIN attempts), NEW outs \in Outputs,
             Accepts(w, h, outs)
      PROVE  MemoSound' /\ mine' \subseteq done'
  <2>1. h.unit \in DOMAIN claimed /\ derivations' = Append(derivations, Recorded(h, outs))
    BY <1>2 DEF Accepts
  <2>2. h.unit \notin done
    BY <2>1 DEF ClaimedNotDone
  <2>3. \A j \in DOMAIN derivations : derivations[j].unit \in done
    BY LoggedDone DEF HostInv
  <2>4. Recorded(h, outs).unit = h.unit
    BY DEF Recorded
  <2> DEFINE d == Recorded(h, outs)
  <2>5. d.unit \notin mine' /\ \A j \in DOMAIN derivations : derivations[j].unit # d.unit
    BY <2>2, <2>3, <2>4 DEF MemoInv
  <2> HIDE DEF d
  <2>6. MemoSound'
    BY <2>1, <2>5, LoggedResult DEF MemoInv, d
  <2> QED BY <1>0, <2>6 DEF MemoInv
<1> QED BY <1>0, <1>1, <1>2 DEF StepKind, Releases, HandsOut

\* The Host's own commit: the kernel records the inputs the Host computed from.
LEMMA MemoSoundCommit ==
    ASSUME HostInv, MemoInv, ClaimedNotDone, FiringFollows, [HostNext]_hvars, UNCHANGED build,
           NEW item \in wave \cup deferred, NEW outs, outs = Result(item.node, item.inputs),
           NEW puts, NEW next, HostCommit(item, outs, puts, next)
    PROVE  MemoSound' /\ mine' \subseteq done'
<1>1. CASE UNCHANGED mine
  BY <1>1, MemoSoundOther
<1>2. CASE /\ state = "RUNNING"
           /\ CommitAccept(Driver, Claim(item), outs, None)
           /\ mine' = mine \cup {item.unit}
  <2>1. Claim(item).unit = item.unit /\ Driver \in Worker /\ TypeOK
    BY HostAssumption DEF Claim, HostInv
  <2>2. Accepts(Driver, Claim(item), outs)
    BY <1>2, <2>1, PlainCommit
  <2>3. item.unit \in DOMAIN claimed /\ derivations' = Append(derivations, Recorded(Claim(item), outs))
    BY <2>1, <2>2 DEF Accepts
  <2>4. claimed[item.unit].inputs = item.inputs
    BY <2>3 DEF MemoInv, SameInputs
  <2>5. claimed[item.unit].node = item.node
    <3>1. item.unit.node = item.node
      BY DEF HostInv, Thread, Work
    <3> QED BY <2>3, <3>1 DEF FiringFollows, FiringOf
  <2> DEFINE d == Recorded(Claim(item), outs)
  <2>6. d.unit = item.unit /\ d.outputs = Result(d.node, d.inputs)
    BY <2>1, <2>4, <2>5 DEF Recorded
  <2>7. \A j \in DOMAIN derivations : derivations[j].unit # item.unit
    BY <2>1, <2>3, LoggedDone DEF ClaimedNotDone
  <2> HIDE DEF d
  <2>8. MemoSound'
    BY <1>2, <2>3, <2>6, <2>7, LoggedResult DEF MemoInv, d
  <2>9. done' = done \cup Exhausted(claimed) \cup {item.unit}
    BY <1>2, <2>1 DEF CommitAccept
  <2> QED BY <1>2, <2>8, <2>9 DEF MemoInv
<1> QED BY <1>1, <1>2 DEF HostCommit

LEMMA MemoInvStep ==
    ASSUME HostInv, MemoExact, MemoInv, ClaimedNotDone, FiringFollows, [HostNext]_hvars,
           Worker = {Driver} \/ ItemsResolve
    PROVE  MemoInv'
<1>0. SameInputs'
  BY SameInputsStep DEF MemoInv
<1>1. CASE ~(LookUp \/ Finish)
  BY <1>0, <1>1, NoCommit, MemoSoundOther DEF MemoInv
<1>2. CASE LookUp \/ Finish
  <2>1. UNCHANGED build
    BY <1>2, HostCommits
  <2>2. CASE UNCHANGED <<mine, shown, memo, derivations>>
    BY <1>0, <2>1, <2>2, MemoSoundOther DEF MemoInv
  <2>3. ASSUME NEW item \in wave \cup deferred, NEW next, MemoCommit(item, next)
        PROVE  MemoInv'
    <3>1. memo[MemoKey(item)] = Result(item.node, item.inputs)
      BY <2>3, CommitsResult DEF MemoCommit
    <3> QED BY <1>0, <2>1, <2>3, <3>1, MemoSoundCommit DEF MemoCommit, MemoInv
  <2>4. ASSUME NEW item \in wave \cup deferred, NEW next, ResultCommit(item, next)
        PROVE  MemoInv'
    BY <1>0, <2>1, <2>4, MemoSoundCommit DEF ResultCommit, MemoInv
  <2> QED BY <1>2, <2>2, <2>3, <2>4, HostCommits
<1> QED BY <1>1, <1>2

LEMMA MemoInvInit == HostInit => MemoInv /\ ItemsResolve
BY DEF HostInit, Init, MemoInv, MemoSound, SameInputs, ItemsResolve

\* Whether it executed a plugin or reused an entry, the Host commits what this build computes
\* from the inputs the kernel records for the unit; when keys tell apart what plugins tell
\* apart, and either the Host is the only client or every node fires ONCE.  Otherwise a unit
\* whose lease lapsed may be handed to a peer with newer inputs, and the kernel takes the
\* Host's late outputs for them.
THEOREM MemoReuse ==
    ASSUME KeysTellApart, Worker = {Driver} \/ \A n \in Node : EffectiveFiring(n) = "ONCE"
    PROVE  HostSpec => []MemoSound
<1>0. /\ HostSpec => []HostInv /\ Engine
      /\ HostSpec => []MemoExact
      /\ Engine => []FiringFollows
      /\ Engine => []ClaimedNotDone
  BY HostSafe, MemoServesResults, EngineFiringFollows, EngineDiscipline, PTL
<1>1. MemoInv => MemoSound
  BY DEF MemoInv
<1>2. CASE Worker = {Driver}
  <2>1. HostInv /\ MemoExact /\ MemoInv /\ ClaimedNotDone /\ FiringFollows /\ [HostNext]_hvars => MemoInv'
    BY <1>2, MemoInvStep
  <2> QED BY <1>0, <1>1, <2>1, MemoInvInit, PTL DEF HostSpec
<1>3. CASE \A n \in Node : EffectiveFiring(n) = "ONCE"
  <2>0. Engine => []InputsStay
    BY <1>3, EngineInputsStay
  <2>1. HostInv /\ FiringFollows /\ ClaimedNotDone /\ InputsStay /\ ItemsResolve /\ [HostNext]_hvars
          => ItemsResolve'
    BY <1>3, ItemsResolveStep
  <2>2. HostInv /\ MemoExact /\ MemoInv /\ ClaimedNotDone /\ FiringFollows /\ ItemsResolve
          /\ [HostNext]_hvars => MemoInv'
    BY MemoInvStep
  <2> QED BY <1>0, <1>1, <2>0, <2>1, <2>2, MemoInvInit, PTL DEF HostSpec
<1> QED BY <1>2, <1>3

-----------------------------------------------------------------------------
(* Rows *)

\* InOrder lists the numbers of a set: each is somewhere in it, and nothing else is.
LEMMA InOrderLists ==
    ASSUME NEW S, IsFiniteSet(S), S \subseteq Nat
    PROVE  /\ Cardinality(S) \in Nat
           /\ InOrder(S) \in [1..Cardinality(S) -> S]
           /\ \A j \in S : \E k \in 1..Cardinality(S) : InOrder(S)[k] = j
<1> DEFINE n == Cardinality(S)
           upTo(j) == {l \in S : l <= j}
           rank == [j \in S |-> Cardinality(upTo(j))]
<1>0. n \in Nat
  BY FS_CardinalityType
<1>1. \A j \in S : IsFiniteSet(upTo(j)) /\ Cardinality(upTo(j)) <= n /\ Cardinality(upTo(j)) \in Nat
  <2> SUFFICES ASSUME NEW j \in S
               PROVE  IsFiniteSet(upTo(j)) /\ Cardinality(upTo(j)) <= n /\ Cardinality(upTo(j)) \in Nat
    OBVIOUS
  <2>1. upTo(j) \in SUBSET S
    OBVIOUS
  <2> HIDE DEF upTo
  <2> QED BY <2>1, FS_Subset, FS_CardinalityType
<1>2. \A j \in S : Cardinality(upTo(j)) # 0
  BY <1>1, FS_EmptySet
<1>3. \A i, j \in S : Cardinality(upTo(i)) = Cardinality(upTo(j)) => i = j
  <2>1. ASSUME NEW i \in S, NEW j \in S, i < j PROVE Cardinality(upTo(i)) # Cardinality(upTo(j))
    <3>0. i \in Nat /\ j \in Nat /\ \A l \in S : l \in Nat
      OBVIOUS
    <3>a. j \in upTo(j) /\ j \notin upTo(i)
      BY <2>1, <3>0
    <3>b. \A l \in upTo(i) : l \in upTo(j)
      BY <2>1, <3>0
    <3>1. upTo(i) \in SUBSET upTo(j) /\ upTo(i) # upTo(j)
      BY <3>a, <3>b
    <3>2. IsFiniteSet(upTo(j))
      BY <1>1
    <3> HIDE DEF upTo
    <3> QED BY <3>1, <3>2, FS_Subset
  <2>2. \A i, j \in S : i # j => i < j \/ j < i
    OBVIOUS
  <2> HIDE DEF upTo
  <2> QED BY <2>1, <2>2
<1> HIDE DEF upTo
<1>4. rank \in [S -> 1..n] /\ \A j \in S : rank[j] = Cardinality(upTo(j))
  BY <1>0, <1>1, <1>2
<1>5. rank \in Injection(S, 1..n)
  <2>1. \A i, j \in S : rank[i] = rank[j] => i = j
    BY <1>3, <1>4
  <2> HIDE DEF rank
  <2> QED BY <1>4, <2>1 DEF Injection, IsInjective
<1>6. IsFiniteSet(1..n) /\ Cardinality(1..n) = n
  BY <1>0, FS_Interval
<1> HIDE DEF rank
<1>7. rank \in Surjection(S, 1..n)
  BY <1>5, <1>6, FS_Injection
<1>8. \A k \in 1..n : \E j \in S : Cardinality(upTo(j)) = k
  BY <1>4, <1>7 DEF Surjection
<1>9. InOrder(S) = [k \in 1..n |-> CHOOSE j \in S : Cardinality(upTo(j)) = k]
  BY DEF InOrder, upTo
<1> HIDE DEF n
<1>10. InOrder(S) \in [1..n -> S]
  BY <1>8, <1>9
<1>11. ASSUME NEW j \in S PROVE \E k \in 1..n : InOrder(S)[k] = j
  <2>1. rank[j] \in 1..n /\ rank[j] = Cardinality(upTo(j))
    BY <1>4
  <2>2. InOrder(S)[rank[j]] = j
    BY <1>3, <1>9, <2>1
  <2> QED BY <2>1, <2>2
<1> QED BY <1>0, <1>10, <1>11 DEF n

\* What a write may do to the rows of a table: the new row aside, none appears, and those of
\* other runs stay if the table is shared.
Outcome(t, old, new, row) ==
    /\ \A k \in DOMAIN new : new[k] = row \/ \E l \in DOMAIN old : new[k] = old[l]
    /\ t \notin RunTable =>
         \A l \in DOMAIN old : old[l].run # row.run => \E k \in DOMAIN new : new[k] = old[l]

LEMMA Appended ==
    ASSUME NEW R, NEW rows \in Seq(R), NEW row \in R
    PROVE  /\ Append(rows, row) \in Seq(R) /\ Len(rows) \in Nat
           /\ DOMAIN rows = 1..Len(rows) /\ DOMAIN Append(rows, row) = 1..(Len(rows) + 1)
           /\ \A k \in 1..Len(rows) : Append(rows, row)[k] = rows[k]
           /\ Append(rows, row)[Len(rows) + 1] = row
OBVIOUS

LEMMA AppendOutcome ==
    ASSUME NEW R, NEW rows \in Seq(R), NEW row \in R, NEW t
    PROVE  Append(rows, row) \in Seq(R) /\ Outcome(t, rows, Append(rows, row), row)
<1> DEFINE new == Append(rows, row)
<1>1. /\ new \in Seq(R) /\ Len(rows) \in Nat
      /\ DOMAIN rows = 1..Len(rows) /\ DOMAIN new = 1..(Len(rows) + 1)
      /\ \A k \in 1..Len(rows) : new[k] = rows[k]
      /\ new[Len(rows) + 1] = row
  BY Appended
<1> HIDE DEF new
<1>2. \A k \in DOMAIN new : new[k] = row \/ \E l \in DOMAIN rows : new[k] = rows[l]
  BY <1>1
<1>3. \A l \in DOMAIN rows : l \in DOMAIN new /\ new[l] = rows[l]
  BY <1>1
<1>4. new \in Seq(R) /\ Outcome(t, rows, new, row)
  BY <1>1, <1>2, <1>3 DEF Outcome
<1> QED BY <1>4 DEF new

LEMMA ReplaceOutcome ==
    ASSUME NEW R, NEW rows \in Seq(R), NEW row \in R, NEW t
    PROVE  Replaced(t, rows, row) \in Seq(R) /\ Outcome(t, rows, Replaced(t, rows, row), row)
<1>1. CASE t \in RunTable
  <2>1. Replaced(t, rows, row) = <<row>>
    BY <1>1 DEF Replaced
  <2> QED BY <1>1, <2>1 DEF Outcome
<1>2. CASE t \notin RunTable
  <2> DEFINE S == {k \in DOMAIN rows : rows[k].run # row.run}
             kept == InOrder(S)
             left == [k \in DOMAIN kept |-> rows[kept[k]]]
  <2>1. Replaced(t, rows, row) = Append(left, row)
    BY <1>2 DEF Replaced
  <2>2. S \subseteq Nat /\ IsFiniteSet(S)
    <3>1. DOMAIN rows = 1..Len(rows) /\ Len(rows) \in Nat
      OBVIOUS
    <3>2. IsFiniteSet(1..Len(rows)) /\ S \in SUBSET (1..Len(rows))
      BY <3>1, FS_Interval
    <3> HIDE DEF S
    <3>3. IsFiniteSet(S)
      BY <3>2, FS_Subset
    <3>4. 1..Len(rows) \subseteq Nat
      BY <3>1
    <3> QED BY <3>2, <3>3, <3>4
  <2>3. S \subseteq DOMAIN rows /\ \A k \in DOMAIN rows : rows[k].run # row.run => k \in S
    OBVIOUS
  <2>4. \A k \in DOMAIN rows : rows[k] \in R
    OBVIOUS
  <2> HIDE DEF S
  <2>5. /\ Cardinality(S) \in Nat /\ kept \in [1..Cardinality(S) -> S]
        /\ \A j \in S : \E k \in 1..Cardinality(S) : kept[k] = j
    BY <2>2, InOrderLists
  <2> HIDE DEF kept
  <2>6. /\ left = [k \in 1..Cardinality(S) |-> rows[kept[k]]]
        /\ \A k \in 1..Cardinality(S) : rows[kept[k]] \in R
    BY <2>3, <2>4, <2>5
  <2>7. left \in Seq(R) /\ DOMAIN left = 1..Cardinality(S) /\ Len(left) = Cardinality(S)
    BY <2>5, <2>6
  <2>8. /\ \A k \in DOMAIN left : kept[k] \in DOMAIN rows /\ left[k] = rows[kept[k]]
        /\ \A j \in S : \E k \in DOMAIN left : left[k] = rows[j]
    BY <2>3, <2>5, <2>6, <2>7
  <2> HIDE DEF left
  <2>9. Append(left, row) \in Seq(R) /\ Outcome(t, left, Append(left, row), row)
    BY <2>7, AppendOutcome
  <2> DEFINE new == Append(left, row)
  <2>10. /\ \A k \in 1..Len(left) : new[k] = left[k]
         /\ DOMAIN new = 1..(Len(left) + 1) /\ Len(left) \in Nat
    BY <2>7, Appended
  <2> HIDE DEF new
  <2>11. \A l \in DOMAIN rows : rows[l].run # row.run => \E k \in DOMAIN new : new[k] = rows[l]
    BY <2>3, <2>7, <2>8, <2>10
  <2>12. \A k \in DOMAIN new : new[k] = row \/ \E l \in DOMAIN rows : new[k] = rows[l]
    BY <2>8, <2>9 DEF Outcome, new
  <2> QED BY <2>1, <2>9, <2>11, <2>12 DEF Outcome, new
<1> QED BY <1>1, <1>2

LEMMA UpsertOutcome ==
    ASSUME NEW R, NEW rows \in Seq(R), NEW row \in R, NEW t
    PROVE  Upserted(rows, row) \in Seq(R) /\ Outcome(t, rows, Upserted(rows, row), row)
<1> DEFINE same == {k \in DOMAIN rows : rows[k].run = row.run /\ rows[k].unit = row.unit}
           new == [k \in DOMAIN rows |->
                      IF k \in same /\ \A l \in same : k <= l THEN row ELSE rows[k]]
<1>1. CASE same = {}
  <2>1. Upserted(rows, row) = Append(rows, row)
    BY <1>1 DEF Upserted
  <2> QED BY <2>1, AppendOutcome
<1>2. CASE same # {}
  <2>1. Upserted(rows, row) = new
    BY <1>2 DEF Upserted
  <2>2. DOMAIN rows = 1..Len(rows) /\ Len(rows) \in Nat /\ \A k \in DOMAIN rows : rows[k] \in R
    OBVIOUS
  <2>3. /\ DOMAIN new = DOMAIN rows
        /\ \A k \in DOMAIN rows : new[k] = row \/ new[k] = rows[k]
        /\ \A k \in DOMAIN rows : rows[k].run # row.run => new[k] = rows[k]
    OBVIOUS
  <2>4. new \in [1..Len(rows) -> R]
    <3> HIDE DEF same
    <3> QED BY <2>2
  <2> HIDE DEF new
  <2>5. new \in Seq(R)
    BY <2>2, <2>4
  <2>6. Outcome(t, rows, new, row)
    BY <2>3 DEF Outcome
  <2> QED BY <2>1, <2>5, <2>6
<1> QED BY <1>1, <1>2

\* The same for all tables, of which some may be new.
Touch(old, new, row) ==
    /\ DOMAIN old \subseteq DOMAIN new
    /\ \A t \in DOMAIN new : \A k \in DOMAIN new[t] :
         new[t][k] = row \/ (t \in DOMAIN old /\ \E l \in DOMAIN old[t] : new[t][k] = old[t][l])
    /\ \A t \in DOMAIN old \ RunTable : \A l \in DOMAIN old[t] :
         old[t][l].run # row.run => \E k \in DOMAIN new[t] : new[t][k] = old[t][l]
Tables(tb, R) == \A t \in DOMAIN tb : tb[t] \in Seq(R)

LEMMA TouchNone == ASSUME NEW tb, NEW row PROVE Touch(tb, tb, row)
BY DEF Touch

LEMMA TouchTwice ==
    ASSUME NEW a, NEW b, NEW c, NEW row, Touch(a, b, row), Touch(b, c, row)
    PROVE  Touch(a, c, row)
<1>1. DOMAIN a \subseteq DOMAIN c
  BY DEF Touch
<1>2. ASSUME NEW t \in DOMAIN c, NEW k \in DOMAIN c[t]
      PROVE  c[t][k] = row \/ (t \in DOMAIN a /\ \E l \in DOMAIN a[t] : c[t][k] = a[t][l])
  <2>1. c[t][k] = row \/ (t \in DOMAIN b /\ \E l \in DOMAIN b[t] : c[t][k] = b[t][l])
    BY DEF Touch
  <2> QED BY <2>1 DEF Touch
<1>3. ASSUME NEW t \in DOMAIN a \ RunTable, NEW l \in DOMAIN a[t], a[t][l].run # row.run
      PROVE  \E k \in DOMAIN c[t] : c[t][k] = a[t][l]
  <2>1. PICK m \in DOMAIN b[t] : b[t][m] = a[t][l]
    BY <1>3 DEF Touch
  <2>2. t \in DOMAIN b \ RunTable /\ b[t][m].run # row.run
    BY <1>3, <2>1 DEF Touch
  <2> QED BY <2>1, <2>2 DEF Touch
<1> QED BY <1>1, <1>2, <1>3 DEF Touch

LEMMA WrittenAt ==
    ASSUME NEW tb, NEW t, NEW mode, NEW row
    PROVE  /\ \A x \in DOMAIN tb \ {t} : Written(tb, t, mode, row)[x] = tb[x]
           /\ t \in DOMAIN tb =>
                Written(tb, t, mode, row)[t] = IF mode = "APPEND" THEN Append(tb[t], row)
                                               ELSE IF mode = "REPLACE" THEN Replaced(t, tb[t], row)
                                               ELSE Upserted(tb[t], row)
BY DEF Written

LEMMA WrittenAppends ==
    ASSUME NEW tb, NEW t \in DOMAIN tb, NEW row
    PROVE  Written(tb, t, "APPEND", row)[t] = Append(tb[t], row)
BY DEF Written

LEMMA WrittenTouches ==
    ASSUME NEW R, NEW tb, Tables(tb, R), NEW row \in R, NEW t, NEW mode
    PROVE  Tables(Written(tb, t, mode, row), R) /\ Touch(tb, Written(tb, t, mode, row), row)
<1> DEFINE w == Written(tb, t, mode, row)
<1>1. DOMAIN w = DOMAIN tb
  BY WrittenDomain
<1>2. \A x \in DOMAIN tb \ {t} : w[x] = tb[x]
  BY WrittenAt
<1>3. ASSUME t \in DOMAIN tb PROVE w[t] \in Seq(R) /\ Outcome(t, tb[t], w[t], row)
  <2>1. tb[t] \in Seq(R)
    BY <1>3 DEF Tables
  <2>2. w[t] \in {Append(tb[t], row), Replaced(t, tb[t], row), Upserted(tb[t], row)}
    <3>1. w[t] = IF mode = "APPEND" THEN Append(tb[t], row)
                 ELSE IF mode = "REPLACE" THEN Replaced(t, tb[t], row)
                 ELSE Upserted(tb[t], row)
      BY <1>3, WrittenAt
    <3> HIDE DEF w
    <3> QED BY <3>1
  <2> HIDE DEF w
  <2> QED BY <2>1, <2>2, AppendOutcome, ReplaceOutcome, UpsertOutcome
<1> HIDE DEF w
<1>4. Tables(w, R)
  BY <1>1, <1>2, <1>3 DEF Tables
<1>5. Touch(tb, w, row)
  BY <1>1, <1>2, <1>3 DEF Touch, Outcome
<1> QED BY <1>4, <1>5 DEF w

LEMMA EnsuredTouches ==
    ASSUME NEW R, NEW tb, Tables(tb, R), NEW ts, NEW row
    PROVE  Tables(Ensured(tb, ts), R) /\ Touch(tb, Ensured(tb, ts), row)
<1> DEFINE e == Ensured(tb, ts)
<1>1. /\ DOMAIN e = DOMAIN tb \cup ts
      /\ \A t \in DOMAIN tb : e[t] = tb[t]
      /\ \A t \in ts \ DOMAIN tb : e[t] = << >>
  BY DEF Ensured
<1> HIDE DEF e
<1>2. << >> \in Seq(R) /\ DOMAIN << >> = {}
  OBVIOUS
<1>3. Tables(e, R)
  BY <1>1, <1>2 DEF Tables
<1>4. Touch(tb, e, row)
  BY <1>1, <1>2 DEF Touch
<1> QED BY <1>3, <1>4 DEF e

\* apply_step_storage: one row more, in the module's table and in the log; and the log has it
\* unless the backend failed.
LEMMA StoreTouches ==
    ASSUME Side, NEW R, Tables(tables, R), NEW item, NEW ok, NEW next, NEW failed,
           Row(item, ok) \in R, StoreRows(item, ok, next, failed)
    PROVE  /\ Tables(tables', R) /\ Touch(tables, tables', Row(item, ok))
           /\ policy # None /\ policy.log /\ LogTable(policy) \in DOMAIN tables =>
                \/ tables'[LogTable(policy)] = Append(tables[LogTable(policy)], Row(item, ok))
                \/ tables'[LogTable(policy)] = tables[LogTable(policy)] /\ breaks' # 0
<1> DEFINE row == Row(item, ok)
           log == LogTable(policy)
<1>1. PICK r \in StorageResults(item, ok) :
        /\ tables' = r.tables
        /\ breaks' = (IF r.ok THEN breaks ELSE breaks + 1)
  BY DEF StoreRows
<1>2. CASE policy = None
  <2>1. r = [tables |-> tables, ok |-> TRUE]
    BY <1>2 DEF StorageResults
  <2> QED BY <1>1, <1>2, <2>1, TouchNone
<1>3. CASE policy # None
  <2> DEFINE m == ModuleOf[item.node]
             hasTable == HasModuleTables(policy) /\ m \in Schemas
             own == ModuleTable(policy, m)
             afterModule == IF ~hasTable THEN tables ELSE Written(tables, own, policy.write, row)
             ensured == Ensured(afterModule, {log})
             logged == Written(ensured, log, "APPEND", row)
             afterLog == IF ~policy.log THEN afterModule ELSE logged
             broken == (IF hasTable THEN {tables} ELSE {})
                         \cup (IF policy.log THEN {afterModule} ELSE {})
  <2>1. r \in {[tables |-> afterLog, ok |-> TRUE]}
               \cup (IF breaks < MaxBreaks THEN {[tables |-> t, ok |-> FALSE] : t \in broken}
                     ELSE {})
    BY <1>3 DEF StorageResults
  <2>2. Tables(afterModule, R) /\ Touch(tables, afterModule, row)
    <3>1. CASE ~hasTable
      BY <3>1, TouchNone
    <3>2. CASE hasTable
      <4>1. afterModule = Written(tables, own, policy.write, row)
        BY <3>2
      <4> HIDE DEF afterModule, row, own
      <4> QED BY <4>1, WrittenTouches DEF row
    <3> QED BY <3>1, <3>2
  <2>3. log \in DOMAIN tables => log \in DOMAIN afterModule /\ afterModule[log] = tables[log]
    <3>1. CASE ~hasTable
      BY <3>1
    <3>2. CASE hasTable
      <4>1. own # log
        BY <3>2, HostAssumption DEF ModuleTable, LogTable
      <4>2. afterModule = Written(tables, own, policy.write, row)
        BY <3>2
      <4> HIDE DEF afterModule, row, own, log
      <4> QED BY <4>1, <4>2, WrittenAt, WrittenDomain
    <3> QED BY <3>1, <3>2
  <2>4. \A t \in broken : t = tables \/ t = afterModule
    OBVIOUS
  <2> HIDE DEF afterModule, broken
  <2>5. Tables(ensured, R) /\ Touch(afterModule, ensured, row)
    BY <2>2, EnsuredTouches
  <2>6. /\ DOMAIN ensured = DOMAIN afterModule \cup {log}
        /\ log \in DOMAIN afterModule => ensured[log] = afterModule[log]
    BY DEF Ensured
  <2> HIDE DEF ensured, row
  <2>7. Tables(logged, R) /\ Touch(ensured, logged, row)
    BY <2>5, WrittenTouches DEF row
  <2>8. logged[log] = Append(ensured[log], row)
    <3>1. log \in DOMAIN ensured
      BY <2>6
    <3> HIDE DEF log
    <3> QED BY <3>1, WrittenAppends
  <2> HIDE DEF logged
  <2>9. Tables(afterLog, R) /\ Touch(tables, afterLog, row)
    BY <2>2, <2>5, <2>7, TouchTwice
  <2>10. policy.log /\ log \in DOMAIN tables => afterLog[log] = Append(tables[log], row)
    BY <2>3, <2>6, <2>8
  <2> HIDE DEF afterLog, log
  <2>11. CASE r.tables = afterLog
    BY <1>1, <2>9, <2>10, <2>11 DEF row, log
  <2>12. CASE r.tables \in broken /\ ~r.ok
    <3>1. breaks' # 0
      BY <1>1, <2>12, HostAssumption DEF Side
    <3> QED BY <1>1, <2>2, <2>3, <2>4, <2>12, <3>1, TouchNone DEF row, log
  <2> QED BY <2>1, <2>11, <2>12
<1> QED BY <1>2, <1>3

\* The row of a commit of unit u.
Done(u) == [run |-> "this", unit |-> u, ok |-> TRUE]
RowSet(units) == [run : {"this", "earlier"}, unit : units \cup {None}, ok : BOOLEAN]

RowsOwn ==
    \A t \in DOMAIN tables : \A k \in DOMAIN tables[t] :
        tables[t][k].run = "this" /\ tables[t][k].ok => tables[t][k].unit \in mine
OldKept == \A t \in SharedTable : t \in DOMAIN tables /\ \E k \in DOMAIN tables[t] : tables[t][k] = OldRow
PerRunOnly == policy # None /\ policy.mode = "PER_RUN" => runTables \subseteq RunTable
LogOnce ==
    policy # None /\ policy.log =>
      /\ LogTable(policy) \in DOMAIN tables
      /\ \A u \in mine :
           LET log == tables[LogTable(policy)] IN
           /\ \A k, l \in DOMAIN log : log[k] = Done(u) /\ log[l] = Done(u) => k = l
           /\ breaks = 0 => \E k \in DOMAIN log : log[k] = Done(u)

\* What the rows say, with what that rests on: the Host's units are DONE, so it commits none
\* twice, and a policy is there only for a run that has started.
RowInv ==
    /\ Tables(tables, RowSet(DOMAIN attempts)) /\ RowsOwn /\ OldKept /\ PerRunOnly /\ LogOnce
    /\ mine \subseteq done /\ (state = "NONE" => mine = {} /\ policy = None)

LEMMA TablesGrow ==
    ASSUME NEW R, NEW S, R \subseteq S, NEW tb, Tables(tb, R)
    PROVE  Tables(tb, S)
BY SeqOver DEF Tables

LEMMA NeverUnstarted ==
    ASSUME TypeOK, [AnyCall]_vars, state' = "NONE"
    PROVE  state = "NONE"
<1>1. StepKind
  BY StepKinds
<1> QED BY <1>1 DEF StepKind, Releases, Accepts, HandsOut, StateAfterCommit

\* Rows are only taken away, with their tables and with the policy, or not at all.
LEMMA RowsTaken ==
    ASSUME HostInv, RowInv, [AnyCall]_vars, UNCHANGED mine,
           DOMAIN tables' \subseteq DOMAIN tables, SharedTable \subseteq DOMAIN tables',
           \A t \in DOMAIN tables' : tables'[t] = tables[t],
           policy' = None \/ UNCHANGED <<policy, runTables, tables, breaks>>
    PROVE  RowInv'
<1>1. /\ DOMAIN attempts \subseteq DOMAIN attempts' /\ done \subseteq done'
      /\ state' = "NONE" => state = "NONE"
  BY AttemptsGrow, DoneGrows, NeverUnstarted DEF HostInv
<1>2. RowSet(DOMAIN attempts) \subseteq RowSet(DOMAIN attempts')
  BY <1>1 DEF RowSet
<1>3. Tables(tables', RowSet(DOMAIN attempts'))
  <2>1. Tables(tables', RowSet(DOMAIN attempts))
    BY DEF RowInv, Tables
  <2> QED BY <1>2, <2>1, TablesGrow
<1>4. RowsOwn'
  BY DEF RowInv, RowsOwn
<1>7. OldKept'
  <2>1. OldKept
    BY DEF RowInv
  <2> SUFFICES ASSUME NEW t \in SharedTable
               PROVE  t \in DOMAIN tables' /\ \E k \in DOMAIN tables'[t] : tables'[t][k] = OldRow
    BY DEF OldKept, SharedTable, OldRow
  <2>2. t \in DOMAIN tables' /\ tables'[t] = tables[t]
    OBVIOUS
  <2> QED BY <2>1, <2>2 DEF OldKept
<1>5. PerRunOnly' /\ LogOnce'
  <2>1. CASE policy' = None
    BY <2>1 DEF PerRunOnly, LogOnce
  <2>2. CASE UNCHANGED <<policy, runTables, tables, breaks>>
    BY <2>2 DEF RowInv, PerRunOnly, LogOnce, RunTable, LogTable, Done
  <2> QED BY <2>1, <2>2
<1>6. (Tables(tables, RowSet(DOMAIN attempts)))'
  BY <1>3 DEF Tables, RowSet
<1> QED BY <1>1, <1>4, <1>5, <1>6, <1>7 DEF RowInv

\* A step's row: for a unit the Host has just committed, or for one that failed.
LEMMA RowsAdded ==
    ASSUME HostInv, RowInv, [AnyCall]_vars, NEW item, item.unit \in DOMAIN attempts,
           NEW ok \in BOOLEAN, NEW next, NEW failed, StoreRows(item, ok, next, failed),
           UNCHANGED <<policy, runTables>>,
           mine' = (IF ok THEN mine \cup {item.unit} ELSE mine),
           ok => item.unit \notin mine /\ item.unit \in done' /\ state # "NONE"
    PROVE  RowInv'
<1> DEFINE R == RowSet(DOMAIN attempts')
           row == Row(item, ok)
<1>1. /\ DOMAIN attempts \subseteq DOMAIN attempts' /\ done \subseteq done'
      /\ state' = "NONE" => state = "NONE"
  BY AttemptsGrow, DoneGrows, NeverUnstarted DEF HostInv
<1>2. RowSet(DOMAIN attempts) \subseteq R /\ row \in R
  BY <1>1 DEF RowSet, Row
<1>3. row = [run |-> "this", unit |-> item.unit, ok |-> ok]
  BY DEF Row
<1>4. Tables(tables, RowSet(DOMAIN attempts)) /\ RowsOwn /\ OldKept /\ PerRunOnly /\ LogOnce
  BY DEF RowInv
<1> HIDE DEF R
<1>5. Tables(tables, R)
  BY <1>2, <1>4, TablesGrow
<1>6. /\ Tables(tables', R) /\ Touch(tables, tables', Row(item, ok))
      /\ policy # None /\ policy.log /\ LogTable(policy) \in DOMAIN tables =>
           \/ tables'[LogTable(policy)] = Append(tables[LogTable(policy)], Row(item, ok))
           \/ tables'[LogTable(policy)] = tables[LogTable(policy)] /\ breaks' # 0
  <2>1. Row(item, ok) \in R
    BY <1>2
  <2> QED BY <1>5, <2>1, StoreTouches DEF HostInv
<1>7. RowsOwn'
  <2> SUFFICES ASSUME NEW t \in DOMAIN tables', NEW k \in DOMAIN tables'[t],
                      tables'[t][k].run = "this", tables'[t][k].ok
               PROVE  tables'[t][k].unit \in mine'
    BY DEF RowsOwn
  <2>1. \/ tables'[t][k] = row
        \/ t \in DOMAIN tables /\ \E l \in DOMAIN tables[t] : tables'[t][k] = tables[t][l]
    BY <1>6 DEF Touch
  <2>2. CASE tables'[t][k] = row
    BY <1>3, <2>2
  <2> HIDE DEF row
  <2> QED BY <1>4, <2>1, <2>2 DEF RowsOwn
<1>8. OldKept'
  <2> SUFFICES ASSUME NEW t \in SharedTable
               PROVE  t \in DOMAIN tables' /\ \E k \in DOMAIN tables'[t] : tables'[t][k] = OldRow
    BY DEF OldKept, SharedTable, OldRow
  <2>1. t \notin RunTable
    BY DEF SharedTable, RunTable
  <2>2. PICK l \in DOMAIN tables[t] : t \in DOMAIN tables /\ tables[t][l] = OldRow
    BY <1>4 DEF OldKept
  <2>3. tables[t][l].run # Row(item, ok).run
    BY <2>2 DEF OldRow, Row
  <2>4. \E k \in DOMAIN tables'[t] : tables'[t][k] = tables[t][l]
    BY <1>6, <2>1, <2>2, <2>3 DEF Touch
  <2> QED BY <1>6, <2>2, <2>4 DEF Touch
<1>9. PerRunOnly'
  BY <1>4 DEF PerRunOnly, RunTable
<1>10. LogOnce'
  <2> DEFINE log == LogTable(policy)
  <2>0. LogTable(policy)' = log
    BY DEF LogTable
  <2> SUFFICES ASSUME policy # None, policy.log
               PROVE  /\ log \in DOMAIN tables'
                      /\ \A u \in mine' :
                           /\ \A k, l \in DOMAIN tables'[log] :
                                tables'[log][k] = Done(u) /\ tables'[log][l] = Done(u) => k = l
                           /\ breaks' = 0 => \E k \in DOMAIN tables'[log] : tables'[log][k] = Done(u)
    BY <2>0 DEF LogOnce, Done
  <2>1. /\ log \in DOMAIN tables
        /\ \A u \in mine :
             /\ \A k, l \in DOMAIN tables[log] :
                  tables[log][k] = Done(u) /\ tables[log][l] = Done(u) => k = l
             /\ breaks = 0 => \E k \in DOMAIN tables[log] : tables[log][k] = Done(u)
    BY <1>4 DEF LogOnce
  <2>2. log \in DOMAIN tables' /\ breaks' \in {breaks, breaks + 1}
    BY <1>6, <2>1 DEF Touch, StoreRows
  <2>3. breaks' = 0 => breaks = 0
    BY <2>2 DEF HostInv, Side
  <2>4. \A u \in mine' \ mine : u = item.unit /\ ok
    OBVIOUS
  <2>5. ok => \A k \in DOMAIN tables[log] : tables[log][k] # Done(item.unit)
    BY <1>4, <2>1 DEF RowsOwn, Done
  <2>6. CASE tables'[log] = tables[log] /\ breaks' # 0
    <3>1. \A u \in mine' : \A k, l \in DOMAIN tables[log] :
            tables[log][k] = Done(u) /\ tables[log][l] = Done(u) => k = l
      BY <2>1, <2>4, <2>5
    <3> QED BY <2>2, <2>6, <3>1
  <2>7. CASE tables'[log] = Append(tables[log], row)
    <3> DEFINE old == tables[log]
               new == tables'[log]
               n == Len(old)
    <3>1. old \in Seq(R) /\ new = Append(old, row)
      BY <1>5, <2>1, <2>7 DEF Tables
    <3>2. /\ n \in Nat /\ DOMAIN old = 1..n /\ DOMAIN new = 1..(n + 1)
          /\ \A k \in 1..n : new[k] = old[k]
          /\ new[n + 1] = row
      BY <1>2, <3>1, Appended
    <3>3. /\ ok => row = Done(item.unit)
          /\ \A u : row = Done(u) => ok /\ u = item.unit
      <4>1. CASE ok = TRUE
        BY <1>3, <4>1 DEF Done
      <4>2. CASE ok = FALSE
        BY <1>3, <4>2 DEF Done
      <4> QED BY <4>1, <4>2
    <3> HIDE DEF old, new, row, n
    <3>4. ASSUME NEW u \in mine'
          PROVE  /\ \A k, l \in DOMAIN new : new[k] = Done(u) /\ new[l] = Done(u) => k = l
                 /\ breaks' = 0 => \E k \in DOMAIN new : new[k] = Done(u)
      <4>1. CASE ok /\ u = item.unit
        <5>1. \A k \in 1..n : new[k] # Done(u)
          BY <2>5, <3>2, <4>1 DEF old
        <5>2. new[n + 1] = Done(u)
          BY <3>2, <3>3, <4>1
        <5> QED BY <3>2, <5>1, <5>2
      <4>2. CASE u \in mine /\ ~(ok /\ u = item.unit)
        <5>1. new[n + 1] # Done(u)
          BY <3>2, <3>3, <4>2
        <5>2. /\ \A k, l \in 1..n : new[k] = Done(u) /\ new[l] = Done(u) => k = l
              /\ breaks' = 0 => \E k \in 1..n : new[k] = Done(u)
          BY <2>1, <2>3, <3>2, <4>2 DEF old
        <5> QED BY <3>2, <5>1, <5>2
      <4> QED BY <2>4, <4>1, <4>2
    <3> QED BY <2>2, <3>4 DEF new
  <2> QED BY <1>6, <2>1, <2>6, <2>7
<1>11. mine' \subseteq done' /\ (state' = "NONE" => mine' = {} /\ policy' = None)
  BY <1>1 DEF RowInv
<1>12. (Tables(tables, RowSet(DOMAIN attempts)))'
  BY <1>6 DEF Tables, RowSet, R
<1> QED BY <1>7, <1>8, <1>9, <1>10, <1>11, <1>12 DEF RowInv

LEMMA RowsSame ==
    ASSUME HostInv, RowInv, [AnyCall]_vars, UNCHANGED <<policy, runTables, tables, mine, breaks>>
    PROVE  RowInv'
<1>1. SharedTable \subseteq DOMAIN tables
  BY DEF RowInv, OldKept
<1> QED BY <1>1, RowsTaken

\* A backend failed before any row was written: the log may lack a unit from now on, but it
\* has none twice, for no row is that of a unit the Host had not committed.
LEMMA RowsMissed ==
    ASSUME HostInv, RowInv, [AnyCall]_vars, UNCHANGED <<policy, runTables, tables>>, BackendFails,
           mine \subseteq mine', mine' \subseteq done', state = "NONE" => mine' = mine
    PROVE  RowInv'
<1>0. breaks' # 0
  BY OneMoreBreak DEF HostInv
<1>1. DOMAIN attempts \subseteq DOMAIN attempts' /\ (state' = "NONE" => state = "NONE")
  BY AttemptsGrow, NeverUnstarted DEF HostInv
<1>2. RowSet(DOMAIN attempts) \subseteq RowSet(DOMAIN attempts')
  BY <1>1 DEF RowSet
<1>3. (Tables(tables, RowSet(DOMAIN attempts)))'
  <2>1. Tables(tables, RowSet(DOMAIN attempts'))
    BY <1>2, TablesGrow DEF RowInv
  <2> QED BY <2>1 DEF Tables, RowSet
<1>4. RowsOwn' /\ OldKept' /\ PerRunOnly'
  BY DEF RowInv, RowsOwn, OldKept, PerRunOnly, SharedTable, RunTable, OldRow
<1>5. LogOnce'
  <2> DEFINE t == LogTable(policy)
  <2>0. LogTable(policy)' = t
    BY DEF LogTable
  <2> SUFFICES ASSUME policy # None, policy.log
               PROVE  /\ t \in DOMAIN tables
                      /\ \A u \in mine' : \A k, l \in DOMAIN tables[t] :
                           tables[t][k] = Done(u) /\ tables[t][l] = Done(u) => k = l
    BY <1>0, <2>0 DEF LogOnce, Done
  <2>1. /\ t \in DOMAIN tables
        /\ \A u \in mine : \A k, l \in DOMAIN tables[t] :
             tables[t][k] = Done(u) /\ tables[t][l] = Done(u) => k = l
    BY DEF RowInv, LogOnce
  <2>2. \A u : \A k \in DOMAIN tables[t] : tables[t][k] = Done(u) => u \in mine
    BY <2>1 DEF RowInv, RowsOwn, Done
  <2> QED BY <2>1, <2>2
<1> QED BY <1>1, <1>3, <1>4, <1>5 DEF RowInv

\* finish_run_storage drops tables of this run only: a shared plan has none.
LEMMA RowsFinished ==
    ASSUME HostInv, RowInv, [AnyCall]_vars, FinishRunStorage, UNCHANGED mine
    PROVE  RowInv'
<1>1. SharedTable \subseteq DOMAIN tables
  BY DEF RowInv, OldKept
<1>2. SharedTable \cap RunTable = {}
  BY DEF SharedTable, RunTable
<1>3. CASE policy # None /\ policy.drop /\ policy.mode = "PER_RUN"
  <2>1. tables' = [t \in DOMAIN tables \ runTables |-> tables[t]]
    BY <1>3 DEF FinishRunStorage
  <2>2. runTables \subseteq RunTable
    BY <1>3 DEF RowInv, PerRunOnly
  <2>3. /\ DOMAIN tables' \subseteq DOMAIN tables /\ SharedTable \subseteq DOMAIN tables'
        /\ \A t \in DOMAIN tables' : tables'[t] = tables[t]
    BY <1>1, <1>2, <2>1, <2>2
  <2>4. policy' = None
    BY DEF FinishRunStorage
  <2> QED BY <2>3, <2>4, RowsTaken
<1>4. CASE ~(policy # None /\ policy.drop /\ policy.mode = "PER_RUN")
  <2>1. tables' = tables /\ policy' = None
    BY <1>4 DEF FinishRunStorage
  <2> QED BY <1>1, <2>1, RowsTaken
<1> QED BY <1>3, <1>4

\* The tables a run begins with: what was there, and empty ones.
LEMMA RowsEnsured ==
    ASSUME HostInv, RowInv, NEW ts, tables' = Ensured(tables, ts), UNCHANGED <<mine, attempts>>
    PROVE  /\ (Tables(tables, RowSet(DOMAIN attempts)))' /\ RowsOwn' /\ OldKept'
           /\ DOMAIN tables' = DOMAIN tables \cup ts
<1>1. /\ DOMAIN tables' = DOMAIN tables \cup ts
      /\ \A t \in DOMAIN tables : tables'[t] = tables[t]
      /\ \A t \in ts \ DOMAIN tables : tables'[t] = << >>
  BY DEF Ensured
<1>2. (Tables(tables, RowSet(DOMAIN attempts)))'
  <2> DEFINE R == RowSet(DOMAIN attempts)
  <2>1. Tables(tables', R)
    BY EnsuredTouches DEF RowInv
  <2> QED BY <2>1 DEF Tables, RowSet
<1>3. RowsOwn'
  <2>1. RowsOwn /\ DOMAIN << >> = {}
    BY DEF RowInv
  <2> QED BY <1>1, <2>1 DEF RowsOwn
<1>4. OldKept'
  <2>1. OldKept
    BY DEF RowInv
  <2> SUFFICES ASSUME NEW t \in SharedTable
               PROVE  t \in DOMAIN tables' /\ \E k \in DOMAIN tables'[t] : tables'[t][k] = OldRow
    BY DEF OldKept, SharedTable, OldRow
  <2>2. t \in DOMAIN tables' /\ tables'[t] = tables[t]
    BY <1>1, <2>1 DEF OldKept
  <2> QED BY <2>1, <2>2 DEF OldKept
<1> QED BY <1>1, <1>2, <1>3, <1>4

LEMMA RowsStart ==
    ASSUME HostInv, RowInv, [AnyCall]_vars, NEW p \in Policies, StartPipeline(p)
    PROVE  RowInv'
<1>1. /\ state = "NONE" /\ state' = "RUNNING" /\ UNCHANGED <<attempts, done, mine>>
      /\ mine = {} /\ policy = None
  BY DEF StartPipeline, StartRun, slot, RowInv
<1>2. mine' \subseteq done' /\ (state' = "NONE" => mine' = {} /\ policy' = None)
  BY <1>1
<1>3. CASE /\ tables' = Ensured(tables, TablesOf(p))
           /\ runTables' = TablesOf(p)
           /\ policy' = p
  <2>1. /\ (Tables(tables, RowSet(DOMAIN attempts)))' /\ RowsOwn' /\ OldKept'
        /\ DOMAIN tables' = DOMAIN tables \cup TablesOf(p)
    BY <1>1, <1>3, RowsEnsured
  <2>2. PerRunOnly'
    <3>1. p.mode = "PER_RUN" => TablesOf(p) \subseteq RunTable
      BY HostAssumption DEF TablesOf, LogTable, ModuleTable, RunTable
    <3> QED BY <1>3, <3>1 DEF PerRunOnly, RunTable
  <2>3. LogOnce'
    <3>1. p.log => LogTable(p) \in DOMAIN tables'
      BY <2>1 DEF TablesOf
    <3>2. LogTable(policy)' = LogTable(p)
      BY <1>3 DEF LogTable
    <3> QED BY <1>1, <1>3, <3>1, <3>2 DEF LogOnce
  <2> QED BY <1>2, <2>1, <2>2, <2>3 DEF RowInv
<1>4. CASE /\ \E made : tables' = Ensured(tables, made)
           /\ policy' = None
  <2>1. PICK made : tables' = Ensured(tables, made)
    BY <1>4
  <2>2. (Tables(tables, RowSet(DOMAIN attempts)))' /\ RowsOwn' /\ OldKept'
    BY <1>1, <2>1, RowsEnsured
  <2>3. PerRunOnly' /\ LogOnce'
    BY <1>4 DEF PerRunOnly, LogOnce
  <2> QED BY <1>2, <2>2, <2>3 DEF RowInv
<1> QED BY <1>1, <1>3, <1>4 DEF StartPipeline

\* A commit: accepted, the unit was the Host's to commit and is DONE now; refused, no row.
LEMMA RowsCommit ==
    ASSUME HostInv, RowInv, ClaimedNotDone, [AnyCall]_vars, NEW item \in wave \cup deferred,
           NEW outs, NEW puts, NEW next, HostCommit(item, outs, puts, next)
    PROVE  RowInv'
<1>1. item.unit \in DOMAIN attempts
  BY DEF HostInv, Thread, Work
<1>2. CASE UNCHANGED <<tables, breaks, mine>>
  <2>1. UNCHANGED <<policy, runTables>>
    BY DEF HostCommit
  <2> QED BY <1>2, <2>1, RowsSame
<1>3. CASE /\ state = "RUNNING"
           /\ CommitAccept(Driver, Claim(item), outs, None)
           /\ mine' = mine \cup {item.unit}
           /\ StoreStep(item, outs, puts, next)
  <2>1. Claim(item).unit = item.unit /\ Driver \in Worker /\ TypeOK
    BY HostAssumption DEF Claim, HostInv
  <2>2. Accepts(Driver, Claim(item), outs)
    BY <1>3, <2>1, PlainCommit
  <2>3. item.unit \notin mine
    BY <2>1, <2>2 DEF Accepts, ClaimedNotDone, RowInv
  <2>4. item.unit \in done' /\ UNCHANGED <<policy, runTables>>
    BY <1>3, <2>1 DEF CommitAccept, HostCommit
  <2>5. CASE StoreRows(item, TRUE, next, "error")
    BY <1>1, <1>3, <2>3, <2>4, <2>5, RowsAdded
  <2>6. CASE BackendFails /\ UNCHANGED tables
    <3>1. done \subseteq done'
      BY DoneGrows DEF HostInv
    <3>2. mine \subseteq mine' /\ mine' \subseteq done'
      BY <1>3, <2>4, <3>1 DEF RowInv
    <3> QED BY <1>3, <2>4, <2>6, <3>2, RowsMissed
  <2> QED BY <1>3, <2>5, <2>6 DEF StoreStep
<1> QED BY <1>2, <1>3 DEF HostCommit

LEMMA RowsFail ==
    ASSUME HostInv, RowInv, [AnyCall]_vars, NEW item \in wave \cup deferred, FailStep(item)
    PROVE  RowInv'
<1>1. item.unit \in DOMAIN attempts
  BY DEF HostInv, Thread, Work
<1>2. StoreRows(item, FALSE, "error", "error") /\ UNCHANGED <<policy, runTables, mine>>
  BY DEF FailStep
<1> QED BY <1>1, <1>2, RowsAdded

LEMMA RowInvStep ==
    ASSUME HostInv, RowInv, ClaimedNotDone, [HostNext]_hvars
    PROVE  RowInv'
<1>0. [AnyCall]_vars
  BY HostInvStep
<1>1. CASE LookUp
  <2>1. First(wave) \in wave
    BY <1>1, FirstIn DEF HostInv, Thread, Work, LookUp
  <2> DEFINE item == First(wave)
             next == IF wave' # {} THEN "items" ELSE IF deferred # {} THEN "execute" ELSE WaveDone
  <2>2. \/ HostCommit(item, memo[MemoKey(item)], FALSE, next)
        \/ UNCHANGED <<policy, runTables, tables, mine, breaks>>
        \/ BackendFails /\ UNCHANGED <<policy, runTables, tables, mine>>
    BY <1>1 DEF LookUp, store
  <2> HIDE DEF item, next
  <2>3. mine \subseteq done'
    BY <1>0, DoneGrows DEF HostInv, RowInv
  <2> QED BY <1>0, <2>1, <2>2, <2>3, RowsCommit, RowsSame, RowsMissed DEF item
<1>2. CASE Finish
  <2>1. First(deferred) \in deferred
    BY <1>2, FirstIn DEF HostInv, Thread, Work, Finish
  <2> DEFINE item == First(deferred)
             next == IF deferred' # {} THEN "finish" ELSE IF wave # {} THEN "items" ELSE WaveDone
             outs == Result(item.node, item.inputs)
  <2>2. HostCommit(item, outs, TRUE, next) \/ FailStep(item)
    BY <1>2 DEF Finish, CommitStepSuccess
  <2> HIDE DEF item, next, outs
  <2> QED BY <1>0, <2>1, <2>2, RowsCommit, RowsFail DEF item
<1>3. CASE Poll \/ Check \/ Cancel
  <2>1. FinishRunStorage \/ UNCHANGED <<policy, runTables, tables>>
    BY <1>3 DEF Poll, Check, Cancel
  <2>2. UNCHANGED <<mine, breaks>>
    BY <1>3 DEF Poll, Check, Cancel
  <2> QED BY <1>0, <2>1, <2>2, RowsFinished, RowsSame
<1>4. CASE \E p \in Policies : StartPipeline(p)
  BY <1>0, <1>4, RowsStart
<1>5. CASE ClaimWave \/ Execute \/ ReturnError
  <2>1. UNCHANGED <<policy, runTables, tables, mine, breaks>>
    BY <1>5 DEF ClaimWave, Execute, ReturnError, store
  <2> QED BY <1>0, <2>1, RowsSame
<1>6. CASE \/ DriveAgain \/ \E m \in Stepped : TryStep(m)
           \/ \E i \in Input, a \in Artifact, after \in {"NO", "UNTIL_IDLE", "ONE_PASS"} :
                Inject(i, a, after)
  <2>1. UNCHANGED <<policy, runTables, tables, mine, breaks>>
    BY <1>6 DEF DriveAgain, Drive, TryStep, Inject, store
  <2> QED BY <1>0, <2>1, RowsSame
<1>7. CASE \E w \in Worker \ {Driver} : Peer(w)
  <2>1. UNCHANGED <<policy, runTables, tables, mine, breaks>>
    BY <1>7 DEF Peer, hostOnly, store
  <2> QED BY <1>0, <2>1, RowsSame
<1>8. CASE UNCHANGED hostOnly
  BY <1>0, <1>8, RowsSame DEF hostOnly
<1>9. CASE UNCHANGED hvars
  BY <1>8, <1>9 DEF hvars
<1> QED BY <1>1, <1>2, <1>3, <1>4, <1>5, <1>6, <1>7, <1>8, <1>9 DEF HostNext, HostStep, Caller

LEMMA RowInvInit == HostInit => RowInv
<1> SUFFICES ASSUME HostInit PROVE RowInv
  OBVIOUS
<1>1. /\ tables = [t \in SharedTable |-> <<OldRow>>] /\ mine = {} /\ policy = None
  BY DEF HostInit
<1>2. OldRow \in RowSet(DOMAIN attempts)
  BY DEF OldRow, RowSet
<1>3. /\ <<OldRow>> \in Seq(RowSet(DOMAIN attempts)) /\ DOMAIN <<OldRow>> = {1} /\ <<OldRow>>[1] = OldRow
      /\ OldRow.run = "earlier"
  BY <1>2 DEF OldRow
<1>4. Tables(tables, RowSet(DOMAIN attempts))
  BY <1>1, <1>3 DEF Tables
<1>5. RowsOwn /\ OldKept
  BY <1>1, <1>3 DEF RowsOwn, OldKept
<1>6. PerRunOnly /\ LogOnce
  BY <1>1 DEF PerRunOnly, LogOnce
<1> QED BY <1>1, <1>4, <1>5, <1>6 DEF RowInv

LEMMA RowsAlways == HostSpec => []RowInv
<1>1. HostInv /\ ClaimedNotDone /\ RowInv /\ [HostNext]_hvars => RowInv'
  BY RowInvStep
<1> QED BY <1>1, RowInvInit, HostSafe, EngineDiscipline, PTL DEF HostSpec

\* The tables say a step of this run succeeded only if the Host's own commit of it was
\* accepted; the step log says it once, and for every commit unless the backend failed.  For
\* every write mode and table mode, with peers, lapsed leases, failing plugins and a backend
\* that fails anywhere.
THEOREM RowsTruthful == HostSpec => []RowsFollowCommits
<1>1. ASSUME RowInv PROVE RowsFollowCommits
  <2>1. \A t \in DOMAIN tables : \A r \in RowsOf(t) : r.run = "this" /\ r.ok => r.unit \in mine
    BY <1>1 DEF RowInv, RowsOwn, RowsOf
  <2>2. ASSUME policy # None, policy.log, NEW u \in mine
        PROVE  LET log == tables[LogTable(policy)]
                   at == {k \in DOMAIN log : log[k] = [run |-> "this", unit |-> u, ok |-> TRUE]}
               IN  Cardinality(at) <= 1 /\ (breaks = 0 => at # {})
    <3> DEFINE log == tables[LogTable(policy)]
               at == {k \in DOMAIN log : log[k] = [run |-> "this", unit |-> u, ok |-> TRUE]}
    <3>1. /\ \A k, l \in at : k = l
          /\ breaks = 0 => at # {}
      BY <1>1, <2>2 DEF RowInv, LogOnce, Done
    <3> HIDE DEF at
    <3>2. at = {} \/ \E k \in at : at = {k}
      BY <3>1
    <3>3. Cardinality(at) <= 1
      <4>1. CASE at = {}
        <5>1. Cardinality({}) = 0
          BY FS_EmptySet
        <5> QED BY <4>1, <5>1
      <4>2. ASSUME NEW k \in at, at = {k} PROVE Cardinality(at) <= 1
        <5>1. Cardinality({k}) = 1
          BY FS_Singleton
        <5> QED BY <4>2, <5>1
      <4> QED BY <3>2, <4>1, <4>2
    <3> QED BY <3>1, <3>3 DEF at
  <2> QED BY <2>1, <2>2 DEF RowsFollowCommits
<1> QED BY <1>1, RowsAlways, PTL

\* Neither a write in any mode nor the end of the run touches the rows another run left in a
\* shared table.
THEOREM SharedRowsStay == HostSpec => []OtherRunsKept
<1>1. RowInv => OtherRunsKept
  BY DEF RowInv, OldKept, OtherRunsKept, RowsOf
<1> QED BY <1>1, RowsAlways, PTL
=============================================================================
