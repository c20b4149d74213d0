---------------------------- MODULE StoreProofs ----------------------------
(***************************************************************************)
(* Proofs about the stores: what the tables hold for every set of          *)
(* manifests, contracts, payloads, artifacts and callers, and for every    *)
(* ledger length.                                                          *)
(***************************************************************************)
EXTENDS StoreProperties, TLAPS

Slot == [manifest : Manifest, lifecycle : REGISTERED..DEACTIVATED]

\* The kinds the kernel records its own writes under.
KernelKind == {Verb[1], Verb[2], Verb[3], Verb[4], "contract.registered", "blob.put", "artifact.put"}

Entry ==
    [kind : KernelKind \cup AppendKind,
     subject : Name \cup Ref \cup Digest \cup {ArtifactId(a) : a \in Artifact} \cup AppendSubject,
     detail : Manifest \cup {None} \cup Content \cup Artifact \cup AppendDetail
              \cup [namespace : Namespace, digest : Digest, count : Nat]]

\* The type invariant, with the shape of an entry.
Typed == TypeOK /\ ledger \in Seq(Entry)

LEMMA Verbs ==
    /\ Verb[1] = "module.registered" /\ Verb[2] = "module.loaded"
    /\ Verb[3] = "module.activated" /\ Verb[4] = "module.deactivated"
    /\ \A v \in 1..4 : Verb[v] \in KernelKind
BY DEF Verb, KernelKind

LEMMA WithIs ==
    ASSUME NEW f, NEW k, NEW v
    PROVE  /\ DOMAIN With(f, k, v) = DOMAIN f \cup {k}
           /\ With(f, k, v)[k] = v
           /\ \A x \in DOMAIN f : x # k => With(f, k, v)[x] = f[x]
           /\ With(f, k, v) = [x \in DOMAIN With(f, k, v) |-> With(f, k, v)[x]]
BY DEF With

\* What append_locked does to a ledger of entries.
LEMMA Recorded ==
    ASSUME Typed, NEW kind, NEW subject, NEW detail,
           [kind |-> kind, subject |-> subject, detail |-> detail] \in Entry,
           Record(kind, subject, detail)
    PROVE  /\ ledger' \in Seq(Entry) /\ Len(ledger') = Len(ledger) + 1 /\ Len(ledger') <= MaxLedger
           /\ DOMAIN ledger = 1..Len(ledger) /\ DOMAIN ledger' = 1..(Len(ledger) + 1)
           /\ Len(ledger) \in Nat
           /\ \A k \in DOMAIN ledger : k \in DOMAIN ledger' /\ ledger'[k] = ledger[k]
           /\ ledger'[Len(ledger) + 1] = [kind |-> kind, subject |-> subject, detail |-> detail]
           /\ ledger' = Append(ledger, ledger'[Len(ledger')])
BY StoreAssumption DEF Typed, Record

-----------------------------------------------------------------------------
LEMMA InitTyped == Init => Typed
<1> SUFFICES ASSUME Init PROVE Typed
  OBVIOUS
<1>1. modules \in Seq(Slot) /\ ledger \in Seq(Entry) /\ Len(ledger) = 0
  BY DEF Init
<1>2. /\ contracts \in [DOMAIN contracts -> Content] /\ DOMAIN contracts \subseteq Ref
      /\ blobs \in [DOMAIN blobs -> Nat] /\ DOMAIN blobs \subseteq Namespace \X Digest
      /\ artifacts \in [DOMAIN artifacts -> Artifact]
      /\ idempotency \in [DOMAIN idempotency -> DOMAIN artifacts]
  BY DEF Init
<1> QED BY <1>1, <1>2, StoreAssumption DEF Typed, TypeOK, Slot

LEMMA RegisterTyped ==
    ASSUME Typed, NEW m \in Manifest, Register(m)
    PROVE  Typed'
<1>1. Record("module.registered", m.name, m)
  BY DEF Register
<1>2. [kind |-> "module.registered", subject |-> m.name, detail |-> m] \in Entry
  BY StoreAssumption, Verbs DEF Entry, KernelKind
<1>3. ledger' \in Seq(Entry) /\ Len(ledger') <= MaxLedger
  BY <1>1, <1>2, Recorded
<1>4. modules' \in Seq(Slot)
  <2>1. [manifest |-> m, lifecycle |-> REGISTERED] \in Slot
    BY DEF Slot, REGISTERED, DEACTIVATED
  <2> QED BY <2>1 DEF Typed, TypeOK, Slot, Register
<1>5. contracts' \in [DOMAIN contracts' -> Content] /\ DOMAIN contracts' \subseteq Ref
  BY StoreAssumption DEF Typed, TypeOK, Register, WithPlaceholders
<1> QED BY <1>3, <1>4, <1>5 DEF Typed, TypeOK, Slot, Register

LEMMA TransitionTyped ==
    ASSUME Typed, NEW name \in Name, NEW to \in REGISTERED..DEACTIVATED, Transition(name, to)
    PROVE  Typed'
<1>0. PICK i \in DOMAIN modules :
        /\ modules' = [modules EXCEPT ![i].lifecycle = to]
        /\ Record(Verb[to], name, None)
        /\ UNCHANGED <<contracts, blobs, artifacts, idempotency, told>>
  BY DEF Transition
<1>2. [kind |-> Verb[to], subject |-> name, detail |-> None] \in Entry
  BY Verbs DEF Entry, REGISTERED, DEACTIVATED
<1>3. ledger' \in Seq(Entry) /\ Len(ledger') <= MaxLedger
  BY <1>0, <1>2, Recorded
<1>4. modules' \in Seq(Slot)
  <2>1. /\ modules \in Seq(Slot) /\ modules' = [modules EXCEPT ![i] = [modules[i] EXCEPT !.lifecycle = to]]
        /\ i \in DOMAIN modules
    BY <1>0 DEF Typed, TypeOK, Slot
  <2>2. [modules[i] EXCEPT !.lifecycle = to] \in Slot
    <3>1. modules[i] \in Slot
      BY <2>1
    <3> QED BY <3>1 DEF Slot
  <2> QED BY <2>1, <2>2
<1> QED BY <1>0, <1>3, <1>4 DEF Typed, TypeOK, Slot

LEMMA PutContractTyped ==
    ASSUME Typed, NEW r \in Ref \cup {NoRef}, NEW c \in Content, PutContract(r, c)
    PROVE  Typed'
<1>2. [kind |-> "contract.registered", subject |-> r, detail |-> c] \in Entry
  BY DEF Entry, KernelKind, PutContract
<1>3. ledger' \in Seq(Entry) /\ Len(ledger') <= MaxLedger
  BY <1>2, Recorded DEF PutContract
<1>4. contracts' \in [DOMAIN contracts' -> Content] /\ DOMAIN contracts' \subseteq Ref
  BY DEF Typed, TypeOK, PutContract, With
<1> QED BY <1>3, <1>4 DEF Typed, TypeOK, PutContract

LEMMA PutBlobTyped ==
    ASSUME Typed, NEW ns \in Namespace, NEW d \in Data, PutBlob(ns, d)
    PROVE  Typed'
<1>1. Len(d) \in Nat /\ Hash[d] \in Digest
  BY HashAssumption DEF Digest
<1>2. [kind |-> "blob.put", subject |-> Hash[d],
       detail |-> [namespace |-> ns, digest |-> Hash[d], count |-> Len(d)]] \in Entry
  BY <1>1 DEF Entry, KernelKind
<1>3. ledger' \in Seq(Entry) /\ Len(ledger') <= MaxLedger
  BY <1>2, Recorded DEF PutBlob
<1>4. blobs' \in [DOMAIN blobs' -> Nat] /\ DOMAIN blobs' \subseteq Namespace \X Digest
  BY <1>1 DEF Typed, TypeOK, PutBlob, With
<1> QED BY <1>3, <1>4 DEF Typed, TypeOK, PutBlob

\* What a call of put_artifact that is not a replay does to the artifacts and the ledger.
LEMMA Stored ==
    ASSUME Typed, NEW a \in Artifact, StoreArtifact(a)
    PROVE  /\ artifacts' \in [DOMAIN artifacts' -> Artifact]
           /\ DOMAIN artifacts' = DOMAIN artifacts \cup {ArtifactId(a)}
           /\ \A id \in DOMAIN artifacts : artifacts'[id] = artifacts[id]
           /\ ArtifactId(a) \notin DOMAIN artifacts => artifacts'[ArtifactId(a)] = a
           /\ ledger' \in Seq(Entry) /\ Len(ledger') <= MaxLedger
<1>1. CASE ArtifactId(a) \in DOMAIN artifacts /\ UNCHANGED <<artifacts, ledger>>
  BY <1>1 DEF Typed, TypeOK
<1>2. CASE /\ ArtifactId(a) \notin DOMAIN artifacts
           /\ artifacts' = With(artifacts, ArtifactId(a), a)
           /\ Record("artifact.put", ArtifactId(a), a)
  <2>1. [kind |-> "artifact.put", subject |-> ArtifactId(a), detail |-> a] \in Entry
    BY DEF Entry, KernelKind
  <2>2. ledger' \in Seq(Entry) /\ Len(ledger') <= MaxLedger
    BY <1>2, <2>1, Recorded
  <2>3. artifacts' \in [DOMAIN artifacts' -> Artifact]
    BY <1>2 DEF Typed, TypeOK, With
  <2>4. /\ DOMAIN artifacts' = DOMAIN artifacts \cup {ArtifactId(a)}
        /\ \A id \in DOMAIN artifacts : artifacts'[id] = artifacts[id]
        /\ artifacts'[ArtifactId(a)] = a
    BY <1>2 DEF With
  <2> QED BY <2>2, <2>3, <2>4
<1> QED BY <1>1, <1>2 DEF StoreArtifact

LEMMA PutArtifactTyped ==
    ASSUME Typed, NEW a \in Artifact, NEW ctx \in Context, PutArtifact(a, ctx)
    PROVE  Typed'
<1>1. CASE ReplayPutArtifact(a, ctx)
  BY <1>1 DEF Typed, TypeOK, ReplayPutArtifact
<1>2. CASE /\ StoreArtifact(a)
           /\ idempotency' = IF ctx.key = NoKey THEN idempotency
                             ELSE With(idempotency, IdempotencyKey(ctx), ArtifactId(a))
           /\ UNCHANGED <<modules, contracts, blobs>>
  <2>1. idempotency' \in [DOMAIN idempotency' -> DOMAIN artifacts']
    BY <1>2, Stored DEF Typed, TypeOK, With
  <2> QED BY <1>2, <2>1, Stored DEF Typed, TypeOK
<1> QED BY <1>1, <1>2 DEF PutArtifact

LEMMA AppendTyped ==
    ASSUME Typed, NEW kind \in AppendKind, NEW subject \in AppendSubject,
           NEW detail \in AppendDetail, AppendEntry(kind, subject, detail)
    PROVE  Typed'
<1>2. [kind |-> kind, subject |-> subject, detail |-> detail] \in Entry
  BY DEF Entry
<1>3. ledger' \in Seq(Entry) /\ Len(ledger') <= MaxLedger
  BY <1>2, Recorded DEF AppendEntry
<1> QED BY <1>3 DEF Typed, TypeOK, AppendEntry

LEMMA NextTyped == Typed /\ [Next]_vars => Typed'
<1> SUFFICES ASSUME Typed, [Next]_vars PROVE Typed'
  OBVIOUS
<1>1. CASE UNCHANGED vars
  BY <1>1 DEF Typed, TypeOK, vars
<1>2. CASE Next
  BY <1>2, RegisterTyped, TransitionTyped, PutContractTyped, PutBlobTyped, PutArtifactTyped,
     AppendTyped, Zenon DEF Next
<1> QED BY <1>1, <1>2

\* Every table keeps its shape: contents are only ever filed under refs that are not empty,
\* blobs under a digest of stored data, and a request key is remembered only for an artifact
\* that is stored.
THEOREM StoreTypeCorrect == Spec => []TypeOK
<1>1. Spec => []Typed
  BY InitTyped, NextTyped, PTL DEF Spec
<1>2. Typed => TypeOK
  BY DEF Typed
<1> QED BY <1>1, <1>2, PTL
-----------------------------------------------------------------------------
(* What a step may do to each table *)

\* put_blob is the only call that changes the blob store, and it adds one blob.
LEMMA BlobsStep ==
    ASSUME Typed, [Next]_vars
    PROVE  \/ blobs' = blobs
           \/ /\ artifacts' = artifacts
              /\ \E ns \in Namespace, d \in Data :
                   <<ns, Hash[d]>> \notin DOMAIN blobs /\ blobs' = With(blobs, <<ns, Hash[d]>>, Len(d))
<1>1. CASE \E ns \in Namespace, d \in Data : PutBlob(ns, d)
  BY <1>1, Zenon DEF PutBlob
<1>2. CASE \E a \in Artifact, ctx \in Context : PutArtifact(a, ctx)
  BY <1>2 DEF PutArtifact, ReplayPutArtifact
<1> QED BY <1>1, <1>2 DEF Next, vars, Register, Transition, PutContract, AppendEntry

\* put_artifact is the only call that changes the artifacts, and it adds the one it was given,
\* checked, under its own address.
LEMMA ArtifactsStep ==
    ASSUME Typed, [Next]_vars
    PROVE  \/ artifacts' = artifacts
           \/ /\ blobs' = blobs
              /\ \E a \in Artifact :
                   /\ ValidArtifact(a)
                   /\ \A r \in DOMAIN a.traits :
                        HasObject(a.traits[r]) => VerifyObject(a.traits[r].object)
                   /\ ArtifactId(a) \notin DOMAIN artifacts
                   /\ artifacts' = With(artifacts, ArtifactId(a), a)
<1>1. CASE \E ns \in Namespace, d \in Data : PutBlob(ns, d)
  BY <1>1, Zenon DEF PutBlob
<1>2. ASSUME NEW a \in Artifact, NEW ctx \in Context, PutArtifact(a, ctx), artifacts' # artifacts
      PROVE  /\ blobs' = blobs
             /\ ValidArtifact(a)
             /\ \A r \in DOMAIN a.traits :
                  HasObject(a.traits[r]) => VerifyObject(a.traits[r].object)
             /\ ArtifactId(a) \notin DOMAIN artifacts
             /\ artifacts' = With(artifacts, ArtifactId(a), a)
  BY <1>2 DEF PutArtifact, ReplayPutArtifact, StoreArtifact
<1>3. CASE \E a \in Artifact, ctx \in Context : PutArtifact(a, ctx)
  BY <1>2, <1>3, Zenon
<1> QED BY <1>1, <1>3 DEF Next, vars, Register, Transition, PutContract, AppendEntry

\* A contract is stubbed when it is new, and filled when it is new or a stub.
LEMMA ContractsStep ==
    ASSUME Typed, [Next]_vars
    PROVE  \/ contracts' = contracts
           \/ \E m \in Manifest : contracts' = WithPlaceholders(contracts, m.refs)
           \/ \E r \in Ref, c \in Content : MayStore(r, c) /\ contracts' = With(contracts, r, c)
<1>1. CASE \E r \in Ref \cup {NoRef}, c \in Content : PutContract(r, c)
  BY <1>1 DEF PutContract
<1>2. CASE \E a \in Artifact, ctx \in Context : PutArtifact(a, ctx)
  BY <1>2 DEF PutArtifact, ReplayPutArtifact
<1>3. CASE \E m \in Manifest : Register(m)
  BY <1>3, Zenon DEF Register
<1> QED BY <1>1, <1>2, <1>3 DEF Next, vars, Transition, PutBlob, AppendEntry

-----------------------------------------------------------------------------
(* First write wins *)

LEMMA WritesKept ==
    ASSUME Typed, [Next]_vars
    PROVE  /\ \A id \in DOMAIN artifacts : id \in DOMAIN artifacts' /\ artifacts'[id] = artifacts[id]
           /\ \A b \in DOMAIN blobs : b \in DOMAIN blobs' /\ blobs'[b] = blobs[b]
           /\ \A r \in DOMAIN contracts :
                r \in DOMAIN contracts' /\ contracts[r] \in {Blank, contracts'[r]}
<1>1. \A id \in DOMAIN artifacts : id \in DOMAIN artifacts' /\ artifacts'[id] = artifacts[id]
  BY ArtifactsStep DEF With
<1>2. \A b \in DOMAIN blobs : b \in DOMAIN blobs' /\ blobs'[b] = blobs[b]
  BY BlobsStep DEF With
<1>3. \A r \in DOMAIN contracts :
        r \in DOMAIN contracts' /\ contracts[r] \in {Blank, contracts'[r]}
  BY ContractsStep DEF With, WithPlaceholders, MayStore
<1> QED BY <1>1, <1>2, <1>3

\* A stored artifact, a blob and a contract with content never change, whoever puts,
\* registers or retries afterwards; only a placeholder is filled, once.
THEOREM WritesAreFinal == Spec => FirstWriteWins
<1>1. Spec => []Typed
  BY InitTyped, NextTyped, PTL DEF Spec
<1>2. Typed /\ [Next]_vars =>
        [/\ \A id \in DOMAIN artifacts : id \in DOMAIN artifacts' /\ artifacts'[id] = artifacts[id]
         /\ \A b \in DOMAIN blobs : b \in DOMAIN blobs' /\ blobs'[b] = blobs[b]
         /\ \A r \in DOMAIN contracts :
              r \in DOMAIN contracts' /\ contracts[r] \in {Blank, contracts'[r]}]_vars
  BY WritesKept, Zenon
<1> QED BY <1>1, <1>2, PTL DEF Spec, FirstWriteWins

-----------------------------------------------------------------------------
(* Object references *)

\* Every blob in the index is data that was put, under its digest and with its size.
BlobsReal ==
    \A b \in DOMAIN blobs : \E ns \in Namespace, d \in Data : b = <<ns, Hash[d]>> /\ blobs[b] = Len(d)

References == BlobsReal /\ NoDanglingObject

LEMMA BlobsRealStep == ASSUME Typed, BlobsReal, [Next]_vars PROVE BlobsReal'
<1>1. CASE blobs' = blobs
  BY <1>1 DEF BlobsReal
<1>2. ASSUME NEW ns \in Namespace, NEW d \in Data, blobs' = With(blobs, <<ns, Hash[d]>>, Len(d))
      PROVE  BlobsReal'
  <2> DEFINE k == <<ns, Hash[d]>>
  <2>1. /\ DOMAIN blobs' = DOMAIN blobs \cup {k} /\ blobs'[k] = Len(d)
        /\ \A b \in DOMAIN blobs : b # k => blobs'[b] = blobs[b]
    BY <1>2 DEF With
  <2> QED BY <2>1 DEF BlobsReal
<1> QED BY <1>1, <1>2, BlobsStep

\* A reference that was checked against the index is served from it.
LEMMA VerifiedIsServed ==
    ASSUME BlobsReal, NEW o, VerifyObject(o)
    PROVE  GetBlob(o)
<1>1. PICK ns \in Namespace, d \in Data :
        <<o.namespace, o.digest>> = <<ns, Hash[d]>> /\ blobs[<<o.namespace, o.digest>>] = Len(d)
  BY DEF BlobsReal, VerifyObject
<1> QED BY <1>1 DEF GetBlob, VerifyObject

LEMMA NoDanglingStep == ASSUME Typed, References, [Next]_vars PROVE NoDanglingObject'
<1>1. \A o : GetBlob(o) => GetBlob(o)'
  BY WritesKept DEF GetBlob
<1>2. CASE artifacts' = artifacts
  BY <1>1, <1>2 DEF References, NoDanglingObject
<1>3. ASSUME NEW a \in Artifact,
             \A r \in DOMAIN a.traits : HasObject(a.traits[r]) => VerifyObject(a.traits[r].object),
             artifacts' = With(artifacts, ArtifactId(a), a)
      PROVE  NoDanglingObject'
  <2>1. \A r \in DOMAIN a.traits : HasObject(a.traits[r]) => GetBlob(a.traits[r].object)'
    BY <1>1, <1>3, VerifiedIsServed DEF References
  <2>2. \A id \in DOMAIN artifacts' :
          artifacts'[id] = a \/ (id \in DOMAIN artifacts /\ artifacts'[id] = artifacts[id])
    BY <1>3 DEF With
  <2> QED BY <1>1, <2>1, <2>2 DEF References, NoDanglingObject
<1> QED BY <1>2, <1>3, ArtifactsStep, Zenon

\* No stored artifact points outside the blob store: whatever calls come between the put of
\* a blob and of the artifact that names it, GetBlob serves every object reference of every
\* stored trait, in its namespace and with its size.
THEOREM ObjectsServed == Spec => []NoDanglingObject
<1>1. Init => References
  BY DEF Init, References, BlobsReal, NoDanglingObject
<1>2. Typed /\ References /\ [Next]_vars => References'
  BY BlobsRealStep, NoDanglingStep, Zenon DEF References
<1>3. References => NoDanglingObject
  BY DEF References
<1> QED BY <1>1, <1>2, <1>3, InitTyped, NextTyped, PTL DEF Spec
-----------------------------------------------------------------------------
(* The chain reconstructs the stores *)

\* Modules name the kinds of their own entries apart from the kernel's.
OwnKinds == AppendKind \cap KernelKind = {}

Explained ==
    \/ UNCHANGED <<ledger, modules, contracts, blobs, artifacts>>
    \/ /\ Len(ledger') = Len(ledger) + 1
       /\ ledger' = Append(ledger, ledger'[Len(ledger')])
       /\ Store' = Apply(Store, ledger'[Len(ledger')])

\* The step that appends entry e is explained when e says what happened to the stores.
LEMMA ExplainedBy ==
    ASSUME Typed, NEW kind, NEW subject, NEW detail,
           [kind |-> kind, subject |-> subject, detail |-> detail] \in Entry,
           Record(kind, subject, detail),
           Store' = Apply(Store, [kind |-> kind, subject |-> subject, detail |-> detail])
    PROVE  Explained
<1>1. /\ Len(ledger') = Len(ledger) + 1 /\ ledger' = Append(ledger, ledger'[Len(ledger')])
      /\ ledger'[Len(ledger')] = [kind |-> kind, subject |-> subject, detail |-> detail]
  BY Recorded
<1> QED BY <1>1, Zenon DEF Explained

LEMMA RegisterExplained ==
    ASSUME Typed, NEW m \in Manifest, Register(m)
    PROVE  Explained
<1> DEFINE e == [kind |-> "module.registered", subject |-> m.name, detail |-> m]
<1>1. e \in Entry
  BY StoreAssumption, Verbs DEF Entry, KernelKind
<1>2. Store' = Apply(Store, e)
  BY Verbs DEF Apply, Store, Register
<1> QED BY <1>1, <1>2, ExplainedBy DEF Register

\* Only one slot is the first of a name.
LEMMA OneFirst ==
    ASSUME NEW ms, NEW name, DOMAIN ms \subseteq Nat \ {0},
           NEW i \in DOMAIN ms, NEW j \in DOMAIN ms,
           IsFirstNamed(ms, i, name), IsFirstNamed(ms, j, name)
    PROVE  i = j
BY DEF IsFirstNamed

LEMMA TransitionExplained ==
    ASSUME Typed, NEW name \in Name, NEW to \in REGISTERED..DEACTIVATED, Transition(name, to)
    PROVE  Explained
<1> DEFINE e == [kind |-> Verb[to], subject |-> name, detail |-> None]
<1>0. PICK i \in DOMAIN modules :
        /\ IsFirstNamed(modules, i, name) /\ to = modules[i].lifecycle + 1
        /\ modules' = [modules EXCEPT ![i].lifecycle = to]
        /\ Record(Verb[to], name, None)
        /\ UNCHANGED <<contracts, blobs, artifacts, idempotency, told>>
  BY DEF Transition
<1>1. e \in Entry
  BY Verbs DEF Entry, REGISTERED, DEACTIVATED
<1>2. modules \in Seq(Slot)
  BY DEF Typed, TypeOK, Slot
<1>3. \A j \in DOMAIN modules : modules[j] \in Slot
  BY <1>2
<1>4. modules' = Stepped(modules, name)
  <2>1. \A j \in DOMAIN modules : IsFirstNamed(modules, j, name) <=> j = i
    BY <1>0, <1>2, OneFirst
  <2>2. modules' = [modules EXCEPT ![i] = [modules[i] EXCEPT !.lifecycle = modules[i].lifecycle + 1]]
    BY <1>0
  <2>3. modules = [j \in DOMAIN modules |-> modules[j]]
    BY <1>2
  <2> QED BY <2>1, <2>2, <2>3 DEF Stepped
<1>5. e.kind \in {Verb[2], Verb[3], Verb[4]} /\ e.kind # Verb[1]
  <2>1. to \in 2..4
    BY <1>0, <1>3 DEF Slot, REGISTERED, DEACTIVATED
  <2> QED BY <2>1, Verbs
<1>6. Store' = Apply(Store, e)
  BY <1>0, <1>4, <1>5, Verbs DEF Apply, Store
<1> QED BY <1>0, <1>1, <1>6, ExplainedBy

LEMMA PutContractExplained ==
    ASSUME Typed, NEW r \in Ref \cup {NoRef}, NEW c \in Content, PutContract(r, c)
    PROVE  Explained
<1> DEFINE e == [kind |-> "contract.registered", subject |-> r, detail |-> c]
<1>1. e \in Entry
  BY DEF Entry, KernelKind, PutContract
<1>2. Store' = Apply(Store, e)
  BY Verbs DEF Apply, Store, PutContract
<1> QED BY <1>1, <1>2, ExplainedBy DEF PutContract

LEMMA PutBlobExplained ==
    ASSUME Typed, NEW ns \in Namespace, NEW d \in Data, PutBlob(ns, d)
    PROVE  Explained
<1> DEFINE w == [namespace |-> ns, digest |-> Hash[d], count |-> Len(d)]
           e == [kind |-> "blob.put", subject |-> Hash[d], detail |-> w]
<1>0. Len(d) \in Nat /\ Hash[d] \in Digest
  BY HashAssumption DEF Digest
<1>1. e \in Entry
  BY <1>0 DEF Entry, KernelKind
<1>2. Store' = Apply(Store, e)
  BY Verbs DEF Apply, Store, PutBlob
<1> QED BY <1>1, <1>2, ExplainedBy DEF PutBlob

LEMMA PutArtifactExplained ==
    ASSUME Typed, NEW a \in Artifact, NEW ctx \in Context, PutArtifact(a, ctx)
    PROVE  Explained
<1> DEFINE e == [kind |-> "artifact.put", subject |-> ArtifactId(a), detail |-> a]
<1>0. UNCHANGED <<modules, contracts, blobs>>
  BY DEF PutArtifact, ReplayPutArtifact
<1>1. CASE UNCHANGED <<artifacts, ledger>>
  BY <1>0, <1>1 DEF Explained
<1>2. CASE /\ artifacts' = With(artifacts, ArtifactId(a), a)
           /\ Record("artifact.put", ArtifactId(a), a)
  <2>1. e \in Entry
    BY DEF Entry, KernelKind
  <2>2. Store' = Apply(Store, e)
    BY <1>0, <1>2, Verbs DEF Apply, Store
  <2> QED BY <1>2, <2>1, <2>2, ExplainedBy
<1> QED BY <1>1, <1>2 DEF PutArtifact, ReplayPutArtifact, StoreArtifact

LEMMA AppendExplained ==
    ASSUME Typed, OwnKinds, NEW kind \in AppendKind, NEW subject \in AppendSubject,
           NEW detail \in AppendDetail, AppendEntry(kind, subject, detail)
    PROVE  Explained
<1> DEFINE e == [kind |-> kind, subject |-> subject, detail |-> detail]
<1>1. e \in Entry
  BY DEF Entry
<1>2. kind \notin KernelKind
  BY DEF OwnKinds
<1>3. Store' = Apply(Store, e)
  BY <1>2 DEF Apply, Store, AppendEntry, KernelKind, Verb
<1> QED BY <1>1, <1>3, ExplainedBy DEF AppendEntry

\* Registry, contracts, blob index and artifacts reconstruct from the chain alone: while
\* modules keep to kinds of their own, every change of the stores comes with one new entry,
\* and is what an auditor concludes from that entry.
THEOREM ChainExplains ==
    ASSUME OwnKinds
    PROVE  Spec => EntryExplains
<1>1. Spec => []Typed
  BY InitTyped, NextTyped, PTL DEF Spec
<1>2. Typed /\ [Next]_vars =>
        [\/ UNCHANGED <<ledger, modules, contracts, blobs, artifacts>>
         \/ /\ Len(ledger') = Len(ledger) + 1
            /\ ledger' = Append(ledger, ledger'[Len(ledger')])
            /\ Store' = Apply(Store, ledger'[Len(ledger')])]_vars
  <2>1. ASSUME Typed, Next PROVE Explained
    BY <2>1, RegisterExplained, TransitionExplained, PutContractExplained, PutBlobExplained,
       PutArtifactExplained, AppendExplained, Zenon DEF Next
  <2> QED BY <2>1, Zenon DEF Explained
<1> QED BY <1>1, <1>2, PTL DEF Spec, EntryExplains
-----------------------------------------------------------------------------
(* The lifecycle on the chain *)

\* The first slot of a name is at lifecycle step v or past it.
Reached(name, v) == \E i \in DOMAIN modules : IsFirstNamed(modules, i, name) /\ v <= modules[i].lifecycle

\* The chain has an entry for that step.
Noted(name, v) == \E k \in DOMAIN ledger : Records(k, v, name)

\* Every name in the registry has a first slot.
Firsts ==
    \A i \in DOMAIN modules :
        \E j \in DOMAIN modules : IsFirstNamed(modules, j, modules[i].manifest.name)

\* The chain notes exactly the steps the registry took.
Lifecycles ==
    /\ Firsts
    /\ \A name \in Name, v \in 1..4 : Reached(name, v) <=> Noted(name, v)
    /\ LifecycleOrdered

\* The ledger took one more entry, of this kind and subject.
Grew(kind, subject) ==
    /\ Len(ledger) \in Nat
    /\ DOMAIN ledger = 1..Len(ledger) /\ DOMAIN ledger' = 1..(Len(ledger) + 1)
    /\ \A k \in DOMAIN ledger : ledger'[k] = ledger[k]
    /\ ledger'[Len(ledger) + 1].kind = kind /\ ledger'[Len(ledger) + 1].subject = subject

LEMMA RecordGrows ==
    ASSUME Typed, NEW kind, NEW subject, NEW detail,
           [kind |-> kind, subject |-> subject, detail |-> detail] \in Entry,
           Record(kind, subject, detail)
    PROVE  Grew(kind, subject)
BY Recorded DEF Grew

\* What a step may do to the registry and its part of the chain: nothing, or take the next
\* step of one name, noting it.
Keeps ==
    /\ modules' = modules
    /\ \/ ledger' = ledger
       \/ \E kind, subject : Grew(kind, subject) /\ \A v \in 1..4 : kind # Verb[v]

Takes(name, v) ==
    /\ \A n \in Name, u \in 1..4 : Reached(n, u)' <=> (Reached(n, u) \/ (n = name /\ u = v))
    /\ v > 1 => ~Reached(name, v) /\ Reached(name, v - 1)
    /\ Grew(Verb[v], name)

LEMMA SlotLifecycle ==
    ASSUME Typed
    PROVE  /\ modules \in Seq(Slot) /\ DOMAIN modules = 1..Len(modules) /\ Len(modules) \in Nat
           /\ \A i \in DOMAIN modules : modules[i] \in Slot /\ modules[i].lifecycle \in 1..4
<1>1. modules \in Seq(Slot)
  BY DEF Typed, TypeOK, Slot
<1>2. \A i \in DOMAIN modules : modules[i] \in Slot
  BY <1>1
<1>3. \A x \in Slot : x.lifecycle \in 1..4
  BY DEF Slot, REGISTERED, DEACTIVATED
<1> QED BY <1>1, <1>2, <1>3

LEMMA RegisterTakes ==
    ASSUME Typed, Firsts, NEW m \in Manifest, Register(m)
    PROVE  m.name \in Name /\ Firsts' /\ Takes(m.name, 1)
<1>1. [kind |-> "module.registered", subject |-> m.name, detail |-> m] \in Entry
  BY StoreAssumption, Verbs DEF Entry, KernelKind
<1>2. Grew(Verb[1], m.name)
  BY <1>1, RecordGrows, Verbs DEF Register
<1>3. /\ modules \in Seq(Slot) /\ Len(modules) \in Nat /\ DOMAIN modules = 1..Len(modules)
      /\ DOMAIN modules' = 1..(Len(modules) + 1)
      /\ \A i \in DOMAIN modules : modules'[i] = modules[i]
      /\ modules'[Len(modules) + 1] = [manifest |-> m, lifecycle |-> REGISTERED]
  BY DEF Register, Typed, TypeOK, Slot
<1>4. \A i \in DOMAIN modules : modules[i].lifecycle \in 1..4
  BY SlotLifecycle
<1>5. Firsts'
  <2>1. ASSUME NEW i \in DOMAIN modules, NEW n
        PROVE  i \in DOMAIN modules' /\ (IsFirstNamed(modules', i, n) <=> IsFirstNamed(modules, i, n))
    BY <1>3 DEF IsFirstNamed
  <2>2. ASSUME NEW i \in DOMAIN modules
        PROVE  \E j \in DOMAIN modules' : IsFirstNamed(modules', j, modules'[i].manifest.name)
    BY <1>3, <2>1 DEF Firsts
  <2>3. \E j \in DOMAIN modules' : IsFirstNamed(modules', j, m.name)
    <3>1. CASE \E i \in DOMAIN modules : modules[i].manifest.name = m.name
      BY <2>1, <3>1 DEF Firsts
    <3>2. CASE \A i \in DOMAIN modules : modules[i].manifest.name # m.name
      <4>1. IsFirstNamed(modules', Len(modules) + 1, m.name)
        BY <1>3, <3>2 DEF IsFirstNamed
      <4> QED BY <1>3, <4>1
    <3> QED BY <3>1, <3>2
  <2> QED BY <1>3, <2>2, <2>3 DEF Firsts
<1>6. ASSUME NEW n \in Name, NEW u \in 1..4
      PROVE  Reached(n, u)' <=> (Reached(n, u) \/ (n = m.name /\ u = 1))
  <2>1. ASSUME NEW i \in DOMAIN modules
        PROVE  /\ i \in DOMAIN modules'
               /\ IsFirstNamed(modules', i, n) <=> IsFirstNamed(modules, i, n)
    BY <1>3 DEF IsFirstNamed
  <2>2. ASSUME Reached(n, u) PROVE Reached(n, u)'
    BY <1>3, <2>1, <2>2 DEF Reached
  <2>3. ASSUME n = m.name, u = 1 PROVE Reached(n, u)'
    <3>1. CASE \E i \in DOMAIN modules : IsFirstNamed(modules, i, n)
      BY <1>3, <1>4, <2>1, <2>3, <3>1 DEF Reached
    <3>2. CASE \A i \in DOMAIN modules : modules[i].manifest.name # n
      <4>1. IsFirstNamed(modules', Len(modules) + 1, n)
        BY <1>3, <2>3, <3>2 DEF IsFirstNamed
      <4> QED BY <1>3, <2>3, <4>1 DEF Reached, REGISTERED
    <3> QED BY <3>1, <3>2 DEF Firsts
  <2>4. ASSUME Reached(n, u)' PROVE Reached(n, u) \/ (n = m.name /\ u = 1)
    <3>1. PICK i \in DOMAIN modules' : IsFirstNamed(modules', i, n) /\ u <= modules'[i].lifecycle
      BY <2>4 DEF Reached
    <3>2. CASE i \in DOMAIN modules
      BY <1>3, <2>1, <3>1, <3>2 DEF Reached
    <3>3. CASE i = Len(modules) + 1
      <4>1. modules'[i] = [manifest |-> m, lifecycle |-> 1]
        BY <1>3, <3>3 DEF REGISTERED
      <4>2. n = m.name
        BY <3>1, <4>1 DEF IsFirstNamed
      <4> QED BY <3>1, <4>1, <4>2
    <3> QED BY <1>3, <3>2, <3>3
  <2> QED BY <2>2, <2>3, <2>4
<1>7. ~(1 > 1)
  OBVIOUS
<1>8. m.name \in Name
  BY StoreAssumption
<1> QED BY <1>2, <1>5, <1>6, <1>7, <1>8, Zenon DEF Takes
LEMMA TransitionTakes ==
    ASSUME Typed, Firsts, NEW name \in Name, NEW to \in REGISTERED..DEACTIVATED, Transition(name, to)
    PROVE  Firsts' /\ to \in 2..4 /\ Takes(name, to)
<1>0. PICK i \in DOMAIN modules :
        /\ IsFirstNamed(modules, i, name) /\ to = modules[i].lifecycle + 1
        /\ modules' = [modules EXCEPT ![i].lifecycle = to]
        /\ Record(Verb[to], name, None)
  BY DEF Transition
<1>1. [kind |-> Verb[to], subject |-> name, detail |-> None] \in Entry
  BY Verbs DEF Entry, REGISTERED, DEACTIVATED
<1>2. Grew(Verb[to], name)
  BY <1>0, <1>1, RecordGrows
<1>3. /\ modules \in Seq(Slot) /\ DOMAIN modules = 1..Len(modules) /\ Len(modules) \in Nat
      /\ \A j \in DOMAIN modules : modules[j] \in Slot /\ modules[j].lifecycle \in 1..4
  BY SlotLifecycle
<1>4. to \in 2..4
  BY <1>0, <1>3 DEF REGISTERED, DEACTIVATED
<1>5. /\ DOMAIN modules' = DOMAIN modules
      /\ \A j \in DOMAIN modules : modules'[j].manifest = modules[j].manifest
      /\ \A j \in DOMAIN modules : j # i => modules'[j] = modules[j]
      /\ modules'[i].lifecycle = to
  <2>1. modules' = [modules EXCEPT ![i] = [modules[i] EXCEPT !.lifecycle = to]]
    BY <1>0
  <2>2. /\ [modules[i] EXCEPT !.lifecycle = to].manifest = modules[i].manifest
        /\ [modules[i] EXCEPT !.lifecycle = to].lifecycle = to
    <3>1. modules[i] \in Slot
      BY <1>3
    <3> QED BY <3>1 DEF Slot
  <2> QED BY <1>3, <2>1, <2>2
<1>6. ASSUME NEW j \in DOMAIN modules, NEW n
      PROVE  IsFirstNamed(modules', j, n) <=> IsFirstNamed(modules, j, n)
  <2>1. \A l \in 1..(j - 1) : l \in DOMAIN modules
    BY <1>3
  <2> QED BY <1>5, <2>1 DEF IsFirstNamed
<1>7. Firsts'
  BY <1>5, <1>6 DEF Firsts
<1>8. \A j \in DOMAIN modules : IsFirstNamed(modules, j, name) => j = i
  BY <1>0, <1>3, OneFirst
<1>9. ~Reached(name, to) /\ Reached(name, to - 1)
  <2>1. ~Reached(name, to)
    BY <1>0, <1>3, <1>8 DEF Reached
  <2>2. Reached(name, to - 1)
    BY <1>0, <1>3 DEF Reached
  <2> QED BY <2>1, <2>2
<1>10. ASSUME NEW n \in Name, NEW u \in 1..4
       PROVE  Reached(n, u)' <=> (Reached(n, u) \/ (n = name /\ u = to))
  <2>1. CASE n = name
    <3>1. Reached(n, u) <=> u <= modules[i].lifecycle
      BY <1>0, <1>8, <2>1 DEF Reached
    <3>2. Reached(n, u)' <=> u <= to
      BY <1>0, <1>5, <1>6, <1>8, <2>1 DEF Reached
    <3> QED BY <1>0, <1>3, <2>1, <3>1, <3>2
  <2>2. CASE n # name
    <3>1. \A j \in DOMAIN modules : IsFirstNamed(modules, j, n) => j # i
      BY <1>0, <2>2 DEF IsFirstNamed
    <3> QED BY <1>5, <1>6, <2>2, <3>1 DEF Reached
  <2> QED BY <2>1, <2>2
<1> QED BY <1>2, <1>4, <1>7, <1>9, <1>10, Zenon DEF Takes

LEMMA OtherKeeps ==
    ASSUME Typed, OwnKinds, [Next]_vars,
           ~(\E m \in Manifest : Register(m)),
           ~(\E name \in Name, to \in REGISTERED..DEACTIVATED : Transition(name, to))
    PROVE  Keeps
<1>1. CASE UNCHANGED vars
  BY <1>1 DEF vars, Keeps
<1>2. ASSUME NEW r \in Ref \cup {NoRef}, NEW c \in Content, PutContract(r, c)
      PROVE  Keeps
  <2>1. [kind |-> "contract.registered", subject |-> r, detail |-> c] \in Entry
    BY <1>2 DEF Entry, KernelKind, PutContract
  <2>2. Grew("contract.registered", r) /\ modules' = modules
    BY <1>2, <2>1, RecordGrows DEF PutContract
  <2>3. \A v \in 1..4 : "contract.registered" # Verb[v]
    BY DEF Verb
  <2> QED BY <2>2, <2>3, Zenon DEF Keeps
<1>3. ASSUME NEW ns \in Namespace, NEW d \in Data, PutBlob(ns, d)
      PROVE  Keeps
  <2>0. Len(d) \in Nat /\ Hash[d] \in Digest
    BY HashAssumption DEF Digest
  <2>1. [kind |-> "blob.put", subject |-> Hash[d],
         detail |-> [namespace |-> ns, digest |-> Hash[d], count |-> Len(d)]] \in Entry
    BY <2>0 DEF Entry, KernelKind
  <2>2. Grew("blob.put", Hash[d]) /\ modules' = modules
    BY <1>3, <2>1, RecordGrows DEF PutBlob
  <2>3. \A v \in 1..4 : "blob.put" # Verb[v]
    BY DEF Verb
  <2> QED BY <2>2, <2>3, Zenon DEF Keeps
<1>4. ASSUME NEW a \in Artifact, NEW ctx \in Context, PutArtifact(a, ctx)
      PROVE  Keeps
  <2>0. modules' = modules
    BY <1>4 DEF PutArtifact, ReplayPutArtifact
  <2>1. [kind |-> "artifact.put", subject |-> ArtifactId(a), detail |-> a] \in Entry
    BY DEF Entry, KernelKind
  <2>2. ledger' = ledger \/ Grew("artifact.put", ArtifactId(a))
    BY <1>4, <2>1, RecordGrows DEF PutArtifact, ReplayPutArtifact, StoreArtifact
  <2>3. \A v \in 1..4 : "artifact.put" # Verb[v]
    BY DEF Verb
  <2> QED BY <2>0, <2>2, <2>3, Zenon DEF Keeps
<1>5. ASSUME NEW kind \in AppendKind, NEW subject \in AppendSubject, NEW detail \in AppendDetail,
             AppendEntry(kind, subject, detail)
      PROVE  Keeps
  <2>1. [kind |-> kind, subject |-> subject, detail |-> detail] \in Entry
    BY DEF Entry
  <2>2. Grew(kind, subject) /\ modules' = modules
    BY <1>5, <2>1, RecordGrows DEF AppendEntry
  <2>3. \A v \in 1..4 : kind # Verb[v]
    BY Verbs DEF OwnKinds
  <2> QED BY <2>2, <2>3, Zenon DEF Keeps
<1> QED BY <1>1, <1>2, <1>3, <1>4, <1>5, Zenon DEF Next

\* A step that the registry takes is noted once and in its turn.
LEMMA TakesOrdered ==
    ASSUME Lifecycles, Firsts', NEW name \in Name, NEW v \in 1..4, Takes(name, v)
    PROVE  Lifecycles'
<1>0. Grew(Verb[v], name)
  BY DEF Takes
<1> PICK last \in Nat : last = Len(ledger) + 1
  BY <1>0 DEF Grew
<1>1. ASSUME NEW n \in Name, NEW u \in 1..4
      PROVE  /\ \A k \in DOMAIN ledger : k \in DOMAIN ledger' /\ (Records(k, u, n)' <=> Records(k, u, n))
             /\ last \in DOMAIN ledger' /\ (Records(last, u, n)' <=> (n = name /\ u = v))
  <2>1. \A w \in 1..4 : Verb[u] = Verb[w] => u = w
    BY DEF Verb
  <2> QED BY <1>0, <2>1 DEF Grew, Records
<1>2. \A k \in DOMAIN ledger' : k \in DOMAIN ledger \/ k = last
  BY <1>0 DEF Grew
<1>3. \A k \in DOMAIN ledger : k < last /\ k \in 1..(last - 1)
  BY <1>0 DEF Grew
<1>4. ASSUME NEW n \in Name, NEW u \in 1..4
      PROVE  Reached(n, u)' <=> Noted(n, u)'
  <2>1. Noted(n, u)' <=> (Noted(n, u) \/ (n = name /\ u = v))
    BY <1>1, <1>2 DEF Noted
  <2>2. Reached(n, u)' <=> (Reached(n, u) \/ (n = name /\ u = v))
    BY DEF Takes
  <2> QED BY <2>1, <2>2 DEF Lifecycles
<1>5. LifecycleOrdered'
  <2> SUFFICES ASSUME NEW n \in Name, NEW u \in 2..4, NEW k \in DOMAIN ledger', Records(k, u, n)'
               PROVE  /\ \E j \in 1..(k - 1) : Records(j, u - 1, n)'
                      /\ \A j \in DOMAIN ledger' : Records(j, u, n)' => j = k
    BY DEF LifecycleOrdered, DEACTIVATED
  <2>0. u \in 1..4 /\ u - 1 \in 1..4
    OBVIOUS
  <2>1. CASE k \in DOMAIN ledger
    <3>1. Records(k, u, n)
      BY <1>1, <2>0, <2>1
    <3>2. PICK j \in 1..(k - 1) : Records(j, u - 1, n)
      BY <2>1, <3>1 DEF Lifecycles, LifecycleOrdered, DEACTIVATED
    <3>3. j \in DOMAIN ledger
      BY <1>0, <2>1 DEF Grew
    <3>4. Noted(n, u)
      BY <2>1, <3>1 DEF Noted
    <3>5. ~(n = name /\ u = v)
      <4>1. Reached(n, u)
        BY <2>0, <3>4 DEF Lifecycles
      <4>2. v > 1 => ~Reached(name, v)
        BY DEF Takes
      <4> QED BY <4>1, <4>2
    <3>6. \A l \in DOMAIN ledger : Records(l, u, n) => l = k
      BY <2>1, <3>1 DEF Lifecycles, LifecycleOrdered, DEACTIVATED
    <3> QED BY <1>1, <1>2, <2>0, <3>2, <3>3, <3>5, <3>6
  <2>2. CASE k = last
    <3>1. n = name /\ u = v
      BY <1>1, <2>0, <2>2
    <3>2. ~Reached(n, u) /\ Reached(n, u - 1)
      BY <3>1 DEF Takes
    <3>3. ~Noted(n, u) /\ Noted(n, u - 1)
      BY <2>0, <3>2 DEF Lifecycles
    <3>4. PICK j \in DOMAIN ledger : Records(j, u - 1, n)
      BY <3>3 DEF Noted
    <3>5. j \in 1..(k - 1) /\ Records(j, u - 1, n)'
      BY <1>1, <1>3, <2>0, <2>2, <3>4
    <3>6. \A l \in DOMAIN ledger' : Records(l, u, n)' => l = k
      BY <1>1, <1>2, <2>0, <2>2, <3>3 DEF Noted
    <3> QED BY <3>5, <3>6
  <2> QED BY <1>2, <2>1, <2>2
<1> QED BY <1>4, <1>5 DEF Lifecycles

LEMMA KeepsOrdered == ASSUME Lifecycles, Keeps PROVE Lifecycles'
<1>0. Firsts' /\ \A n \in Name, u \in 1..4 : Reached(n, u)' <=> Reached(n, u)
  BY DEF Keeps, Lifecycles, Firsts, Reached
<1>1. CASE ledger' = ledger
  BY <1>0, <1>1 DEF Lifecycles, LifecycleOrdered, Noted, Records
<1>2. ASSUME NEW kind, NEW subject, Grew(kind, subject), \A v \in 1..4 : kind # Verb[v]
      PROVE  Lifecycles'
  <2>1. ASSUME NEW n \in Name, NEW u \in 1..4
        PROVE  \A k \in DOMAIN ledger' : Records(k, u, n)' <=> (k \in DOMAIN ledger /\ Records(k, u, n))
    BY <1>2 DEF Grew, Records
  <2>2. \A k \in DOMAIN ledger : k \in DOMAIN ledger' /\ \A j \in 1..(k - 1) : j \in DOMAIN ledger
    BY <1>2 DEF Grew
  <2>3. \A n \in Name, u \in 1..4 : Noted(n, u)' <=> Noted(n, u)
    BY <2>1, <2>2 DEF Noted
  <2>4. LifecycleOrdered'
    <3> SUFFICES ASSUME NEW n \in Name, NEW u \in 2..4, NEW k \in DOMAIN ledger', Records(k, u, n)'
                 PROVE  /\ \E j \in 1..(k - 1) : Records(j, u - 1, n)'
                        /\ \A j \in DOMAIN ledger' : Records(j, u, n)' => j = k
      BY DEF LifecycleOrdered, DEACTIVATED
    <3>0. u \in 1..4 /\ u - 1 \in 1..4
      OBVIOUS
    <3>1. k \in DOMAIN ledger /\ Records(k, u, n)
      BY <2>1, <3>0
    <3>2. /\ \E j \in 1..(k - 1) : Records(j, u - 1, n)
          /\ \A j \in DOMAIN ledger : Records(j, u, n) => j = k
      BY <3>1 DEF Lifecycles, LifecycleOrdered, DEACTIVATED
    <3> QED BY <2>1, <2>2, <3>0, <3>1, <3>2
  <2> QED BY <1>0, <2>3, <2>4 DEF Lifecycles
<1> QED BY <1>1, <1>2 DEF Keeps

\* While modules keep to kinds of their own, the chain shows every module's lifecycle in
\* order: each step once, after the step before it and after a registration of that name,
\* however often the name is registered and transitions are asked for.
THEOREM LifecycleOnChain ==
    ASSUME OwnKinds
    PROVE  Spec => []LifecycleOrdered
<1>1. Init => Lifecycles
  BY DEF Init, Lifecycles, Firsts, Reached, Noted, LifecycleOrdered
<1>2. Typed /\ Lifecycles /\ [Next]_vars => Lifecycles'
  <2> SUFFICES ASSUME Typed, Lifecycles, [Next]_vars PROVE Lifecycles'
    OBVIOUS
  <2>0. Firsts
    BY DEF Lifecycles
  <2>1. ASSUME NEW m \in Manifest, Register(m) PROVE Lifecycles'
    BY <2>0, <2>1, RegisterTakes, TakesOrdered
  <2>2. ASSUME NEW name \in Name, NEW to \in REGISTERED..DEACTIVATED, Transition(name, to)
        PROVE  Lifecycles'
    BY <2>0, <2>2, TransitionTakes, TakesOrdered
  <2> QED BY <2>1, <2>2, OtherKeeps, KeepsOrdered, Zenon
<1>3. Lifecycles => LifecycleOrdered
  BY DEF Lifecycles
<1> QED BY <1>1, <1>2, <1>3, InitTyped, NextTyped, PTL DEF Spec
-----------------------------------------------------------------------------
(* What a reply reads back *)

\* The address tells the bags of accepted artifacts apart.
AddressesDiffer ==
    \A a, b \in Artifact :
        (ValidArtifact(a) /\ ValidArtifact(b) /\ ArtifactId(a) = ArtifactId(b))
            => BagValue(a.traits) = BagValue(b.traits)

\* Every artifact is stored under its own address.
Addressed == \A id \in DOMAIN artifacts : ValidArtifact(artifacts[id]) /\ ArtifactId(artifacts[id]) = id

\* A keyed caller was answered exactly when the table has its key, always with the id that
\* the table has, and that id holds the bag it put first.
Answers ==
    /\ \A ctx \in DOMAIN told : ctx \in Context /\ ctx.key # NoKey
    /\ \A ctx \in Context : ctx.key # NoKey =>
         (ctx \in DOMAIN told <=> IdempotencyKey(ctx) \in DOMAIN idempotency)
    /\ \A ctx \in DOMAIN told :
         LET id == idempotency[IdempotencyKey(ctx)]
         IN  told[ctx] = [first |-> BagValue(artifacts[id].traits), replies |-> {id}]

LEMMA AddressedStep == ASSUME Typed, Addressed, [Next]_vars PROVE Addressed'
<1>1. CASE artifacts' = artifacts
  BY <1>1 DEF Addressed
<1>2. ASSUME NEW a \in Artifact, ValidArtifact(a), artifacts' = With(artifacts, ArtifactId(a), a)
      PROVE  Addressed'
  <2>1. /\ DOMAIN artifacts' = DOMAIN artifacts \cup {ArtifactId(a)} /\ artifacts'[ArtifactId(a)] = a
        /\ \A id \in DOMAIN artifacts : id # ArtifactId(a) => artifacts'[id] = artifacts[id]
    BY <1>2 DEF With
  <2> QED BY <1>2, <2>1 DEF Addressed
<1> QED BY <1>1, <1>2, ArtifactsStep, Zenon

\* The table files each keyed context under a key of its own.
LEMMA KeysDiffer ==
    ASSUME NEW c \in Context, NEW d \in Context, IdempotencyKey(c) = IdempotencyKey(d)
    PROVE  c = d
<1>1. c.caller = d.caller /\ c.key = d.key
  BY DEF IdempotencyKey
<1> QED BY <1>1 DEF Context

\* A call whose key was answered before answers the same and changes nothing.
LEMMA ReplayAnswers ==
    ASSUME Typed, Answers, NEW a \in Artifact, NEW ctx \in Context, ctx.key # NoKey,
           IdempotencyKey(ctx) \in DOMAIN idempotency, ReplayPutArtifact(a, ctx)
    PROVE  Answers'
<1> DEFINE id == idempotency[IdempotencyKey(ctx)]
<1>0. UNCHANGED <<artifacts, idempotency>>
  BY DEF ReplayPutArtifact
<1>1. ctx \in DOMAIN told
  BY DEF Answers
<1>2. told[ctx] = [first |-> BagValue(artifacts[id].traits), replies |-> {id}]
  BY <1>1 DEF Answers
<1>3. told' = [told EXCEPT ![ctx].replies = told[ctx].replies \cup {id}]
  BY <1>1 DEF ReplayPutArtifact, Reply
<1>4. /\ DOMAIN told' = DOMAIN told
      /\ \A c \in DOMAIN told : c # ctx => told'[c] = told[c]
      /\ told'[ctx] = told[ctx]
  <2>1. told' = [told EXCEPT ![ctx] = [told[ctx] EXCEPT !.replies = told[ctx].replies \cup {id}]]
    BY <1>3
  <2> HIDE DEF id
  <2>2. [told[ctx] EXCEPT !.replies = told[ctx].replies \cup {id}] = told[ctx]
    BY <1>2
  <2> QED BY <1>1, <2>1, <2>2
<1>5. \A c \in DOMAIN told : told'[c] = told[c]
  BY <1>4
<1> QED BY <1>0, <1>4, <1>5 DEF Answers

\* A first call under a key stores, or finds, the bag it was given.
LEMMA FirstAnswers ==
    ASSUME AddressesDiffer, Typed, Addressed, Addressed', Answers, NEW a \in Artifact, NEW ctx \in Context,
           ValidArtifact(a), ctx.key # NoKey, IdempotencyKey(ctx) \notin DOMAIN idempotency,
           StoreArtifact(a), idempotency' = With(idempotency, IdempotencyKey(ctx), ArtifactId(a)),
           Reply(a, ctx, ArtifactId(a))
    PROVE  Answers'
<1> DEFINE k == IdempotencyKey(ctx)
           id == ArtifactId(a)
           answer == [first |-> BagValue(a.traits), replies |-> {id}]
<1>1. ctx \notin DOMAIN told
  BY DEF Answers
<1>2. told' = With(told, ctx, answer)
  BY <1>1 DEF Reply
<1>3. /\ DOMAIN idempotency' = DOMAIN idempotency \cup {k} /\ idempotency'[k] = id
      /\ \A x \in DOMAIN idempotency : idempotency'[x] = idempotency[x]
  BY DEF With
<1>4. /\ id \in DOMAIN artifacts' /\ artifacts'[id] \in Artifact
      /\ \A x \in DOMAIN artifacts : artifacts'[x] = artifacts[x]
  BY Stored
<1>5. BagValue(artifacts'[id].traits) = BagValue(a.traits)
  BY <1>4 DEF Addressed, AddressesDiffer
<1> HIDE DEF answer, id
<1>6. /\ DOMAIN told' = DOMAIN told \cup {ctx} /\ told'[ctx] = answer
      /\ \A c \in DOMAIN told : told'[c] = told[c]
  BY <1>1, <1>2 DEF With
<1>7. \A c \in DOMAIN told' : c \in Context /\ c.key # NoKey
  BY <1>6 DEF Answers
<1>8. ASSUME NEW c \in Context, c.key # NoKey
      PROVE  c \in DOMAIN told' <=> IdempotencyKey(c) \in DOMAIN idempotency'
  <2>1. IdempotencyKey(c) = k <=> c = ctx
    BY KeysDiffer
  <2>2. c \in DOMAIN told <=> IdempotencyKey(c) \in DOMAIN idempotency
    BY <1>8 DEF Answers
  <2> QED BY <1>3, <1>6, <2>1, <2>2
<1>9. ASSUME NEW c \in DOMAIN told'
      PROVE  told'[c] = [first |-> BagValue(artifacts'[idempotency'[IdempotencyKey(c)]].traits),
                         replies |-> {idempotency'[IdempotencyKey(c)]}]
  <2>1. CASE c = ctx
    BY <1>3, <1>5, <1>6, <2>1 DEF answer
  <2>2. CASE c \in DOMAIN told
    <3>1. IdempotencyKey(c) \in DOMAIN idempotency
      BY <2>2 DEF Answers
    <3>2. idempotency[IdempotencyKey(c)] \in DOMAIN artifacts
      BY <3>1 DEF Typed, TypeOK
    <3> QED BY <1>3, <1>4, <1>6, <2>2, <3>1, <3>2 DEF Answers
  <2> QED BY <1>6, <2>1, <2>2
<1> QED BY <1>7, <1>8, <1>9 DEF Answers, IdempotencyKey
LEMMA PutArtifactAnswers ==
    ASSUME AddressesDiffer, Typed, Addressed, Addressed', Answers,
           NEW a \in Artifact, NEW ctx \in Context, PutArtifact(a, ctx)
    PROVE  Answers'
<1>1. CASE Replayed(ctx)
  <2>1. ctx.key # NoKey /\ IdempotencyKey(ctx) \in DOMAIN idempotency /\ ReplayPutArtifact(a, ctx)
    BY <1>1 DEF PutArtifact, Replayed
  <2> QED BY <2>1, ReplayAnswers
<1>2. CASE ~Replayed(ctx) /\ ctx.key # NoKey
  <2>1. /\ IdempotencyKey(ctx) \notin DOMAIN idempotency
        /\ ValidArtifact(a) /\ StoreArtifact(a) /\ Reply(a, ctx, ArtifactId(a))
        /\ idempotency' = With(idempotency, IdempotencyKey(ctx), ArtifactId(a))
    BY <1>2 DEF PutArtifact, Replayed
  <2> QED BY <1>2, <2>1, FirstAnswers
<1>3. CASE ctx.key = NoKey
  <2>1. UNCHANGED <<told, idempotency>> /\ StoreArtifact(a)
    BY <1>3 DEF PutArtifact, Replayed, Reply
  <2>2. \A x \in DOMAIN artifacts : artifacts'[x] = artifacts[x]
    BY <2>1, Stored
  <2>3. \A c \in DOMAIN told : idempotency[IdempotencyKey(c)] \in DOMAIN artifacts
    BY DEF Typed, TypeOK, Answers
  <2> QED BY <2>1, <2>2, <2>3 DEF Answers
<1> QED BY <1>1, <1>2, <1>3

\* GetArtifact of a reply reads back the bag its caller put first under its request key,
\* whatever other callers put, under whatever keys, and however often the call is retried:
\* as long as the addresses of accepted artifacts tell their bags apart.
THEOREM RepliesReadBack ==
    ASSUME AddressesDiffer
    PROVE  Spec => []ReadsBack
<1>1. Init => Addressed /\ Answers
  BY DEF Init, Addressed, Answers
<1>2. Typed /\ Addressed /\ Answers /\ [Next]_vars => Addressed' /\ Answers'
  <2> SUFFICES ASSUME Typed, Addressed, Answers, [Next]_vars PROVE Addressed' /\ Answers'
    OBVIOUS
  <2>1. Addressed'
    BY AddressedStep
  <2>2. CASE \E a \in Artifact, ctx \in Context : PutArtifact(a, ctx)
    BY <2>1, <2>2, PutArtifactAnswers, Zenon
  <2>3. CASE UNCHANGED <<artifacts, idempotency, told>>
    BY <2>1, <2>3 DEF Answers
  <2>4. CASE UNCHANGED vars
    BY <2>3, <2>4 DEF vars
  <2> QED BY <2>2, <2>3, <2>4
          DEF Next, Register, Transition, PutContract, PutBlob, AppendEntry
<1>3. Typed /\ Answers => ReadsBack
  <2> SUFFICES ASSUME Typed, Answers, NEW ctx \in DOMAIN told, NEW id \in told[ctx].replies
               PROVE  id \in DOMAIN artifacts /\ BagValue(GetArtifact(id).traits) = told[ctx].first
    BY DEF ReadsBack
  <2>1. id = idempotency[IdempotencyKey(ctx)] /\ told[ctx].first = BagValue(artifacts[id].traits)
    BY DEF Answers
  <2>2. IdempotencyKey(ctx) \in DOMAIN idempotency
    BY DEF Answers
  <2> QED BY <2>1, <2>2 DEF Typed, TypeOK, GetArtifact
<1> QED BY <1>1, <1>2, <1>3, InitTyped, NextTyped, PTL DEF Spec
=============================================================================
