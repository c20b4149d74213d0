-------------------------- MODULE StoreProperties --------------------------
(***************************************************************************)
(* What the stores promise (kernel/SPEC.md, "Ledger detail", "The seven    *)
(* primitives" and the idempotency rule).                                  *)
(***************************************************************************)
EXTENDS KernelStore

\* The type invariant: shapes of the tables.
TypeOK ==
    /\ modules \in Seq([manifest : Manifest, lifecycle : REGISTERED..DEACTIVATED])
    /\ contracts \in [DOMAIN contracts -> Content] /\ DOMAIN contracts \subseteq Ref
    /\ blobs \in [DOMAIN blobs -> Nat] /\ DOMAIN blobs \subseteq Namespace \X Digest
    /\ artifacts \in [DOMAIN artifacts -> Artifact]
    /\ idempotency \in [DOMAIN idempotency -> DOMAIN artifacts]
    /\ Len(ledger) <= MaxLedger

-----------------------------------------------------------------------------
(* The ledger as the record of the store *)

Store == [modules |-> modules, contracts |-> contracts, blobs |-> blobs, artifacts |-> artifacts]

\* The registry after the first slot of a name took its next lifecycle step.
Stepped(ms, name) ==
    [i \in DOMAIN ms |->
        IF IsFirstNamed(ms, i, name) THEN [ms[i] EXCEPT !.lifecycle = @ + 1] ELSE ms[i]]

\* What an auditor concludes from one entry, from its kind, subject and detail alone.
Apply(s, e) ==
    CASE e.kind = "module.registered" ->
           [s EXCEPT !.modules = Append(@, [manifest |-> e.detail, lifecycle |-> REGISTERED]),
                     !.contracts = WithPlaceholders(@, e.detail.refs)]
      [] e.kind \in {Verb[2], Verb[3], Verb[4]} ->
           [s EXCEPT !.modules = Stepped(@, e.subject)]
      [] e.kind = "contract.registered" ->
           [s EXCEPT !.contracts = With(@, e.subject, e.detail)]
      [] e.kind = "blob.put" ->
           [s EXCEPT !.blobs = With(@, <<e.detail.namespace, e.detail.digest>>, e.detail.count)]
      [] e.kind = "artifact.put" ->
           [s EXCEPT !.artifacts = With(@, e.subject, e.detail)]
      [] OTHER -> s

\* Registry, contracts, blob index and artifacts reconstruct from the chain alone: the
\* store changes only with a new entry, and by what that entry says.
EntryExplains ==
    [][\/ UNCHANGED <<ledger, modules, contracts, blobs, artifacts>>
       \/ /\ Len(ledger') = Len(ledger) + 1
          /\ ledger' = Append(ledger, ledger'[Len(ledger')])
          /\ Store' = Apply(Store, ledger'[Len(ledger')])]_vars

\* First write wins: a stored artifact, a blob and a contract with content never change,
\* whoever puts, registers or retries afterwards.
FirstWriteWins ==
    [][/\ \A id \in DOMAIN artifacts : id \in DOMAIN artifacts' /\ artifacts'[id] = artifacts[id]
       /\ \A b \in DOMAIN blobs : b \in DOMAIN blobs' /\ blobs'[b] = blobs[b]
       /\ \A r \in DOMAIN contracts :
            r \in DOMAIN contracts' /\ contracts[r] \in {Blank, contracts'[r]}]_vars

\* Entry k of the chain records that a module of this name took lifecycle step v.
Records(k, v, name) == ledger[k].kind = Verb[v] /\ ledger[k].subject = name

\* The chain shows a module's lifecycle in order: each step once, after the step before it
\* and so after a registration under that name.
LifecycleOrdered ==
    \A name \in Name, v \in 2..DEACTIVATED : \A k \in DOMAIN ledger :
        Records(k, v, name) =>
            /\ \E j \in 1..(k - 1) : Records(j, v - 1, name)
            /\ \A j \in DOMAIN ledger : Records(j, v, name) => j = k
-----------------------------------------------------------------------------
(* References *)

\* get_blob finds what put_blob stored, with the size the reference claims.
GetBlob(o) ==
    <<o.namespace, o.digest>> \in DOMAIN blobs /\ \E d \in Data : Hash[d] = o.digest /\ Len(d) = o.count

\* No stored artifact points outside the blob store: GetBlob serves every object
\* reference of every stored trait.
NoDanglingObject ==
    \A id \in DOMAIN artifacts : \A r \in DOMAIN artifacts[id].traits :
        HasObject(artifacts[id].traits[r]) => GetBlob(artifacts[id].traits[r].object)

\* get_artifact
GetArtifact(id) == artifacts[id]

\* GetArtifact of a reply reads back what was put: the bag this caller sent first under
\* its request_key.  Another caller's key, other content under the key and other bags
\* already stored change nothing, since different bags have different ids.
ReadsBack ==
    \A ctx \in DOMAIN told : \A id \in told[ctx].replies :
        /\ id \in DOMAIN artifacts
        /\ BagValue(GetArtifact(id).traits) = told[ctx].first
=============================================================================
