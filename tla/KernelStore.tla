---------------------------- MODULE KernelStore ----------------------------
(***************************************************************************)
(* What the kernel stores besides runs: the module registry, contracts,    *)
(* blobs, artifacts, the idempotency table of PutArtifact, and the ledger  *)
(* every one of those writes is recorded in.                               *)
(*                                                                         *)
(* One mutex guards all of it, so an RPC is one atomic action; a call that *)
(* is refused (deadline, INVALID, CONFLICT, NOT_FOUND) changes nothing.    *)
(* Text that is hashed (contract refs, namespaces, bodies) is a byte       *)
(* string; other digests are modelled by the value they are computed from. *)
(***************************************************************************)
EXTENDS Canonical

CONSTANTS
    Manifest,        \* manifests modules register: records with a name and the
                     \* contract refs on the ports of what they provide
    Name,            \* module names callers use
    Ref,             \* contract refs, none of them empty
    Content, Blank,  \* contract contents, the empty content of a placeholder
    Namespace,       \* blob namespaces
    Artifact,        \* artifacts callers put: records with traits and a tag (meta,
                     \* produced_by, ...: everything outside the address)
    LimitInline, MaxBlob,   \* ArtifactStorePolicy; 0 is the default, 0 is unlimited
    DefaultInline,          \* MAX_INLINE_ARTIFACT_BYTES
    Caller, Key, NoKey,     \* RequestContext.caller and request_key
    AppendKind, AppendSubject, AppendDetail,   \* what modules append themselves
    MaxLedger        \* bound: ledger entries

NoRef == << >>
\* normalize_store_policy
MaxInline == IF LimitInline = 0 THEN DefaultInline ELSE LimitInline
\* is_sha256_digest
Digest == {Hash[d] : d \in Data}
Context == [caller : Caller, key : Key \cup {NoKey}]

ASSUME StoreAssumption ==
    /\ LimitInline \in Nat /\ DefaultInline \in Nat \ {0} /\ MaxBlob \in Nat /\ MaxLedger \in Nat
    /\ \A m \in Manifest : m.name \in Name /\ m.refs \subseteq Ref \cup {NoRef}
    /\ NoRef \notin Ref /\ Blank \in Content /\ NoKey \notin Key

VARIABLES
    modules,       \* registered modules, in order: manifest and lifecycle
    contracts,     \* ref -> content
    blobs,         \* <<namespace, digest>> -> byte count
    artifacts,     \* artifact id -> stored artifact
    idempotency,   \* <<caller, key>> -> id of the first reply
    ledger,        \* entries, in order
    told           \* per keyed context, the bag its caller put first and the ids it was answered

vars == <<modules, contracts, blobs, artifacts, idempotency, ledger, told>>

\* The lifecycle of a module and the kind its steps are recorded under.
REGISTERED == 1
DEACTIVATED == 4
Verb == <<"module.registered", "module.loaded", "module.activated", "module.deactivated">>

\* append_locked
Record(kind, subject, detail) ==
    /\ Len(ledger) < MaxLedger
    /\ ledger' = Append(ledger, [kind |-> kind, subject |-> subject, detail |-> detail])

\* f with k mapped to v.
With(f, k, v) == [x \in DOMAIN f \cup {k} |-> IF x = k THEN v ELSE f[x]]
-----------------------------------------------------------------------------
(* Registry *)

\* ensure_contract_placeholder, for every ref on a port: only new refs get a stub.
WithPlaceholders(cs, refs) ==
    [r \in DOMAIN cs \cup (refs \ {NoRef}) |-> IF r \in DOMAIN cs THEN cs[r] ELSE Blank]

\* register_ctx: a new slot, whatever is registered under that name already.
Register(m) ==
    /\ contracts' = WithPlaceholders(contracts, m.refs)
    /\ modules' = Append(modules, [manifest |-> m, lifecycle |-> REGISTERED])
    /\ Record("module.registered", m.name, m)
    /\ UNCHANGED <<blobs, artifacts, idempotency, told>>

\* The slot transition_req finds for a name: the first one.
IsFirstNamed(ms, i, name) ==
    /\ ms[i].manifest.name = name
    /\ \A j \in 1..(i - 1) : ms[j].manifest.name # name

\* Faulty variant (mutation runs only).
TransitionJumps(name, to) ==
    \E i \in DOMAIN modules :
        /\ IsFirstNamed(modules, i, name)
        /\ to > modules[i].lifecycle
        /\ modules' = [modules EXCEPT ![i].lifecycle = to]
        /\ Record(Verb[to], name, None)
        /\ UNCHANGED <<contracts, blobs, artifacts, idempotency, told>>

\* transition_req: one step forward; anything else is a no-op.
Transition(name, to) ==
    \E i \in DOMAIN modules :
        /\ IsFirstNamed(modules, i, name)
        /\ to = modules[i].lifecycle + 1
        /\ modules' = [modules EXCEPT ![i].lifecycle = to]
        /\ Record(Verb[to], name, None)
        /\ UNCHANGED <<contracts, blobs, artifacts, idempotency, told>>

\* Faulty variant (mutation runs only).
MayStoreAnyOther(r, c) == r \in DOMAIN contracts => contracts[r] # c

\* put_contract stores new content: under a new ref, or once over a placeholder.  Identical
\* content is a no-op, different content a conflict.
MayStore(r, c) == r \in DOMAIN contracts => (contracts[r] = Blank /\ c # Blank)

\* Faulty variant (mutation runs only).
PutContractAnyRef(r, c) ==
    /\ MayStore(r, c)
    /\ contracts' = With(contracts, r, c)
    /\ Record("contract.registered", r, c)
    /\ UNCHANGED <<modules, blobs, artifacts, idempotency, told>>

PutContract(r, c) ==
    /\ r # NoRef
    /\ MayStore(r, c)
    /\ contracts' = With(contracts, r, c)
    /\ Record("contract.registered", r, c)
    /\ UNCHANGED <<modules, blobs, artifacts, idempotency, told>>
-----------------------------------------------------------------------------
(* Blobs and artifacts *)

\* Faulty variant (mutation runs only).
PutBlobUnrecorded(ns, d) ==
    /\ <<ns, Hash[d]>> \notin DOMAIN blobs
    /\ blobs' = With(blobs, <<ns, Hash[d]>>, Len(d))
    /\ UNCHANGED <<modules, contracts, artifacts, idempotency, ledger, told>>

\* put_blob: copied under namespace and digest, first write wins.
PutBlob(ns, d) ==
    /\ MaxBlob > 0 => Len(d) <= MaxBlob
    /\ <<ns, Hash[d]>> \notin DOMAIN blobs
    /\ blobs' = With(blobs, <<ns, Hash[d]>>, Len(d))
    /\ Record("blob.put", Hash[d], [namespace |-> ns, digest |-> Hash[d], count |-> Len(d)])
    /\ UNCHANGED <<modules, contracts, artifacts, idempotency, told>>

\* validate_artifact_content, for one trait.
ValidTrait(t) ==
    /\ ~(HasObject(t) /\ HasBody(t))
    /\ HasBody(t) => Len(t.body) <= MaxInline
    /\ t.object # None =>
         \/ t.object.digest \in Digest
         \/ t.object.digest = << >> /\ t.object.count = 0 /\ t.object.namespace = << >>

ValidArtifact(a) ==
    /\ DOMAIN a.traits # {}
    /\ NoRef \notin DOMAIN a.traits
    /\ \A r \in DOMAIN a.traits : ValidTrait(a.traits[r])

\* Faulty variant (mutation runs only).
VerifyObjectAnywhere(o) == \E ns \in Namespace : <<ns, o.digest>> \in DOMAIN blobs

\* verify_object_ref_locked: the blob is there, in that namespace and of that size.
VerifyObject(o) ==
    /\ <<o.namespace, o.digest>> \in DOMAIN blobs
    /\ blobs[<<o.namespace, o.digest>>] = o.count

\* Faulty variant (mutation runs only).
IdempotencyKeyOfKey(ctx) == <<ctx.key>>

\* idempotency_key: scoped by caller (the operation is the table).
IdempotencyKey(ctx) == <<ctx.caller, ctx.key>>

Replayed(ctx) == ctx.key # NoKey /\ IdempotencyKey(ctx) \in DOMAIN idempotency

\* The caller of a keyed call gets a reply.
Reply(a, ctx, id) ==
    told' = CASE ctx.key = NoKey -> told
              [] ctx.key # NoKey /\ ctx \in DOMAIN told -> [told EXCEPT ![ctx].replies = @ \cup {id}]
              [] OTHER -> With(told, ctx, [first |-> BagValue(a.traits), replies |-> {id}])

\* put_artifact_ctx whose request_key has been answered before.
ReplayPutArtifact(a, ctx) ==
    /\ Reply(a, ctx, idempotency[IdempotencyKey(ctx)])
    /\ UNCHANGED <<modules, contracts, blobs, artifacts, idempotency, ledger>>

\* Only the first writer of an id sets what is stored, and is recorded.
StoreArtifact(a) ==
    \/ ArtifactId(a) \in DOMAIN artifacts /\ UNCHANGED <<artifacts, ledger>>
    \/ /\ ArtifactId(a) \notin DOMAIN artifacts
       /\ artifacts' = With(artifacts, ArtifactId(a), a)
       /\ Record("artifact.put", ArtifactId(a), a)

\* put_artifact_ctx
PutArtifact(a, ctx) ==
    /\ ValidArtifact(a)
    /\ \/ Replayed(ctx) /\ ReplayPutArtifact(a, ctx)
       \/ /\ ~Replayed(ctx)
          /\ \A r \in DOMAIN a.traits : HasObject(a.traits[r]) => VerifyObject(a.traits[r].object)
          /\ StoreArtifact(a)
          /\ idempotency' = IF ctx.key = NoKey THEN idempotency
                            ELSE With(idempotency, IdempotencyKey(ctx), ArtifactId(a))
          /\ Reply(a, ctx, ArtifactId(a))
          /\ UNCHANGED <<modules, contracts, blobs>>

\* put_artifact_with_blob is put_blob and then put_artifact, in two lock sections.

\* append: a module's own entry, of any kind the module names.
AppendEntry(kind, subject, detail) ==
    /\ Record(kind, subject, detail)
    /\ UNCHANGED <<modules, contracts, blobs, artifacts, idempotency, told>>
-----------------------------------------------------------------------------
Init ==
    /\ modules = << >> /\ contracts = << >> /\ blobs = << >> /\ artifacts = << >>
    /\ idempotency = << >> /\ ledger = << >> /\ told = << >>

Next ==
    \/ \E m \in Manifest : Register(m)
    \/ \E name \in Name, to \in REGISTERED..DEACTIVATED : Transition(name, to)
    \/ \E r \in Ref \cup {NoRef}, c \in Content : PutContract(r, c)
    \/ \E ns \in Namespace, d \in Data : PutBlob(ns, d)
    \/ \E a \in Artifact, ctx \in Context : PutArtifact(a, ctx)
    \/ \E kind \in AppendKind, subject \in AppendSubject, detail \in AppendDetail :
            AppendEntry(kind, subject, detail)

Spec == Init /\ [][Next]_vars
=============================================================================
