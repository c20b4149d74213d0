----------------------------- MODULE Canonical -----------------------------
(***************************************************************************)
(* The byte strings the kernel hashes into the id of an artifact.  A byte  *)
(* string is a sequence of naturals below 256; sha256 is a function that   *)
(* gives different strings different digests, so an id is modelled by the  *)
(* bytes it is the hash of.                                                *)
(*                                                                         *)
(* A trait is a record [body, object]: the inline bytes (possibly none),   *)
(* and None or a record [digest, count, namespace] naming a blob.          *)
(***************************************************************************)
EXTENDS Integers, Sequences
LOCAL INSTANCE SequencesExt
LOCAL INSTANCE FiniteSets

CONSTANTS
    Data,    \* the byte strings callers store as blobs
    Hash,    \* blob_id: the text "sha256:<hex>" of each of them
    None     \* no object

\* SEP
SEP == 0

\* blob_id gives different data different digests, and a digest is text without a SEP.
ASSUME HashAssumption ==
    /\ Data \subseteq Seq(0..255)
    /\ \A d, e \in Data : Hash[d] = Hash[e] => d = e
    /\ \A d \in Data : Hash[d] # << >> /\ SEP \notin {Hash[d][k] : k \in DOMAIN Hash[d]}

\* to_be_bytes of an unsigned 64-bit count below 2^31.
BigEndian(n) ==
    [k \in 1..8 |-> IF k < 5 THEN 0 ELSE (n \div (256 ^ (8 - k))) % 256]

\* The order of keys.sort(): byte by byte, a prefix first.
Precedes(s, t) ==
    \/ IsStrictPrefix(s, t)
    \/ \E k \in DOMAIN s \cap DOMAIN t :
            s[k] < t[k] /\ \A j \in 1..(k - 1) : s[j] = t[j]

\* trait_has_external, and the inline counterpart.
HasObject(t) == t.object # None /\ t.object.digest # << >>
HasBody(t) == t.body # << >>

\* object_ref_bytes
ObjectRefBytes(o) == o.digest \o <<SEP>> \o BigEndian(o.count) \o <<SEP>> \o o.namespace

\* trait_content: an external trait counts by its reference.
TraitContent(t) == IF HasObject(t) THEN ObjectRefBytes(t.object) ELSE t.body

\* Faulty variant (mutation runs only).
CanonicalBytesJoined(bag) ==
    FlattenSeq([k \in 1..Cardinality(DOMAIN bag) |->
        LET ref == SetToSortSeq(DOMAIN bag, Precedes)[k] IN ref \o TraitContent(bag[ref])])

\* artifact_canonical_bytes of a bag, a function from contract refs to traits.
CanonicalBytes(bag) ==
    FlattenSeq([k \in 1..Cardinality(DOMAIN bag) |->
        LET ref == SetToSortSeq(DOMAIN bag, Precedes)[k]
        IN  ref \o <<SEP>> \o TraitContent(bag[ref]) \o <<SEP>>])

\* artifact_id_of: the bag is the address, and nothing else of the artifact is.
ArtifactId(a) == CanonicalBytes(a.traits)

\* What a bag says: a body, or the blob the reference names.
BagValue(bag) ==
    [r \in DOMAIN bag |-> IF HasObject(bag[r]) THEN bag[r] ELSE [bag[r] EXCEPT !.object = None]]
=============================================================================
