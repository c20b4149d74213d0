------------------------------ MODULE MCStore ------------------------------
(***************************************************************************)
(* Instances of KernelStore for TLC: two manifests of one name, a contract *)
(* ref they share, a small, a large and a refused payload.                 *)
(***************************************************************************)
EXTENDS StoreProperties, TLC

CallerSymmetry == Permutations(Caller)

r1 == <<1>>
r2 == <<1, 2>>
small == <<7>>
large == <<7, 8>>
huge == <<7, 8, 8>>
Refs == {r1, r2}
Payloads == {large, huge}
Digests == [d \in Payloads |-> IF d = large THEN <<9, 1>> ELSE <<9, 2>>]
NoDigest == <<9>>
Namespaces == {<< >>, <<5>>}
Manifests == {[name |-> "m", refs |-> {r1}], [name |-> "m", refs |-> {r1, r2, NoRef}]}

Inline(d) == [body |-> d, object |-> None]
External(h, n) == [body |-> << >>, object |-> [digest |-> h, count |-> n, namespace |-> << >>]]
Large == External(Digests[large], 2)
\* Bags without a SEP in a body: the first two have the same refs and bodies when run
\* together; the others are external, or refused for one reason each.
Joined == r1 :> Inline(r2 \o small)
Bags == {Joined, r1 :> Inline(<< >>) @@ r2 :> Inline(small), r1 :> Inline(huge \o small),
         r1 :> Large, r1 :> External(Digests[large], 1), r1 :> External(NoDigest, 2),
         r1 :> External(<< >>, 2), r1 :> [Large EXCEPT !.body = small],
         NoRef :> Inline(small), << >>}
Artifacts == {[traits |-> b, tag |-> "t"] : b \in Bags} \cup {[traits |-> Joined, tag |-> "u"]}

\* A body may hold any byte, SEP included.
AnyBytes == {[traits |-> r1 :> Inline(small) @@ r2 :> Inline(small), tag |-> "t"],
             [traits |-> r1 :> Inline(small \o <<SEP>> \o r2 \o <<SEP>> \o small), tag |-> "t"]}
=============================================================================
