------------------------------- MODULE MCRun -------------------------------
(***************************************************************************)
(* Instances of RunKernel for TLC.  The assemblies:                        *)
(*   fan-in: b and c read the run input and feed the terminal d;           *)
(*   chain: a reads the run input and feeds the terminal b;                *)
(*   side: the chain, and c that reads the run input and puts out nothing. *)
(***************************************************************************)
EXTENDS RunProperties, TLC

Bind(to, from) ==
    [to |-> to, port |-> "p", from |-> from,
     fromPort |-> IF from = None THEN None ELSE "o",
     input |-> IF from = None THEN "i" ELSE None]

NodeRank == [n \in Node |-> CASE n = "a" -> 1 [] n = "b" -> 2 [] n = "c" -> 3 [] OTHER -> 4]
FanInBinding == <<Bind("b", None), Bind("c", None),
                  Bind("d", "b"), [Bind("d", "c") EXCEPT !.port = "q"]>>
ChainBinding == <<Bind("a", None), Bind("b", "a")>>
SideBinding == ChainBinding \o <<Bind("c", None)>>
OnePort == [n \in Node |-> {"o"}]
SidePort == [n \in Node |-> IF n = "c" THEN {} ELSE {"o"}]
Required == [n \in Node |-> IF n \in {"b", "d"} THEN {} ELSE {"o"}]
NoKeyPort == [n \in Node |-> {}]
OneModule == [n \in Node |-> "m"]
NoFiring == [n \in Node |-> Unspecified]
MixedFiring ==
    [n \in Node |-> CASE n = "a" -> "ALWAYS" [] n = "b" -> "ONCE_PER_KEY" [] OTHER -> "ONCE"]
FanInFilter == {Node, {}}
AnyNode == {Node}
WorkerSymmetry == Permutations(Worker)
ArtifactSymmetry == Permutations(Artifact)
=============================================================================
