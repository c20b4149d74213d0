------------------------------- MODULE MCHost -------------------------------
(***************************************************************************)
(* Instances of Host for TLC: b and c, of two modules, read the run input. *)
(***************************************************************************)
EXTENDS HostProperties, TLC

CONSTANTS x, y

Bind(to) ==
    [to |-> to, port |-> "p", from |-> None, fromPort |-> None, input |-> "i"]

PairBinding == <<Bind("b"), Bind("c")>>
NodeRank == [n \in Node |-> IF n = "b" THEN 1 ELSE 2]
OnePort == [n \in Node |-> {"o"}]
NoKeyPort == [n \in Node |-> {}]
OwnModule == [n \in Node |-> IF n = "b" THEN "mb" ELSE "mc"]
NoFiring == [n \in Node |-> Unspecified]
OwnCapability == [n \in Node |-> IF n = "b" THEN "kb" ELSE "kc"]
AnyNode == {Node}
OnlyC == {{"c"}}

\* The new build and the old one differ on every input; both look at the first artifact.
Computed(d, cap, ins) == "o" :> IF (d = "new") = (ins["p"][1] = x) THEN y ELSE x
Entry(d, n) == [digest |-> d, node |-> n, inputs |-> "p" :> <<x>>]
SomeEntries == {Entry("old", "b"), Entry("new", "b"), Entry("old", "c")}

PerRun == [mode |-> "PER_RUN", log |-> FALSE, drop |-> TRUE, write |-> "UPSERT",
           memo |-> {"c"}, batch |-> 2, serial |-> FALSE, claims |-> None]
SomePolicies ==
    {PerRun,
     [PerRun EXCEPT !.mode = "SHARED", !.log = TRUE, !.write = "REPLACE",
                    !.memo = {"b"}, !.serial = TRUE],
     [PerRun EXCEPT !.mode = "OFF", !.memo = {}, !.claims = {"mx"}]}
SomePlugins == {{"mb", "mc"}, {}}
BothPlugins == {{"mb", "mc"}}
OnePolicy == {PerRun}

\* A port with two bindings, and an entry for other artifacts on it.
FanInBinding == <<Bind("c"), [Bind("c") EXCEPT !.input = "j"]>>
FanInEntry == {[digest |-> "new", node |-> "c", inputs |-> "p" :> <<y, x>>]}
=============================================================================
