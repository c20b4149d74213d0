----------------------------- MODULE MCAssembly -----------------------------
(***************************************************************************)
(* Instances of Assembly for TLC: three nodes of three modules, every      *)
(* subset of eleven bindings (among them self-loops, a two- and a three-   *)
(* node cycle, an unknown port, a trait mismatch and a binding with two    *)
(* sources), every kind of selection, and a few requests that are special  *)
(* in another way.                                                         *)
(***************************************************************************)
EXTENDS AssemblyProperties

Name(s) == IF s = "" THEN Empty ELSE <<s>>
MapNames(ids) == [k \in DOMAIN ids |-> Name(ids[k])]
P(name, traits, optional, multiple) ==
    [name |-> Name(name), traits |-> traits, optional |-> optional, multiple |-> multiple]
Cap(ins, outs) == [inputs |-> ins, outputs |-> outs]

Head1 == Cap(<<P("in", {"t"}, FALSE, FALSE)>>, <<P("o", {"t"}, FALSE, FALSE)>>)
Middle == Cap(<<P("in", {"t"}, FALSE, TRUE)>>,
              <<P("o", {"t"}, FALSE, TRUE), P("x", {"t", "u"}, TRUE, FALSE)>>)
Last1 == Cap(<<P("in", {"t", "u"}, FALSE, FALSE), P("aux", {"t"}, TRUE, FALSE)>>,
             <<P("o", {"t"}, FALSE, FALSE)>>)
Untyped == Cap(<< >>, <<P("o", {}, FALSE, FALSE)>>)
Modules == [head |-> <<Head1>>, middle |-> <<Middle>>, last |-> <<Last1>>,
            twice |-> <<Head1, Head1>>, untyped |-> <<Untyped>>, nothing |-> << >>]

N(id, module) == [id |-> Name(id), module |-> module]
Link(from, fromPort, to, toPort) ==
    [from |-> Name(from), fromPort |-> Name(fromPort), input |-> Empty, to |-> Name(to),
     toPort |-> Name(toPort)]
Feed(to) == [Link("", "", to, "in") EXCEPT !.input = Name("i")]

Links == {Feed("a"), Feed("b"), Link("a", "o", "b", "in"), Link("b", "o", "a", "in"),
          Link("b", "o", "b", "in"), Link("b", "x", "c", "in"), Link("a", "o", "c", "in"),
          Link("b", "y", "c", "in"), Link("a", "o", "c", "aux"), Link("c", "o", "a", "in"),
          [Feed("b") EXCEPT !.from = Name("a")]}
Good == {Feed("a"), Link("a", "o", "b", "in"), Link("b", "x", "c", "in")}

Asm(id, nodes, links, node, port) ==
    [id |-> Name(id), nodes |-> nodes, bindings |-> FoldSet(LAMBDA b, s : Append(s, b), << >>, links),
     terminal |-> [node |-> Name(node), port |-> Name(port)]]
Three == <<N("a", "head"), N("b", "middle"), N("c", "last")>>

NoPlan == [kind |-> "NONE", ids |-> << >>, selective |-> FALSE]
Plan(kind, ids) == [kind |-> kind, ids |-> MapNames(ids), selective |-> kind # "ALL"]
Inputs(bag) == [name \in {Name("i")} |-> bag]
Req(a, include, bag) ==
    [assembly |-> a, include |-> MapNames(include), plan |-> NoPlan, inputs |-> Inputs(bag)]
Planned(links, plan, ins) ==
    [assembly |-> Asm("x", Three, links, "c", "o"), include |-> << >>, plan |-> plan, inputs |-> ins]

Wired == {Req(Asm("x", Three, links, "c", "o"), include, bag) :
            links \in SUBSET Links,
            include \in {<< >>, <<"b", "c">>, <<"c", "b", "a">>},
            bag \in {{"t"}, {"u"}}}
Special == {Req(Asm("x", Three, Good, "c", "o"), include, {"t"}) :
            include \in {<<"a", "b">>, <<"a", "a", "b", "c">>, <<"a", "b", "c", "d">>}}
        \cup {Req(Asm("", Three, Good, "c", "o"), << >>, {"t"}),
              Req(Asm("x", << >>, {}, "c", "o"), << >>, {"t"}),
              Req(Asm("x", Three, Good, "d", "o"), << >>, {"t"}),
              Req(Asm("x", Three, Good, "c", "z"), << >>, {"t"}),
              Req(Asm("x", Three, Good, "b", "o"), << >>, {"t"}),
              Req(Asm("x", Three, Good, "b", "x"), << >>, {"t"}),
              Req(Asm("x", SubSeq(Three, 1, 2), Good \ {Link("b", "x", "c", "in")}, "b", "x"),
                  << >>, {"t"}),
              Req(Asm("x", Three \o <<N("a", "head")>>, Good, "c", "o"), << >>, {"t"}),
              Req(Asm("x", <<N("", "head")>>, {Feed("")}, "", "o"), << >>, {"t"})}
        \cup {Req(Asm("x", <<N("a", module)>>, {Feed("a")}, "a", "o"), << >>, {"t"}) :
                module \in DOMAIN Modules}
\* Four nodes: two ways from a to c, and from b to c.
Four == <<N("a", "head"), N("b", "middle"), N("d", "head"), N("c", "last")>>
Forked(from) == Asm("x", Four, Good \cup {Link(from, "o", "d", "in"), Link("d", "o", "c", "aux")},
                    "c", "o")
Fixture == Inputs({"t"}) @@ (SeedInputName(Name("a"), Name("o")) :> {"t"})
Pipelines == {Planned(links, plan, ins) :
                links \in {Good, Good \cup {Link("a", "o", "c", "aux")}, Links},
                ins \in {Inputs({"t"}), Fixture},
                plan \in {Plan("ALL", << >>), Plan("ONLY", <<"c", "b">>), Plan("ONLY", << >>),
                         Plan("ONLY", <<"b", "b", "c">>), Plan("ONLY", <<"a", "b">>),
                         Plan("AFTER", <<"a">>), Plan("AFTER", <<"c">>), Plan("AFTER", <<"d">>),
                         Plan("FROM", <<"b">>), Plan("FROM", <<"a">>),
                         [Plan("ALL", << >>) EXCEPT !.selective = TRUE]}}
Forks == {[r EXCEPT !.assembly = Forked(from), !.plan = plan] :
                r \in Pipelines, from \in {"a", "b"}, plan \in {Plan("ALL", << >>), Plan("AFTER", <<"a">>)}}
Requests == Wired \cup Special \cup Pipelines \cup Forks
Twice == {Planned(Good \cup {Link("a", "o", "c", "aux")}, Plan("ALL", << >>), Inputs({"t"}))}
Bags == {{"t"}, {"u"}, {"t", "u"}}
=============================================================================
