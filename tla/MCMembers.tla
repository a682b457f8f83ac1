------------------------------ MODULE MCMembers ------------------------------
(* A class, its parent, a trait, an interface and their files: every        *)
(* hierarchy of them, with the members that are told apart by visibility,  *)
(* static, final and constructor promotion.                                 *)
EXTENDS Members

Method(name, vis) == Member(name, "method", vis, FALSE, FALSE, "code")
StaticM(name, vis) == Member(name, "method", vis, TRUE, FALSE, "code")
FinalM(name, vis) == Member(name, "method", vis, FALSE, TRUE, "code")
Property(name, vis) == Member(name, "property", vis, FALSE, FALSE, "code")
StaticP(name, vis) == Member(name, "property", vis, TRUE, FALSE, "code")
Const(name, vis)  == Member(name, "constant", vis, FALSE, FALSE, "code")
Promoted(name, vis) == Member(name, "property", vis, FALSE, FALSE, "promoted")
Magic(name) == Member(name, "method", "public", FALSE, FALSE, "phpdoc")

Decl(kind, at, extends, implements, uses, members, calls) ==
    [kind |-> kind, at |-> at, extends |-> extends, implements |-> implements,
     uses |-> uses, members |-> members, calls |-> calls]

Opt(x) == {<<>>, <<x>>}
Calls == <<Call("run", "this", None, "m"), Call("run", "parent", None, "m"),
           Call("m", "var", "I", "m"), Call("run", "static", "T", "m"), Call("run", "static", "P", "m")>>
Run == Method("run", "public")

OfC == {{Run}, {Run, Method("m", "public")}, {Run, Method("m", "private"), StaticM("s", "public")}}
OfP == {{}, {Method("m", "public"), StaticP("s", "protected")},
        {Method("m", "protected"), Const("k", "public")},
        {Method("m", "private")}, {FinalM("m", "public"), Method("__construct", "public"), Promoted("p", "public")}}
OfT == {{}, {Method("m", "public"), Magic("q")}, {Property("p", "public"), StaticM("s", "protected"), Method("__construct", "public")}}

One(c, d) == [x \in {c} |-> d]

\* P and T share a file, in either order, or do not
Layouts(ce, ci) == IF ce = <<"P">> /\ ci = <<>> THEN {"apart", "first", "second"} ELSE {"apart"}
Project(layout, ce, ci, cu, pe, pi, pu, cm, pm, tm) ==
    LET C == One("C", Decl("class", 1, ce, ci, cu, cm, Calls))
        P == One("P", Decl("class", IF layout = "second" THEN 2 ELSE 1, pe, pi, pu, pm, <<>>))
        T == One("T", Decl("trait", IF layout = "first" THEN 2 ELSE 1, <<>>, <<>>, <<>>, tm, <<>>))
        I == One("I", Decl("interface", 1, <<>>, <<>>, <<>>, {Method("m", "public")}, <<>>))
        None0 == [x \in {} |-> 0]
    IN  [f \in Files |-> CASE f = "fc" -> C
                           [] f = "fp" -> IF layout = "apart" THEN P ELSE P @@ T
                           [] f = "ft" -> IF layout = "apart" THEN T ELSE None0
                           [] f = "fi" -> IF ci = <<"I">> \/ pi = <<"I">> THEN I ELSE None0]

\* The interface is there only where it is implemented; two classes of a file
\* only where C sees both and without it; with a cycle every class has its file
Still ==
    UNION {{Project(l, ce, ci, cu, <<>>, <<>>, pu, cm, pm, tm) :
        l \in Layouts(ce, ci), cu \in Opt("T"), pu \in Opt("T"),
        cm \in OfC, pm \in OfP, tm \in OfT} : ce \in Opt("P"), ci \in Opt("I")}
    \cup {Project("apart", ce, <<>>, cu, <<"C">>, <<>>, <<>>, cm, pm, tm) :
        ce \in Opt("P"), cu \in Opt("T"), cm \in OfC, pm \in OfP, tm \in OfT}

Moving ==
    {Project("first", <<"P">>, <<>>, <<"T">>, <<>>, <<>>, <<>>, {Run},
             {Method("m", "public"), StaticP("s", "protected")}, {Method("m", "public"), Magic("q")})}

MCProjects == Still \cup Moving
MCBudget == [p \in MCProjects |-> IF p \in Moving THEN 3 ELSE 0]
MCEdits ==
    [f \in Files |->
        LET P(m) == One("P", Decl("class", 1, <<>>, <<>>, <<"T">>, m, <<>>))
        IN  CASE f = "fc" -> {One("C", Decl("class", 1, <<>>, <<"I">>, <<>>, {Run, Method("m", "public")}, Calls))}
              [] f = "fp" -> {P({Method("m", "protected")})}
              [] OTHER    -> {}]
==============================================================================
