------------------------------ MODULE MCEditing ------------------------------
(* Texts put together from the lines below: every sequence of up to two      *)
(* blocks and of three common blocks, classes that stand in classes, and a    *)
(* text that goes through edits and requests.                                 *)
EXTENDS Editing

K(id)      == Token(id, "", 0)
Var(n)     == Token("var", n, 0)
Name(n)    == Token("name", n, 0)
Code(toks) == Line(3, "", toks, 1)
Rest(inner, toks) == Line(2, inner, toks, 0)

ClassLine  == <<Code(<<K("class"), Name("A"), K("{")>>)>>
TraitLine  == <<Code(<<K("trait"), Name("B"), K("{")>>)>>
PropLine   == <<Code(<<K("public"), K("static"), Var("x"), K(";")>>)>>
Method     == <<Code(<<K("public"), K("function"), Name("m"), K("("), Var("x"), K(")"), K("{")>>)>>
Promoting  == <<Code(<<K("public"), K("function"), Name("__construct"), K("("), K("public"), Var("x"), K(")"), K("{")>>)>>
Function   == <<Code(<<K("function"), Name("f"), K("("), Name("T"), Var("x"), K(")"), K("{")>>)>>
Close      == <<Code(<<K("}")>>)>>
Use        == <<Code(<<Var("x"), K("="), K("new"), Name("A"), K(";")>>)>>
Chain      == <<Code(<<Var("this"), K("->"), Name("x")>>), Code(<<K("->"), Name("m"), K("("), K(")"), K(";")>>)>>
Nest       == <<Code(<<Name("f"), K("("), Name("g"), K("(")>>), Code(<<Var("x"), K(","), K("num")>>), Code(<<K(")"), K(")"), K(";")>>)>>
Spread     == <<Code(<<Name("f"), K("("), Var("x"), K(","), K("[")>>), Code(<<K("]"), K(")"), K(";")>>)>>
Quoted     == <<Code(<<Var("x"), K("="), Token("string", "", 1)>>), Rest("s", <<K(";")>>)>>
Here       == <<Line(0, "", <<K("return"), Token("heredoc", "", 1)>>, 0), Rest("s", <<K(";")>>)>>
Doc        == <<Line(1, "", <<Token("deprecated", "", 1)>>, 0), Line(5, "*", <<>>, 0)>>
Switch     == <<Code(<<K("switch"), K("("), Var("x"), K(")"), K("{")>>), Code(<<K("case"), K("num"), K("colon"), Var("x"), K(";")>>)>>
Markup     == <<Line(2, "", <<K(";"), Token("html", "", 1)>>, 1), Line(3, "h", <<>>, 2)>>
Blank      == <<Line(2, "", <<>>, 0)>>
Closure    == <<Code(<<Var("y"), K("="), K("function"), K("("), Var("x"), K(")"), K("{")>>)>>
Interpolated == <<Code(<<K("return"), K("string"), K("curly"), Var("x"), K("}"), K("string"), K(";")>>)>>
Abstract   == <<Code(<<K("public"), K("function"), Name("n"), K("("), K(")"), K(";")>>)>>
EnumLine   == <<Code(<<K("enum"), Name("E"), K("{")>>)>>
Case       == <<Code(<<K("case"), Name("X"), K(";")>>)>>
Anonymous  == <<Code(<<Var("x"), K("="), K("new"), K("class"), K("{")>>)>>

Note       == <<Line(1, "", <<Token("comment", "class", 0)>>, 1)>>
Split      == <<Code(<<Var("x"), K("=")>>), Code(<<K("new"), Name("A")>>), Code(<<K("::"), Name("m"), K(";")>>)>>
DocMarkup  == <<Line(1, "", <<Token("comment", "", 1)>>, 0), Line(5, "*", <<Token("html", "", 1)>>, 1), Line(3, "h", <<>>, 2)>>

Blocks == {ClassLine, PropLine, Method, Promoting, Function, Close, Use, Chain, Nest, Spread,
           Quoted, Here, Doc, Switch, Markup, Blank, Closure, Interpolated}
Common  == {ClassLine, PropLine, Method, Promoting, Function, Close, Use, Nest, Quoted, Doc, Switch, Closure}
Some    == {<<a>> : a \in Blocks} \cup {<<a, b>> : a, b \in Blocks} \cup {<<a, b, c>> : a, b, c \in Common}
Nested2  == {<<c, d, Method, b, Close, e, Close>> :
               c \in {ClassLine, TraitLine}, d \in {PropLine, Doc}, b \in {Use, Chain, Quoted, Switch, Nest},
               e \in {PropLine, Promoting, Method}}
               \cup {<<ClassLine, Method, Use, Close, Close, Function, b, Close>> : b \in Blocks}
Declaring == {<<h, a, b, Close, Close>> :
                 h \in {ClassLine, EnumLine, Anonymous},
                 a \in {Abstract, EnumLine, Case, Anonymous, Method, Function},
                 b \in {Abstract, EnumLine, Case, Anonymous, Method, PropLine}}
\* Declarations behind what stands in the method of a class, named or not
Resumed == {<<ClassLine, Method, c, a, Close, Close, b, d, Close>> :
                 c \in {Anonymous, TraitLine, Closure}, a \in {PropLine, Abstract, Note},
                 b \in {PropLine, Note}, d \in {Abstract, Promoting, PropLine}}
               \cup {<<ClassLine, c, a, Close, b, Abstract, Close, Function>> :
                         c \in {Anonymous, EnumLine}, a \in {Abstract, PropLine, Case}, b \in {PropLine, TraitLine}}
Written == {<<a, b>> : a \in {Split, Note, DocMarkup}, b \in {Split, Here, Markup, Quoted}}
Served == {<<ClassLine, Method, Use, Close>>}

MCTyped   == {FlattenSeq(<<ClassLine, Close>>), FlattenSeq(<<Function, Doc, Use>>), <<EmptyLine>>}
MCTexts   == {FlattenSeq(s) : s \in Some \cup Nested2 \cup Declaring \cup Resumed \cup Written \cup Served}
MCTwoFunctions == {FlattenSeq(<<Function, Use, Close, Blank, Function, Use, Close>>)}
MCBudget  == [t \in MCTexts \cup MCTwoFunctions |-> IF t \in {FlattenSeq(s) : s \in Served} THEN 3 ELSE 0]
Client(spaces, size) == [spaces |-> spaces, size |-> size]
Server(style, size, trim, reindent, final) ==
    [style |-> style, size |-> size, trim |-> trim, reindent |-> reindent, final |-> final]
MCOptions == {Resolved(Server("client", 0, TRUE, TRUE, TRUE), Client(TRUE, 2)),
              Resolved(Server("tab", 0, FALSE, TRUE, TRUE), Client(TRUE, 4)),
              Resolved(Server("space", 4, TRUE, FALSE, FALSE), Client(FALSE, 2))}
==============================================================================
