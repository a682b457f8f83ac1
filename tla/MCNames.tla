------------------------------ MODULE MCNames ------------------------------
(* A small project for the names of a file: class X in two namespaces, a    *)
(* class and functions of the file's own namespace, a global class.        *)
EXTENDS Names

N(segments) == FoldLeft(LAMBDA n, s : IF n = <<>> THEN <<s>> ELSE n \o <<Sep, s>>, <<>>, segments)

MCLower == [s \in {"A", "B", "D", "X", "Y", "Z", "G", "K", "f", "g", "C", "c", Sep} |->
              IF s = "C" THEN "c" ELSE s]

MCSymbols == {[kind |-> "class", fqcn |-> N(<<"B", "X">>)], [kind |-> "class", fqcn |-> N(<<"D", "X">>)],
              [kind |-> "class", fqcn |-> N(<<"A", "Y">>)], [kind |-> "class", fqcn |-> N(<<"G">>)],
              [kind |-> "function", fqcn |-> N(<<"B", "f">>)], [kind |-> "function", fqcn |-> N(<<"g">>)],
              [kind |-> "const", fqcn |-> N(<<"B", "C">>)]}

MCNamespaces == {N(<<"A">>), N(<<"B", "D">>)}

One(kind, name, alias) == UseStatement(kind, <<>>, <<Elem("", N(name), alias)>>, FALSE)

MCWrittenUses ==
  {One("", <<"B", "X">>, <<"Z">>), One("", <<"B">>, <<"D">>),
   UseStatement("", <<>>, <<Elem("", N(<<"D", "X">>), <<"Y">>), Elem("", N(<<"B", "X">>), <<>>)>>, FALSE),
   UseStatement("", N(<<"B">>), <<Elem("", N(<<"X">>), <<>>), Elem("function", N(<<"f">>), <<"g">>)>>, TRUE),
   UseStatement("", N(<<"D">>), <<Elem("function", N(<<"f">>), <<>>), Elem("", N(<<"X">>), <<"Y">>)>>, FALSE)}

MCDeclarations == {Declaration("class", N(<<"K">>), FALSE), Declaration("function", N(<<"g">>), FALSE),
                   Declaration("function", N(<<"c">>), TRUE)}

\* A file that is misread stays so, and the properties say nothing of it: it is
\* not followed any further.
Followed == Plain

\* Organize Imports is asked for only where nothing else stands between the
\* lines that it sorts: it would delete it.
NothingBetween ==
  LET at == OrganizedStatements(file)
  IN  file' = Organized(file, LineOrder) /\ at # {} => Min(at)..Max(at) = at
=============================================================================
