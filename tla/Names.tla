------------------------------- MODULE Names -------------------------------
(***************************************************************************)
(* How the server reads the names of a PHP file, and what it writes into   *)
(* the file when a project symbol is chosen: lsp_server_symbols.c          *)
(* (namespaces, imports, the insertion point of a `use`, completion items  *)
(* of project symbols), the resolution of class names in                   *)
(* lsp_server_phpdoc.c, and the two import actions of                      *)
(* lsp_server_refactor.c.                                                  *)
(*                                                                         *)
(* A file is a sequence of statements.  What PHP's lexer and parser make   *)
(* of it (Tokens, Uses) stands outside of the server; the server reads     *)
(* imports from the parser's tree when the text parses and from the tokens *)
(* when it does not, which is the usual state of a text being edited.      *)
(*                                                                         *)
(* A name is a sequence of segments with separators between them, the      *)
(* empty sequence is no name.                                              *)
(***************************************************************************)
EXTENDS Naturals, Sequences, SequencesExt, FiniteSets, FiniteSetsExt, TLC

CONSTANTS
  Lower,        \* the lower-case form of every segment
  Symbols,      \* the project's symbols: [kind, fqcn]
  Namespaces,   \* the names of namespaces that a file declares
  WrittenUses,  \* the `use` statements a user writes by hand
  Declarations, \* the classes and functions a user writes
  MaxWritten,   \* bound: statements of a namespace
  MaxNamespaces, \* bound: namespaces of a file
  MaxRefs       \* bound: accepted references of a file

VARIABLE file

Sep == "\\"
Unnamed == <<>>

Folded(name) == [i \in DOMAIN name |-> Lower[name[i]]]
Rooted(name) == name # <<>> /\ name[1] = Sep
Unrooted(name) == IF Rooted(name) THEN Tail(name) ELSE name

Separators(name) == {i \in DOMAIN name : name[i] = Sep}
TerminalSegment(name) == IF Separators(name) = {} THEN name
                         ELSE SubSeq(name, Max(Separators(name)) + 1, Len(name))
NamespaceOf(name) == SubSeq(name, 1, Max(Separators(name)) - 1)

FirstSegment(name) == IF Separators(name) = {} THEN name
                      ELSE SubSeq(name, 1, Min(Separators(name)) - 1)
Suffix(name) == SubSeq(name, Len(FirstSegment(name)) + 1, Len(name))

-----------------------------------------------------------------------------
(* Statements, and what PHP's lexer makes of them.  An element of a `use`   *)
(* has a kind of its own only inside a group ("" otherwise); a group that   *)
(* is split has each element on a line of its own.                          *)

Elem(kind, name, alias) == [kind |-> kind, name |-> name, alias |-> alias]
UseStatement(kind, prefix, elems, split) ==
  [s |-> "use", kind |-> kind, prefix |-> prefix, elems |-> elems, split |-> split]
NamespaceStatement(name) == [s |-> "namespace", name |-> name]
Declaration(word, name, closure) ==
  [s |-> word, name |-> name, closure |-> closure, refs |-> <<>>]

IsDeclaration(st) == st.s \in {"class", "function"}

Char(c) == [t |-> c, n |-> <<>>]
NameToken(n) == [t |-> "name", n |-> n]
KindTokens(kind) == IF kind \in {"function", "const"} THEN <<Char(kind)>> ELSE <<>>

ElemTokens(e) == KindTokens(e.kind) \o <<NameToken(e.name)>>
                 \o IF e.alias = <<>> THEN <<>> ELSE <<Char("as"), NameToken(e.alias)>>

ElemsTokens(elems) ==
  FoldLeft(LAMBDA ts, e : (IF ts = <<>> THEN <<>> ELSE ts \o <<Char(",")>>) \o ElemTokens(e),
           <<>>, elems)

\* A closure that captures a variable: function () use ($v) { ... }
ClosureTokens == <<Char("function"), Char("("), Char(")"), Char("use"), Char("("),
                   Char("variable"), Char(")"), Char("{")>>

RefTokens(refs) ==
  FoldLeft(LAMBDA ts, r : ts \o <<NameToken(r.text), Char(";")>>, <<>>, refs)

StatementTokens(st) ==
  CASE st.s = "namespace" -> <<Char("namespace"), NameToken(st.name), Char(";")>>
    [] st.s = "use" -> <<Char("use")>> \o KindTokens(st.kind)
         \o (IF st.prefix = <<>> THEN ElemsTokens(st.elems)
             ELSE <<NameToken(st.prefix), NameToken(<<Sep>>), Char("{")>>
                  \o ElemsTokens(st.elems) \o <<Char("}")>>)
         \o <<Char(";")>>
    [] OTHER -> <<Char(st.s), NameToken(st.name), Char("{")>>
         \o (IF st.closure THEN ClosureTokens \o RefTokens(st.refs) \o <<Char("}")>>
             ELSE RefTokens(st.refs))
         \o <<Char("}")>>

Tokens(f) == FlattenSeq([i \in DOMAIN f |-> StatementTokens(f[i])])
OffsetOf(f, i) == Len(Tokens(SubSeq(f, 1, i - 1))) + 1
Uses(f) == SelectSeq(f, LAMBDA st : st.s = "use")

-----------------------------------------------------------------------------
(* Namespaces.                                                              *)

NamespaceFromTokens(tokens, start) ==
  LET ends == {i \in start..Len(tokens) : tokens[i].t \in {";", "{"}}
      last == IF ends = {} THEN Len(tokens) ELSE Min(ends) - 1
  IN  FoldLeft(LAMBDA n, tok : IF tok.t = "name" THEN n \o Unrooted(tok.n) ELSE n,
               <<>>, SubSeq(tokens, start, last))

NamespaceTokens(tokens) == {i \in DOMAIN tokens : tokens[i].t = "namespace"}

DocumentNamespace(tokens) ==
  LET all == NamespaceTokens(tokens)
  IN  IF all = {} THEN Unnamed ELSE NamespaceFromTokens(tokens, Min(all) + 1)

SeveralNamespaces(tokens) == Cardinality(NamespaceTokens(tokens)) > 1

NamespaceAtStart(tokens, offset) ==
  LET all == NamespaceTokens(tokens)
  IN  IF all = {} THEN Unnamed ELSE NamespaceFromTokens(tokens, Min(all) + 1)
NamespaceAt(tokens, offset) ==
  LET all == NamespaceTokens(tokens)
      before == {i \in all : i <= offset}
  IN  IF all = {} THEN Unnamed
      ELSE NamespaceFromTokens(tokens, (IF before = {} THEN Min(all) ELSE Max(before)) + 1)

\* Functions and constants fall back to the global namespace, classes do not.
InCurrentNamespaceGlobals(namespace, kind, fqcn) ==
  IF Separators(fqcn) = {} THEN TRUE ELSE Folded(namespace) = Folded(NamespaceOf(fqcn))

InCurrentNamespace(namespace, kind, fqcn) ==
  IF Separators(fqcn) = {} THEN kind \in {"function", "const"} \/ namespace = Unnamed
  ELSE Folded(namespace) = Folded(NamespaceOf(fqcn))

-----------------------------------------------------------------------------
(* Imports: which short name an imported symbol is bound to, which short    *)
(* names are taken, and what a short name stands for.                       *)

SetKey(kind, name) == <<kind, IF kind = "const" THEN name ELSE Folded(name)>>
AliasKey(kind, name) == <<kind, IF kind = "const" THEN name ELSE Folded(name)>>
ReverseKey(kind, name) == <<kind, Folded(name)>>

NoImports == [bound |-> <<>>, taken |-> {}, reverse |-> <<>>]

AddImport(imports, kind, full, alias) ==
  LET short == IF alias = <<>> THEN TerminalSegment(full) ELSE alias
  IN  [bound   |-> (SetKey(kind, full) :> short) @@ imports.bound,
       taken   |-> imports.taken \cup {AliasKey(kind, short)},
       reverse |-> (ReverseKey(kind, short) :> full) @@ imports.reverse]

ElemKind(u, e) == IF e.kind # "" THEN e.kind ELSE IF u.kind # "" THEN u.kind ELSE "class"
FullName(prefix, name) == IF prefix = <<>> THEN name ELSE prefix \o <<Sep>> \o name

UseStatementImports(imports, u) ==
  FoldLeft(LAMBDA is, e : AddImport(is, ElemKind(u, e), FullName(u.prefix, e.name), e.alias),
           imports, u.elems)

ImportsInTree(f) == FoldLeft(UseStatementImports, NoImports, Uses(f))

\* The group prefix of the tokens keeps its trailing separator.
CandidateTwoSeparators(imports, kind, prefix, name, alias) ==
  LET full == IF prefix = <<>> THEN name ELSE prefix \o <<Sep>> \o name
  IN  IF name = <<>> THEN imports ELSE AddImport(imports, kind, Unrooted(full), alias)

Candidate(imports, kind, prefix, name, alias) ==
  LET full == IF prefix = <<>> THEN name
              ELSE IF Last(prefix) = Sep THEN prefix \o name
              ELSE prefix \o <<Sep>> \o name
  IN  IF name = <<>> THEN imports ELSE AddImport(imports, kind, Unrooted(full), alias)

ScanStart == [imports |-> NoImports, done |-> FALSE, in_use |-> FALSE, in_group |-> FALSE,
              reading_alias |-> FALSE, kind |-> "class", prefix |-> <<>>, name |-> <<>>, alias |-> <<>>]

OutsideUse(s, tok) ==
  CASE tok.t = "class" -> [s EXCEPT !.done = TRUE]
    [] tok.t = "use" -> [ScanStart EXCEPT !.imports = s.imports, !.in_use = TRUE]
    [] OTHER -> s

CloseElem(s, prefix) == Candidate(s.imports, s.kind, prefix, s.name, s.alias)

InsideUse(s, tok) ==
  CASE tok.t \in {"function", "const"} -> [s EXCEPT !.kind = tok.t]
    [] tok.t = ";" -> [s EXCEPT !.imports = CloseElem(s, s.prefix), !.name = <<>>, !.in_use = FALSE]
    [] tok.t = "{" -> [s EXCEPT !.prefix = @ \o s.name, !.name = <<>>, !.in_group = TRUE,
                               !.alias = <<>>, !.reading_alias = FALSE]
    [] tok.t \in {",", "}"} ->
         [s EXCEPT !.imports = CloseElem(s, IF s.in_group THEN s.prefix ELSE <<>>), !.name = <<>>,
                   !.alias = <<>>, !.reading_alias = FALSE, !.in_group = @ /\ tok.t = ","]
    [] tok.t = "as" -> [s EXCEPT !.reading_alias = TRUE, !.alias = <<>>]
    [] tok.t = "name" /\ s.reading_alias -> [s EXCEPT !.alias = tok.n, !.reading_alias = FALSE]
    [] tok.t = "name" /\ ~s.reading_alias -> [s EXCEPT !.name = @ \o tok.n]
    [] OTHER -> s

ScanToken(s, tok) ==
  IF s.done THEN s ELSE IF s.in_use THEN InsideUse(s, tok) ELSE OutsideUse(s, tok)

ImportsInTokens(tokens) == FoldLeft(ScanToken, ScanStart, tokens).imports

CollectImports(f, parses) == IF parses THEN ImportsInTree(f) ELSE ImportsInTokens(Tokens(f))

HasImport(imports, kind, fqcn) == SetKey(kind, fqcn) \in DOMAIN imports.bound
BoundName(imports, kind, fqcn) ==
  IF HasImport(imports, kind, fqcn) THEN imports.bound[SetKey(kind, fqcn)] ELSE Unnamed

BindsShortName(imports, kind, fqcn) == AliasKey(kind, TerminalSegment(fqcn)) \in imports.taken

-----------------------------------------------------------------------------
(* Where a new `use` line goes, and the project symbol as a completion item.*)

Line(word, semicolon) == [word |-> word, semicolon |-> semicolon]

StatementLines(st) ==
  CASE st.s = "use" /\ st.split ->
         <<Line("use", FALSE)>> \o [i \in DOMAIN st.elems |-> Line("", FALSE)] \o <<Line("}", TRUE)>>
    [] st.s \in {"class", "function"} ->
         <<Line(st.s, FALSE)>> \o [i \in DOMAIN st.refs |-> Line("", TRUE)] \o <<Line("}", FALSE)>>
    [] OTHER -> <<Line(st.s, TRUE)>>

Lines(f) == <<Line("<?php", FALSE)>> \o FlattenSeq([i \in DOMAIN f |-> StatementLines(f[i])])

\* The lines that are scanned end at the first declaration.
Headed(lines) ==
  LET ends == {i \in DOMAIN lines : lines[i].word \in {"class", "function"}}
  IN  IF ends = {} THEN DOMAIN lines ELSE 1..(Min(ends) - 1)

UseLines(lines) == {i \in Headed(lines) : lines[i].word = "use" /\ lines[i].semicolon}

\* The number of lines before the new one.
ImportInsertOffset(lines) ==
  Max({0} \cup UseLines(lines) \cup {i \in Headed(lines) : lines[i].word \in {"<?php", "namespace"}})

SymbolItem(f, imports, kind, fqcn, prefix, in_use) ==
  LET bare == ~in_use /\ Separators(prefix) = {}
      foreign == bare /\ ~InCurrentNamespace(DocumentNamespace(Tokens(f)), kind, fqcn)
                      /\ ~HasImport(imports, kind, fqcn)
      qualify == foreign /\ BindsShortName(imports, kind, fqcn)
      bound == BoundName(imports, kind, fqcn)
      short == TerminalSegment(fqcn)
      label == IF bare /\ ~foreign /\ bound # Unnamed /\ Folded(bound) # Folded(short) THEN bound ELSE short
  IN  [needs_import |-> foreign /\ ~qualify,
       text |-> IF ~bare THEN (IF Rooted(prefix) THEN <<Sep>> \o fqcn ELSE fqcn)
                ELSE IF qualify THEN <<Sep>> \o fqcn
                ELSE label]

ImportText(kind, fqcn) ==
  UseStatement(IF kind = "class" THEN "" ELSE kind, <<>>, <<Elem("", fqcn, <<>>)>>, FALSE)

\* A text edit that adds a line, as the client applies it.
LinesBefore(f, i) == Len(Lines(SubSeq(f, 1, i)))
InsertLine(f, offset, st) ==
  LET i == CHOOSE i \in 0..Len(f) : LinesBefore(f, i) = offset
  IN  SubSeq(f, 1, i) \o <<st>> \o SubSeq(f, i + 1, Len(f))

WithImport(f, kind, fqcn) == InsertLine(f, ImportInsertOffset(Lines(f)), ImportText(kind, fqcn))

\* The quick fix "Import ...": not offered when the symbol or its short name is there.
ImportActionOffered(f, imports, kind, fqcn) ==
  /\ ~InCurrentNamespace(DocumentNamespace(Tokens(f)), kind, fqcn)
  /\ ~HasImport(imports, kind, fqcn)
  /\ ~BindsShortName(imports, kind, fqcn)

-----------------------------------------------------------------------------
(* Organize Imports: the `use` lines, sorted and each kept once, in the     *)
(* place of everything from the first of them to the last.                  *)

LineKey(st) == [st EXCEPT !.prefix = Folded(@),
                          !.elems = [i \in DOMAIN @ |-> Elem(@[i].kind, Folded(@[i].name), Folded(@[i].alias))]]

\* The order of the lines stands for that of their texts.
LineBefore(a, b, order) == order[LineKey(a)] < order[LineKey(b)]

SortedLineInsert(lines, st, order) ==
  IF \E i \in DOMAIN lines : LineKey(lines[i]) = LineKey(st) THEN lines
  ELSE LET after == {i \in DOMAIN lines : ~LineBefore(lines[i], st, order)}
           at == IF after = {} THEN Len(lines) + 1 ELSE Min(after)
       IN  InsertAt(lines, at, st)

\* Statements before the first declaration that are one `use` line each.
OrganizedStatements(f) ==
  {i \in DOMAIN f : /\ f[i].s = "use" /\ ~f[i].split
                    /\ \A j \in 1..i : ~IsDeclaration(f[j])}

Organized(f, order) ==
  LET at == OrganizedStatements(f)
      sorted == FoldLeft(LAMBDA ls, i : SortedLineInsert(ls, f[i], order), <<>>, SetToSortSeq(at, <))
  IN  IF at = {} THEN f
      ELSE SubSeq(f, 1, Min(at) - 1) \o sorted \o SubSeq(f, Max(at) + 1, Len(f))

-----------------------------------------------------------------------------
(* What a class name stands for at a place.                                 *)

ImportMatch(full, alias, base) ==
  LET short == IF alias = <<>> THEN TerminalSegment(full) ELSE alias
  IN  IF Folded(short) = Folded(FirstSegment(base)) THEN full \o Suffix(base) ELSE Unnamed

FirstNamed(names) == LET found == SelectSeq(names, LAMBDA n : n # Unnamed)
                     IN  IF found = <<>> THEN Unnamed ELSE Head(found)

ResolvedInUse(u, base) ==
  FirstNamed([i \in DOMAIN u.elems |->
    LET e == u.elems[i] IN IF ElemKind(u, e) = "class"
                           THEN ImportMatch(FullName(u.prefix, e.name), e.alias, base) ELSE Unnamed])

ResolvedInTree(f, base) == FirstNamed([i \in DOMAIN Uses(f) |-> ResolvedInUse(Uses(f)[i], base)])

ResolveCandidate(s, base) ==
  LET joint == IF Last(s.prefix) # Sep /\ ~Rooted(s.name) THEN <<Sep>> ELSE <<>>
      full == IF s.in_group /\ s.prefix # <<>> THEN s.prefix \o joint \o s.name ELSE s.name
  IN  IF s.name = <<>> \/ Unrooted(full) = <<>> THEN Unnamed ELSE ImportMatch(Unrooted(full), s.alias, base)

ResolveStart == [done |-> FALSE, resolved |-> Unnamed, in_group |-> FALSE, reading_alias |-> FALSE,
                 prefix |-> <<>>, name |-> <<>>, alias |-> <<>>]

ResolveToken(s, tok, base) ==
  LET found == ResolveCandidate(s, base) IN
  CASE s.done -> s
    [] tok.t = ";" -> [s EXCEPT !.resolved = found, !.done = TRUE]
    [] tok.t = "{" -> [s EXCEPT !.prefix = @ \o s.name, !.name = <<>>, !.in_group = TRUE,
                               !.alias = <<>>, !.reading_alias = FALSE]
    [] tok.t \in {",", "}"} /\ found # Unnamed -> [s EXCEPT !.resolved = found, !.done = TRUE]
    [] tok.t \in {",", "}"} -> [s EXCEPT !.name = <<>>, !.alias = <<>>, !.reading_alias = FALSE,
                                        !.in_group = @ /\ tok.t = ","]
    [] tok.t = "as" -> [s EXCEPT !.reading_alias = TRUE, !.alias = <<>>]
    [] tok.t = "name" /\ s.reading_alias -> [s EXCEPT !.alias = tok.n, !.reading_alias = FALSE]
    [] tok.t = "name" -> [s EXCEPT !.name = @ \o tok.n]
    [] OTHER -> s

ResolvedInUseTokens(tokens, start, base) ==
  LET end == Min({Len(tokens)} \cup {i \in start..Len(tokens) : tokens[i].t = ";"})
  IN  FoldLeft(LAMBDA s, tok : ResolveToken(s, tok, base), ResolveStart,
               SubSeq(tokens, start, end)).resolved

\* Function and constant imports are passed over; a class ends the search.
ResolvedInTokens(tokens, base) ==
  LET starts == {i \in DOMAIN tokens : /\ tokens[i].t = "use" /\ i < Len(tokens)
                                       /\ tokens[i + 1].t \notin {"function", "const"}
                                       /\ \A j \in 1..i : tokens[j].t # "class"}
      order == SetToSortSeq(starts, <)
  IN  FirstNamed([k \in DOMAIN order |-> ResolvedInUseTokens(tokens, order[k] + 1, base)])

ResolvedImport(f, parses, base) ==
  LET tree == IF parses THEN ResolvedInTree(f, base) ELSE Unnamed
  IN  IF tree # Unnamed THEN tree ELSE ResolvedInTokens(Tokens(f), base)

InNamespace(namespace, base) == IF namespace = Unnamed THEN base ELSE namespace \o <<Sep>> \o base

ResolveClassName(f, parses, type) ==
  LET found == ResolvedImport(f, parses, type)
  IN  IF Rooted(type) THEN Unrooted(type)
      ELSE IF found # Unnamed THEN found
      ELSE InNamespace(DocumentNamespace(Tokens(f)), type)

ResolveClassNameAt(f, parses, type, offset) ==
  LET found == ResolvedImport(f, parses, type)
      tokens == Tokens(f)
  IN  IF ~SeveralNamespaces(tokens) THEN ResolveClassName(f, parses, type)
      ELSE IF Rooted(type) THEN Unrooted(type)
      ELSE IF found # Unnamed THEN found
      ELSE InNamespace(NamespaceAt(tokens, offset), type)

-----------------------------------------------------------------------------
(* What PHP itself makes of a name at statement i of the file.              *)

BlockStart(f, i) == Max({0} \cup {j \in 1..i : f[j].s = "namespace"})
PhpNamespace(f, i) == IF BlockStart(f, i) = 0 THEN Unnamed ELSE f[BlockStart(f, i)].name

PhpImports(f, i) ==
  UNION {{[kind |-> ElemKind(f[j], f[j].elems[k]), full |-> FullName(f[j].prefix, f[j].elems[k].name),
           short |-> IF f[j].elems[k].alias # <<>> THEN f[j].elems[k].alias
                     ELSE TerminalSegment(f[j].elems[k].name), at |-> <<j, k>>]
          : k \in DOMAIN f[j].elems}
         : j \in {j \in BlockStart(f, i)..i : j > 0 /\ f[j].s = "use"}}

PhpImported(f, i, kind, short) ==
  {m \in PhpImports(f, i) : m.kind = kind /\ AliasKey(kind, m.short) = AliasKey(kind, short)}

PhpMeaning(f, i, kind, text) ==
  LET first == PhpImported(f, i, IF Separators(text) = {} THEN kind ELSE "class", FirstSegment(text))
      own == InNamespace(PhpNamespace(f, i), text)
      known == \E y \in Symbols : y.kind = kind /\ SetKey(kind, y.fqcn) = SetKey(kind, own)
  IN  IF Rooted(text) THEN Unrooted(text)
      ELSE IF first # {} THEN (CHOOSE m \in first : TRUE).full \o Suffix(text)
      ELSE IF kind = "class" \/ Separators(text) # {} \/ known THEN own
      ELSE text

\* No short name of a kind is imported twice in one namespace.
PhpAccepts(f) ==
  \A i \in DOMAIN f : \A m \in PhpImports(f, i) : PhpImported(f, i, m.kind, m.short) = {m}

-----------------------------------------------------------------------------
(* A user writes a file, accepts completions and import actions, and has    *)
(* the imports organized.  A reference keeps, beside its text, the symbol   *)
(* that was chosen for it.                                                  *)

Init == file = <<>>

Places == {i \in DOMAIN file : IsDeclaration(file[i])}

\* The namespace that is being written: its statements, and its declarations.
LastBlock == {i \in DOMAIN file : i >= BlockStart(file, Len(file))}
PlacesThere == Places \cap LastBlock
MayWrite == Cardinality(LastBlock) < MaxWritten

WriteNamespace(name) ==
  /\ Cardinality({i \in DOMAIN file : file[i].s = "namespace"}) < MaxNamespaces
  /\ \A i \in Places : file[i].refs = <<>>
  /\ file # <<>> => (file[1].s = "namespace" /\ IsDeclaration(Last(file)))
  /\ file' = Append(file, NamespaceStatement(name))

\* Imports are written above the declarations of their namespace.
WriteUse(u) ==
  /\ MayWrite
  /\ PlacesThere = {}
  /\ PhpAccepts(Append(file, u))
  /\ file' = Append(file, u)

WriteDeclaration(d) ==
  /\ MayWrite
  /\ \A i \in PlacesThere : file[i].name # d.name
  /\ file' = Append(file, d)

RefCount == FoldLeft(LAMBDA n, st : IF IsDeclaration(st) THEN n + Len(st.refs) ELSE n, 0, file)
\* Nothing is accepted in a file with several namespaces: the items are made for
\* the first of them wherever the cursor is.
OneNamespace == ~SeveralNamespaces(Tokens(file))

Reference(f, i, kind, text, fqcn) ==
  [f EXCEPT ![i].refs = Append(@, [kind |-> kind, text |-> text, means |-> fqcn])]

AcceptItem(i, y, prefix, parses) ==
  LET item == SymbolItem(file, CollectImports(file, parses), y.kind, y.fqcn, prefix, FALSE)
      written == Reference(file, i, y.kind, item.text, y.fqcn)
  IN  /\ i \in Places /\ RefCount < MaxRefs
      /\ OneNamespace
      /\ file' = IF item.needs_import THEN WithImport(written, y.kind, y.fqcn) ELSE written

\* A completion inside of a `use` statement that is being written.
AcceptInUse(y, parses) ==
  LET item == SymbolItem(file, CollectImports(file, parses), y.kind, y.fqcn, <<>>, TRUE)
      u == [ImportText(y.kind, y.fqcn) EXCEPT !.elems[1].name = item.text]
  IN  WriteUse(u)

\* A bare name was written first, then its import is asked for.
AcceptImportAction(i, y, parses) ==
  /\ i \in Places /\ RefCount < MaxRefs
  /\ OneNamespace
  /\ ImportActionOffered(file, CollectImports(file, parses), y.kind, y.fqcn)
  /\ file' = WithImport(Reference(file, i, y.kind, TerminalSegment(y.fqcn), y.fqcn), y.kind, y.fqcn)

LineOrder == LET keys == {LineKey(file[i]) : i \in {i \in DOMAIN file : file[i].s = "use"}}
                 listed == SetToSeq(keys)
             IN  [k \in keys |-> CHOOSE n \in DOMAIN listed : listed[n] = k]

OrganizeImports ==
  /\ Organized(file, LineOrder) # file
  /\ file' = Organized(file, LineOrder)

TypedPrefixes == {<<>>, <<Sep>>}

Next ==
  \/ \E n \in Namespaces : WriteNamespace(n)
  \/ \E u \in WrittenUses : WriteUse(u)
  \/ \E d \in Declarations : WriteDeclaration(d)
  \/ \E i \in Places, y \in Symbols, prefix \in TypedPrefixes, parses \in BOOLEAN :
       AcceptItem(i, y, prefix, parses)
  \/ \E y \in Symbols, parses \in BOOLEAN : AcceptInUse(y, parses)
  \/ \E i \in Places, y \in Symbols, parses \in BOOLEAN : AcceptImportAction(i, y, parses)
  \/ OrganizeImports

Spec == Init /\ [][Next]_file

-----------------------------------------------------------------------------

\* Two shapes the token collector misreads: the body of a closure that captures
\* variables, and a group where an element with a kind of its own comes first.
Misread(st) ==
  IF st.s = "use" THEN \E j, k \in DOMAIN st.elems : j < k /\ st.elems[j].kind # "" /\ st.elems[k].kind = ""
  ELSE IsDeclaration(st) /\ st.closure

Plain == \A i \in DOMAIN file : ~Misread(file[i])

\* The tokens are read up to the first class.
BehindClass(i) == \E j \in 1..(i - 1) : file[j].s = "class"

(* The fall-back that reads imports from the tokens of a text that does not *)
(* parse finds what the parser's tree would give, so that a completion in   *)
(* the middle of an edit is the one of the finished text, unless there are  *)
(* imports behind a class, as in a later namespace                          *)
(* (lsp_document_collect_imports_from_tokens).                              *)
CollectorsAgree ==
  Plain /\ (\A i \in DOMAIN file : file[i].s = "use" => ~BehindClass(i)) =>
    ImportsInTokens(Tokens(file)) = ImportsInTree(file)

\* Classes are looked for among the functions and constants of a group.
PlainGroups == \A i \in DOMAIN file : file[i].s = "use" =>
                 \A k \in DOMAIN file[i].elems : file[i].elems[k].kind = ""

\* Imports are looked for in the whole file ("an accepted approximation"), or
\* in the tokens up to the first class: one of another namespace is taken here,
\* and one of this namespace may be missed.
Approximated(i, parses, type) ==
  \E m \in UNION {PhpImports(file, j) : j \in DOMAIN file} :
    /\ m.kind = "class"
    /\ AliasKey("class", m.short) = AliasKey("class", FirstSegment(type))
    /\ \/ BlockStart(file, m.at[1]) # BlockStart(file, i)
       \/ ~parses /\ BehindClass(m.at[1])

(* A class name in a declaration stands for the class PHP takes it for,     *)
(* through imports, aliases, groups, names with several segments and the    *)
(* namespace of the place, which need not be the first of the file; the     *)
(* names that an import of another namespace binds are excepted             *)
(* (lsp_resolve_class_name_at).                                             *)
ResolvesLikePhp ==
  Plain /\ PlainGroups =>
    \A i \in Places, parses \in BOOLEAN :
      \A type \in UNION {{TerminalSegment(y.fqcn), y.fqcn, <<Sep>> \o y.fqcn} :
                           y \in {s \in Symbols : s.kind = "class"}} :
        \/ ResolveClassNameAt(file, parses, type, OffsetOf(file, i)) = PhpMeaning(file, i, "class", type)
        \/ Approximated(i, parses, type)

\* A symbol that needs no import here, whose short name an import has taken.
Overshadowed(i, r) ==
  /\ InCurrentNamespace(PhpNamespace(file, i), r.kind, r.means)
  /\ PhpImported(file, i, r.kind, TerminalSegment(r.means)) # {}

(* A reference that was written by accepting a completion or an import      *)
(* action means the symbol that was chosen, now and after every later one   *)
(* and after the imports were organized; and no short name is imported      *)
(* twice, for which PHP would refuse the file                               *)
(* (lsp_add_project_symbol_completion_item).                                *)
AcceptedStays ==
  Plain =>
    /\ PhpAccepts(file)
    /\ \A i \in Places : \A k \in DOMAIN file[i].refs :
         LET r == file[i].refs[k]
         IN  PhpMeaning(file, i, r.kind, r.text) = r.means \/ Overshadowed(i, r)
=============================================================================
