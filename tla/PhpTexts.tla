------------------------------ MODULE PhpTexts ------------------------------
(***************************************************************************)
(* Texts as the features that read tokens see them: lines with blanks in    *)
(* front and behind, and the tokens that begin on them.  A token is one     *)
(* column wide (columns are counted in UTF-16 units, whatever the bytes)    *)
(* and may run over the next lines; what it leaves at the start of such a   *)
(* line is the line's inner text.  Braces are found in the text itself:     *)
(* inside strings only those of an interpolation ("curly" opens one) are    *)
(* written, inside comments none.                                           *)
(***************************************************************************)
EXTENDS Integers, FiniteSets, Sequences, SequencesExt, FiniteSetsExt

Token(id, name, more) == [id |-> id, name |-> name, more |-> more]
Line(lead, inner, toks, trail) ==
    [lead |-> lead, inner |-> inner, toks |-> toks, trail |-> trail]
EmptyLine == Line(0, "", <<>>, 0)
IsBlank(l) == l.inner = "" /\ l.toks = <<>>

\* A text as the tokenizer takes it apart: a token that runs over lines is the
\* last of its line, none begins on the lines between, and it ends in the text
Toks == [id : STRING, name : STRING, more : Nat]
IsLine(l) ==
    /\ l = Line(l.lead, l.inner, l.toks, l.trail)
    /\ l.lead \in Nat /\ l.toks \in Seq(Toks)
IsText(t) ==
    /\ t /= <<>> /\ t \in Seq(Range(t))
    /\ \A i \in DOMAIN t :
          /\ IsLine(t[i])
          /\ \A k \in DOMAIN t[i].toks : t[i].toks[k].more > 0 =>
                /\ k = Len(t[i].toks)
                /\ i + t[i].toks[k].more <= Len(t)
                /\ \A l \in i + 1..i + t[i].toks[k].more - 1 : t[l].toks = <<>>

\* The tokens of a text with their places
Tokens(t) ==
    FlattenSeq([i \in DOMAIN t |->
        [k \in DOMAIN t[i].toks |->
            [id |-> t[i].toks[k].id, name |-> t[i].toks[k].name,
             more |-> t[i].toks[k].more, line |-> i,
             col |-> t[i].lead + (IF t[i].inner = "" THEN 0 ELSE 1) + k - 1]]])

Openers   == {"(", "[", "{", "curly"}
Braces    == {"{", "curly"}
Closers   == {")", "]", "}"}
Comments  == {"comment", "doc", "deprecated"}
ClassLike == {"class", "interface", "trait", "enum"}
\* What holds words that are no tokens: the first of them is its name
Quoting   == Comments \cup {"string", "heredoc", "html"}

First(T, S) == IF S = {} THEN Len(T) + 1 ELSE Min(S)

\* lsp_brace_depth_at: the depth before each token; a stray closer is ignored
Depths(T) ==
    LET d[i \in 1..Len(T)] ==
            IF i = 1 THEN 0
            ELSE CASE T[i - 1].id \in Braces -> d[i - 1] + 1
                   [] T[i - 1].id = "}" /\ d[i - 1] > 0 -> d[i - 1] - 1
                   [] OTHER -> d[i - 1]
    IN  d

Count(T, a, b, ids) == Cardinality({j \in a..b : T[j].id \in ids})

\* lsp_find_matching_brace and lsp_find_matching_close_paren: past the end if
\* there is none
MatchingClose(T, p, openers, closer) ==
    First(T, {j \in p..Len(T) : T[j].id = closer
                                /\ Count(T, p, j, openers) = Count(T, p, j, {closer})})
ClosingBrace(T, p) == MatchingClose(T, p, Braces, "}")

\* lsp_find_enclosing_class_header: the brace of the last class whose body
\* holds the token, 0 if there is none.  The keyword is searched in the text: a
\* comment or a string that holds the word counts
EnclosingClass(T, i) ==
    LET Brace(k) == First(T, {j \in k..Len(T) : T[j].id = "{"})
        Reads(k) == T[k].id \in ClassLike \/ (T[k].id \in Quoting /\ T[k].name \in ClassLike)
        found == {k \in 1..i - 1 : /\ Reads(k)
                                   /\ Brace(k) < i
                                   /\ i <= ClosingBrace(T, Brace(k))}
    IN  IF found = {} THEN 0 ELSE Brace(Max(found))

\* The tokens before i that stand where the body of the class stands
BodyTokens(T, i, class) ==
    {j \in 1..i - 1 : Depths(T)[j] = Depths(T)[class] + 1}
LastOf(T, J, ids) == Max({j \in J : T[j].id \in ids} \cup {0})
Ends == {";", "{", "}"}

\* lsp_token_is_property_declaration
IsPropertyDeclaration(T, i, class) ==
    LET J == BodyTokens(T, i, class)
        s == LastOf(T, J, Ends \cup {"("})
    IN  (s = 0 \/ T[s].id /= "(") /\ \E j \in J : j > s /\ T[j].id = "public"

\* lsp_token_is_promoted_property: with a visibility, in the parameters of
\* the constructor
IsPromoted(T, i, class) ==
    LET J == BodyTokens(T, i, class)
        v == LastOf(T, J, Ends \cup {",", "(", "public"})
        q == LastOf(T, J, Ends \cup {"("})
        before == {j \in J : j < q}
        s == LastOf(T, before, Ends)
        n == LastOf(T, before, {"name"})
    IN  /\ v > 0 /\ T[v].id = "public"
        /\ q > 0 /\ T[q].id = "("
        /\ n > s /\ T[n].name = "__construct"
        /\ \E j \in before : s < j /\ j < n /\ T[j].id = "function"

DeclaresProperty(T, i) ==
    LET class == EnclosingClass(T, i)
    IN  class > 0 /\ (IsPropertyDeclaration(T, i, class) \/ IsPromoted(T, i, class))

NoScope == [open |-> 0, close |-> 0, body |-> 0, end |-> 0]
FunctionScopeOutermost(T, i) ==
    LET From(k, ids) == First(T, {j \in k..Len(T) : T[j].id \in ids})
        Scope(k) ==
            LET p == From(k, {"("})
                c == MatchingClose(T, p, {"("}, ")")
                b == From(c + 1, {"{", ";"})
            IN  [open |-> p, close |-> c, body |-> b, end |-> ClosingBrace(T, b)]
        found == {k \in 1..i - 1 : T[k].id = "function" /\ Scope(k).body < i /\ i <= Scope(k).end}
    IN  IF found = {} THEN NoScope ELSE Scope(Min(found))

\* lsp_find_function_scope_at: the innermost function whose body holds the
\* token; arrow functions are none
FunctionScope(T, i) ==
    LET From(k, ids) == First(T, {j \in k..Len(T) : T[j].id \in ids})
        Scope(k) ==
            LET p == From(k, {"(", "{", ";"})
                c == MatchingClose(T, p, {"("}, ")")
                b == From(c + 1, {"{", ";"})
            IN  [open |-> p, close |-> c, body |-> b, end |-> ClosingBrace(T, b)]
        Holds(k) ==
            LET p == From(k, {"(", "{", ";"})
                c == MatchingClose(T, p, {"("}, ")")
                b == From(c + 1, {"{", ";"})
            IN  /\ p <= Len(T) /\ T[p].id = "("
                /\ c <= Len(T)
                /\ b < i /\ T[b].id = "{"
                /\ i <= ClosingBrace(T, b)
        found == {k \in 1..i - 1 : T[k].id = "function" /\ Holds(k)}
    IN  IF found = {} THEN NoScope ELSE Scope(Max(found))

PreviousId(T, i) ==
    LET J == {j \in 1..i - 1 : T[j].id \notin Comments}
    IN  IF J = {} THEN "none" ELSE T[Max(J)].id

\* lsp_refactor_add_scoped_matches: the tokens that are taken for the same
\* property or the same local variable, {} if the token is neither
ScopedMatches(T, i) ==
    LET w == T[i].name
        Declared(j)  == T[j].id = "var" /\ DeclaresProperty(T, j)
        Accessed(j)  == T[j].id = "name" /\ PreviousId(T, j) = "->"
        scope        == FunctionScope(T, i)
        InScope(j)   == \/ scope = NoScope
                        \/ scope.open <= j /\ j <= scope.close
                        \/ scope.body < j /\ j <= scope.end
    IN  CASE Declared(i) \/ Accessed(i) ->
                {j \in DOMAIN T : T[j].name = w /\ (Declared(j) \/ Accessed(j))}
          [] T[i].id = "var" /\ ~Declared(i) ->
                {j \in DOMAIN T : T[j].name = w /\ T[j].id = "var" /\ InScope(j) /\ ~Declared(j)}
          [] OTHER -> {}

\* lsp_refactor_add_scoped_variable_rename_changes: every match is replaced by
\* the new name with a dollar sign
VariableRenamed(t, i, new) ==
    LET T == Tokens(t)
        M == ScopedMatches(T, i)
        Index(l, k) == Cardinality({j \in DOMAIN T : T[j].line < l}) + k
    IN  [l \in DOMAIN t |-> [t[l] EXCEPT !.toks =
            [k \in DOMAIN @ |-> IF Index(l, k) \in M THEN Token("var", new, 0) ELSE @[k]]]]
==============================================================================
