------------------------------- MODULE Editing -------------------------------
(***************************************************************************)
(* One document under the requests an editor sends while it is written:     *)
(* semantic tokens with their differences, formatting, and the renaming of  *)
(* a variable.  Requests are answered in order; an answer travels back      *)
(* while the document goes on changing.                                     *)
(***************************************************************************)
EXTENDS SemanticTokens, Formatting, Outline

CONSTANTS Texts,        \* what may be opened
          Typed,        \* what may be typed over it
          Options,      \* formatting options, as resolved
          NewName,      \* what variables are renamed to
          Budget        \* edits and requests of a behavior, for each text

ASSUME TextsAssumption == Token("var", NewName, 0) \in Toks /\ \A t \in Texts \cup Typed : IsText(t)
ASSUME OptionsAssumption == \A o \in Options : o.size \in Nat

VARIABLES text,         \* the text, the same for client and server
          open,         \* whether the server has the document
          cache,        \* lsp_semantic_tokens_cache: the snapshot of the uri
          counter,      \* lsp_semantic_tokens_result_counter
          shown,        \* what the client has on display, with the text it is of
          wire,         \* answers on their way
          left
vars == <<text, open, cache, counter, shown, wire, left>>

None == [id |-> 0, data |-> <<>>, text |-> <<>>]

Init ==
    /\ text \in Texts /\ left = Budget[text]
    /\ open = TRUE /\ cache = None /\ counter = 0 /\ shown = None /\ wire = <<>>

Spend == left > 0 /\ left' = left - 1

\* Closed documents do not pin their snapshot, and a client drops what comes late
DidClose ==
    /\ open /\ Spend
    /\ open' = FALSE /\ cache' = None /\ shown' = None /\ wire' = <<>>
    /\ UNCHANGED <<text, counter>>
DidOpen ==
    /\ ~open /\ open' = TRUE
    /\ UNCHANGED <<text, cache, counter, shown, wire, left>>
DidSave ==
    /\ open /\ Spend /\ cache' = None
    /\ UNCHANGED <<text, open, counter, shown, wire>>

\* lsp_did_change: the snapshot stays
Becomes(t) ==
    /\ open /\ Spend /\ text' = t
    /\ UNCHANGED <<open, cache, counter, shown, wire>>
DidChange == \E t \in Typed : Becomes(t)
FormatDocument == \E o \in Options : Becomes(Formatted(text, o))
FormatRange ==
    \E o \in Options, a, b \in DOMAIN text, atStart \in BOOLEAN :
        a <= b /\ Becomes(RangeFormatted(text, o, a, b, atStart))
RenameVariable ==
    \E i \in DOMAIN Tokens(text) :
        Tokens(text)[i].id = "var" /\ Becomes(VariableRenamed(text, i, NewName))

------------------------------------------------------------------------------
\* The snapshot is replaced by every answer
Answer(base, old) ==
    LET data == FullTokens(text)
        edit == IF base = 0 THEN [start |-> 0, delete |-> 0, data |-> data] ELSE Edit(old, data)
    IN  /\ counter' = counter + 1
        /\ cache' = [id |-> counter + 1, data |-> data, text |-> <<>>]
        /\ wire' = Append(wire, [id |-> counter + 1, text |-> text, base |-> base, edit |-> edit])
        /\ UNCHANGED <<text, open, shown>>

TokensFull == open /\ Spend /\ Answer(0, <<>>)

\* lsp_lsparrot_semantic_tokens_full_delta: against the snapshot, if it is
\* the one the client has
TokensDelta ==
    /\ open /\ Spend /\ shown.id > 0
    /\ Answer(IF cache.id = shown.id THEN cache.id ELSE 0, cache.data)

\* The client applies a difference to what it is a difference to
Receive ==
    /\ wire /= <<>>
    /\ LET m == Head(wire)
           old == IF m.base = 0 THEN <<>> ELSE shown.data
       IN  shown' = IF m.base \in {0, shown.id}
                    THEN [id |-> m.id, data |-> Applied(old, m.edit), text |-> m.text]
                    ELSE shown
    /\ wire' = Tail(wire)
    /\ UNCHANGED <<text, open, cache, counter, left>>

Next == \/ DidOpen \/ DidClose \/ DidSave \/ DidChange
        \/ FormatDocument \/ FormatRange \/ RenameVariable
        \/ TokensFull \/ TokensDelta \/ Receive
Spec == Init /\ [][Next]_vars

------------------------------------------------------------------------------
\* A client that applies the differences it is sent shows the tokens of the
\* text each answer was made for, whatever was typed, saved or asked between.
TokensShown == shown.id > 0 => shown.data = FullTokens(shown.text)

\* The groups of a list that are on the lines from a to b
Selected(D, a, b) ==
    LET s[i \in 0..Len(D)] ==
            IF i = 0 THEN <<>>
            ELSE IF D[i].line \in a..b THEN Append(s[i - 1], D[i]) ELSE s[i - 1]
    IN  s
OnLines(D, a, b) == Selected(D, a, b)[Len(D)]

\* No place is before the one it is relative to, and a range is answered with
\* the tokens a full answer has on its lines.
RangeAgrees ==
    LET full == FullTokens(text)
    IN  /\ \A g \in Range(full) : g.line \in Nat /\ g.col \in Nat
        /\ \A a, b \in DOMAIN text :
               Decoded(RangeTokens(text, a, b)) = OnLines(Decoded(full), a, b)

\* Balanced brackets, each with its partner
Level(T, i) == Count(T, 1, i, Openers) - Count(T, 1, i, Closers)
Partner(T, c) ==
    Max({o \in 1..c - 1 : T[o].id \in Openers /\ Level(T, o) = Level(T, c) + 1} \cup {0})
Pairs == {<<"(", ")">>, <<"[", "]">>, <<"{", "}">>, <<"curly", "}">>}
Balanced(T) ==
    \A c \in DOMAIN T : T[c].id \in Closers => 
        Partner(T, c) > 0 /\ <<T[Partner(T, c)].id, T[c].id>> \in Pairs

\* Where a name or a variable is declared, as the classes of the text nest
At(T, g) == CHOOSE i \in DOMAIN T : T[i].line = g.line /\ T[i].col = g.col
Introduces(T, i) == T[i].id = "name" /\ PreviousId(T, i) = "function"

------------------------------------------------------------------------------
\* The brace behind a declaration, past the end if it is unfinished, or the
\* semicolon it ends with
BodyBrace(T, k) ==
    LET Opens(c) == T[c].id = "{" /\ Level(T, c) = Level(T, k) + 1
        Stops(c) == T[c].id = ";" /\ Level(T, c) = Level(T, k)
    IN  First(T, {c \in k..Len(T) : Opens(c) \/ Stops(c)})

\* A declaration by brackets alone: its body and what it stands in
Declared(T) == {k \in DOMAIN T : T[k].id \in ClassLike \cup {"function"} /\ NameAfter(T, k) > 0
                                 /\ PreviousId(T, k) /= "new"}
CloserOf(T, b) ==
    IF b <= Len(T) /\ T[b].id = ";" THEN b
    ELSE First(T, {c \in DOMAIN T : T[c].id \in Closers /\ Partner(T, c) = b})
Bodies(T) == [k \in Declared(T) |-> <<BodyBrace(T, k), CloserOf(T, BodyBrace(T, k))>>]
Holders(T, bodies, i) == {k \in DOMAIN bodies : bodies[k][1] < i /\ i <= bodies[k][2]}
InnerBrace(T, i) == Max({b \in 1..i - 1 : T[b].id \in Braces /\ i <= CloserOf(T, b)} \cup {0})

\* A declared function is shown as a method exactly in the body of a named
\* class, around an anonymous one or not, and a variable as a declaration
\* exactly where a property of a named class is declared: in front of, behind and
\* between methods, closures, functions and anonymous classes.  The pass keeps
\* one class: what follows a named class in the body of another, which PHP does
\* not allow, is shown as if it stood in none.  Stray brackets and interpolated
\* braces (whose end the pass takes for the end of a block) are left aside.
KindsFitNesting ==
    LET T == Tokens(text)
        bodies == Bodies(T)
        shownAs == Decoded(FullTokens(text))
        Classes(i) == {h \in Holders(T, bodies, i) : T[h].id \in ClassLike}
        Forgotten(i) == \E c \in DOMAIN bodies :
                            T[c].id \in ClassLike /\ bodies[c][2] < i /\ Max(Classes(i)) < c
        Known(i)   == Classes(i) /= {} /\ ~Forgotten(i)
        OfNamed(i) == Known(i) /\ EnclosingClass(T, i) = bodies[Max(Classes(i))][1]
        exact == Balanced(T) /\ \A k \in DOMAIN T : T[k].id /= "curly"
    IN  exact => \A n \in DOMAIN shownAs :
            LET g == shownAs[n]
                i == At(T, g)
            IN  /\ Introduces(T, i) => (g.type = "method" <=> Known(i))
                /\ T[i].id = "var" =>
                        ("declaration" \in g.mods <=> OfNamed(i) /\ DeclaresProperty(T, i))

KindOf(T, bodies, k) ==
    LET method == \E h \in Holders(T, bodies, k) :
                        T[h].id \in ClassLike /\ bodies[h][1] = InnerBrace(T, k)
    IN  CASE T[k].id = "trait" -> "class"
          [] T[k].id = "function" /\ method ->
                IF T[k + 1].name = "__construct" THEN "constructor" ELSE "method"
          [] OTHER -> T[k].id

\* Every class, function and method that does not stand in too many others is
\* in the outline, once, with its kind, from its keyword to the end of its
\* body, under what it stands in; finished or not.
OutlineMatchesBlocks ==
    LET T == Tokens(text)
        bodies == Bodies(T)
        told == {k \in DOMAIN bodies : Cardinality(Holders(T, bodies, k)) < FrameMax}
        Expected(k) ==
            [kind |-> KindOf(T, bodies, k), at |-> k + 1, from |-> k, to |-> bodies[k][2],
             in |-> SetToSortSeq({h + 1 : h \in Holders(T, bodies, k)}, <)]
        Cases(e) == {[kind |-> "enumMember", at |-> k + 1, from |-> k, to |-> k + 1,
                      in |-> Append(Expected(e).in, e + 1)] :
                        k \in {k \in DOMAIN T : T[k].id = "case" /\ NameAfter(T, k) > 0
                                                 /\ InnerBrace(T, k) = bodies[e][1]}}
    IN  Balanced(T) =>
            {s \in OutlineOf(T) : s.from \in told \/ s.kind = "enumMember"}
                = {Expected(k) : k \in told} \cup UNION {Cases(e) : e \in {k \in told : T[k].id = "enum"}}

\* A name that may begin an override is the name of a method in the outline, or
\* stands in an anonymous class, which the outline leaves out; and every public
\* method named on the line of its modifiers may.
OverridesAtMethods ==
    LET T == Tokens(text)
        methods == {s.at : s \in {o \in OutlineOf(T) : o.kind \in {"method", "constructor"}}}
        declared == {k + 1 : k \in {d \in Declared(T) : Cardinality(Holders(T, Bodies(T), d)) < FrameMax}}
    IN  Balanced(T) => \A i \in declared :
            LET nameless == \E c \in DOMAIN T : /\ T[c].id = "class" /\ PreviousId(T, c) = "new"
                                              /\ BodyBrace(T, c) = InnerBrace(T, i)
                offered == OverrideContext(T, i).vis = "public"
            IN  /\ offered => i \in methods \/ nameless
                /\ i \in methods /\ PreviousId(T, i - 1) = "public" => offered

\* A call is placed in the innermost named function and class around it,
\* closures and anonymous classes aside, and from a name back to its first
\* declaration the same body is found.
CallsHaveTheirPlace ==
    LET T == Tokens(text)
        bodies == Bodies(T)
        Inner(i, ids) == Max({h + 1 : h \in {k \in Holders(T, bodies, i) : T[k].id \in ids}} \cup {0})
        Namesakes(k) == {h \in DOMAIN bodies : T[h].id = "function" /\ T[h + 1].name = T[k + 1].name}
    IN  Balanced(T) =>
            /\ \A i \in {j \in DOMAIN T : T[j].id \in {"name", "var"}} :
                    EnclosingDecl(T, i) = [function |-> Inner(i, {"function"}), class |-> Inner(i, ClassLike)]
            /\ \A k \in DOMAIN bodies : (T[k].id = "function" /\ k = Min(Namesakes(k))) =>
                    FunctionDecl(T, T[k + 1].name, 1, Len(T)) =
                        [at |-> k + 1, body |-> IF bodies[k][2] > Len(T) \/ T[bodies[k][1]].id = ";"
                                              THEN <<0, 0>> ELSE bodies[k]]

\* The three passes that look for declarations find those the brackets tell of.
DeclarationsFound == OutlineMatchesBlocks /\ OverridesAtMethods /\ CallsHaveTheirPlace

------------------------------------------------------------------------------
\* What was formatted is not changed when it is formatted again, nor when
\* its lines are formatted as a range.
Settled(f, o) == Formatted(f, o) = f /\ RangeFormatted(f, o, 1, Len(f), FALSE) = f
FormatStable == \A o \in Options : Settled(Formatted(text, o), o)

\* Only blanks change, and a final newline is all that is added.  The lines a
\* string, a heredoc or markup runs over stay as they are, and so does the line
\* markup begins on, unless a comment ends there.  The line a string begins on
\* keeps the blanks behind it when nothing is to be trimmed; they belong to the
\* string, and are taken from it otherwise.
InteriorsKept ==
    LET T == Placed(text)
        Commented(l) == \E c \in DOMAIN T : /\ T[c].id \in Comments
                                            /\ l \in T[c].line + 1..T[c].line + T[c].more
    IN  \A o \in Options :
            LET f == Formatted(text, o)
            IN  /\ \A l \in DOMAIN text : f[l].toks = text[l].toks /\ f[l].inner = text[l].inner
                /\ \/ Len(f) = Len(text)
                   \/ o.final /\ Len(f) = Len(text) + 1 /\ f[Len(f)] = EmptyLine
                /\ \A k \in DOMAIN T : T[k].id \in Locking =>
                      /\ \A l \in T[k].line + 1..T[k].line + T[k].more : f[l] = text[l]
                      /\ T[k].id = "html" => f[T[k].line] = text[T[k].line] \/ Commented(T[k].line)
                      /\ ~o.trim => f[T[k].line].trail = text[T[k].line].trail

\* Formatting twice changes nothing.  Of what a program computes with or puts
\* out, it changes at most the blanks that end the first line of a string (or of
\* markup behind a comment) when it trims, and the newline behind trailing markup.
FormattingSettles == FormatStable /\ InteriorsKept

------------------------------------------------------------------------------
StartsLine(T, i) == i = 1 \/ T[i - 1].line < T[i].line
FirstOn(T, l) == CHOOSE i \in DOMAIN T : T[i].line = l /\ StartsLine(T, i)
LeadsOn(T, i) ==
    LET before == {j \in 1..i - 1 : T[j].id \notin Comments}
    IN  \/ T[i].id \in Continuing \cup {"colon"}
        \/ before /= {} /\ T[Max(before)].id \in Continuing /\ T[Max(before)].line < T[i].line

\* A line that starts with closing brackets stands where the line stands that
\* opened the last of them, one deeper for each bracket that line opened before
\* and that is still open; labels and continued lines aside.
ClosersAlign ==
    LET T == Tokens(text)
        plan == Plan(text)
        OpenAt(o) == {j \in 1..o - 1 : /\ T[j].line = T[o].line /\ T[j].id \in Openers
                                       /\ \A c \in j..o : T[c].id \in Closers => Partner(T, c) /= j}
    IN  Balanced(T) => \A i \in DOMAIN T :
            LET run == Len(ClosersFrom(T, i))
                o   == Partner(T, i + run - 1)
            IN  (run > 0 /\ StartsLine(T, i) /\ PlanOf(plan, T[i].line).kind = "code"
                 /\ PlanOf(plan, T[o].line).kind = "code"
                 /\ LET b == FirstOn(T, T[o].line)
                    IN  T[b].id \notin {"case"} /\ ~LeadsOn(T, b))
                => plan[T[i].line].indent = plan[T[o].line].indent + Cardinality(OpenAt(o))

\* Blocks, comments and heredocs fold if they run over lines, except blocks in
\* too many others.  The selection grows from the word through every pair of
\* brackets around it to the whole text, and only ever widens.
PairsFold ==
    LET T == Tokens(text)
        pairs == {<<Partner(T, c), c>> : c \in {c \in DOMAIN T : T[c].id \in Closers}}
        seen  == {p \in pairs : Level(T, p[1]) <= StackMax}
        own   == {<<T[k].line, T[k].line + T[k].more - (IF T[k].id = "heredoc" THEN 1 ELSE 0)>> :
                    k \in {k \in DOMAIN T : T[k].id \in Comments \cup {"heredoc"}}}
        Around(c) == {p \in seen : p[1] < c /\ c <= p[2]}
        Steps(c) == {<<p[1] - 1, p[2]>> : p \in Around(c)} \cup {<<p[1], p[2] - 1>> : p \in Around(c)}
                        \cup {<<0, Len(T)>>} \cup Range(Word(T, c))
    IN  Balanced(T) =>
            /\ Folds(T) = {f \in own \cup {<<T[p[1]].line, T[p[2]].line - 1>> : p \in seen} : f[1] < f[2]}
            /\ \A c \in DOMAIN T :
                    LET chain == SelectionAt(T, c)
                    IN  /\ Range(chain) = Steps(c)
                        /\ \A n \in 1..Len(chain) - 1 :
                                chain[n] /= chain[n + 1]
                                /\ chain[n + 1][1] <= chain[n][1] /\ chain[n][2] <= chain[n + 1][2]

\* Every pair of brackets is seen where it is: in the folds, in the selection
\* and in the indentation of what is formatted.
PairsSurface == PairsFold /\ ClosersAlign

------------------------------------------------------------------------------
\* The function whose parameters or body a token stands in, by brackets alone
Owner(T, j) ==
    Max({k \in 1..j - 1 : /\ T[k].id = "function"
                          /\ \A c \in k..j - 1 : T[c].id \in {";", "}"} => Level(T, c) /= Level(T, k)} \cup {0})
SameVariable(T, i) ==
    {j \in DOMAIN T : T[j].id = "var" /\ T[j].name = T[i].name /\ Owner(T, j) = Owner(T, i)}

\* With the cursor in the body of a function, a rename takes the variables of
\* that name that belong to the function and no others; functions within it
\* and promoted parameters of that name aside.
RenameKeepsBindings ==
    LET T == Tokens(text)
        Plain(i) ==
            /\ \A j \in DOMAIN T : T[j].id = "function" => Owner(T, j) /= Owner(T, i)
            /\ \A j \in SameVariable(T, i) : ~DeclaresProperty(T, j)
    IN  Balanced(T) => \A i \in DOMAIN T :
            (T[i].id = "var" /\ Owner(T, i) > 0 /\ Plain(i) /\ i > BodyBrace(T, Owner(T, i)))
                => ScopedMatches(T, i) = SameVariable(T, i)

\* "property declarations and other functions' same-named locals stay
\* untouched" (refactor.c:2436-2437), wherever the cursor is.
OthersStayUntouched ==
    LET T == Tokens(text)
    IN  Balanced(T) => \A i \in DOMAIN T :
            (T[i].id = "var" /\ ~DeclaresProperty(T, i))
                => \A j \in ScopedMatches(T, i) : ~DeclaresProperty(T, j) /\ Owner(T, j) = Owner(T, i)
==============================================================================
