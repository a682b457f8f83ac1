------------------------------- MODULE Outline -------------------------------
(***************************************************************************)
(* The structure of a document: its outline, its folding ranges, the ranges *)
(* a selection grows by, and where a method name begins that could override *)
(* another; and where the call hierarchy finds the declarations that calls    *)
(* stand in.  Each is one pass over the tokens with a stack of its own.       *)
(***************************************************************************)
EXTENDS PhpTexts

CONSTANTS FrameMax,    \* LSP_SYMBOL_FRAME_MAX
          StackMax     \* LSP_SELECTION_STACK_MAX and LSP_FOLDING_STACK_MAX

NameAfter(T, i) == IF i < Len(T) /\ T[i + 1].id = "name" THEN i + 1 ELSE 0
Anywhere(T) == [i \in 1..Len(T) |-> i]

------------------------------------------------------------------------------
(* lsp_document_symbols_uncached; a symbol names the symbols it stands in by *)
(* the places of their names.                                                *)
NoSymbol == [kind |-> "none", at |-> 0, from |-> 0]
Symbol(kind, at, from) == [kind |-> kind, at |-> at, from |-> from]
Blank0 == [depth |-> 0, frames |-> <<>>, pending |-> NoSymbol, new |-> FALSE, out |-> {}]

Within(frames) == [k \in DOMAIN frames |-> frames[k].sym.at]
Shown(s, frames, sym, to) ==
    [s EXCEPT !.out = @ \cup {[kind |-> sym.kind, at |-> sym.at, from |-> sym.from, to |-> to,
                               in |-> Within(frames)]}]

\* The frame whose body the token stands in, immediately
InBodyOf(s, kinds) ==
    /\ s.frames /= <<>>
    /\ Last(s.frames).depth = s.depth /\ Last(s.frames).sym.kind \in kinds

BraceOpens(s) ==
    LET pushed == s.pending /= NoSymbol /\ Len(s.frames) < FrameMax
    IN  [s EXCEPT !.depth = @ + 1, !.new = FALSE,
                  !.frames = IF pushed THEN Append(@, [sym |-> s.pending, depth |-> s.depth + 1]) ELSE @,
                  !.pending = IF pushed THEN NoSymbol ELSE @]

BraceClosesAnywhere(s, i) ==
    LET left == [s EXCEPT !.depth = Max({@ - 1, 0}), !.new = FALSE]
    IN  IF s.frames = <<>> THEN left
        ELSE Shown([left EXCEPT !.frames = Front(@)], Front(s.frames), Last(s.frames).sym, i)

BraceCloses(s, i) ==
    LET ends == s.frames /= <<>> /\ Last(s.frames).depth = s.depth
        left == [s EXCEPT !.depth = Max({@ - 1, 0}), !.new = FALSE]
    IN  IF ends THEN Shown([left EXCEPT !.frames = Front(@)], Front(s.frames), Last(s.frames).sym, i)
        ELSE left

Announced(T, s, i) ==
    LET at     == NameAfter(T, i)
        class  == T[i].id
        method == IF T[at].name = "__construct" THEN "constructor" ELSE "method"
        kind   == CASE class = "trait" -> "class"
                    [] class = "function" /\ InBodyOf(s, ClassLike) -> method
                    [] OTHER -> class
        told   == IF at > 0 THEN [s EXCEPT !.pending = Symbol(kind, at, i)] ELSE s
    IN  IF class \in ClassLike /\ s.new THEN [s EXCEPT !.new = FALSE] ELSE [told EXCEPT !.new = FALSE]

OutlineStep(T, s, i) ==
    LET id == T[i].id
    IN  CASE id \in Comments -> s
          [] id \in Braces -> BraceOpens(s)
          [] id = "}" -> BraceCloses(s, i)
          [] id = ";" /\ s.pending /= NoSymbol ->
                [Shown(s, s.frames, s.pending, i) EXCEPT !.pending = NoSymbol]
          [] id \in ClassLike \cup {"function"} -> Announced(T, s, i)
          [] id = "case" /\ InBodyOf(s, {"enum"}) ->
                IF NameAfter(T, i) = 0 THEN [s EXCEPT !.new = FALSE]
                ELSE [Shown(s, s.frames, Symbol("enumMember", NameAfter(T, i), i), NameAfter(T, i))
                        EXCEPT !.new = FALSE]
          [] OTHER -> [s EXCEPT !.new = id = "new"]

\* What an unfinished document leaves open ends with it
Unfinished(s, end) ==
    FoldLeft(LAMBDA x, f : Shown([x EXCEPT !.frames = Front(@)], Front(x.frames), Last(x.frames).sym, end),
             s, s.frames).out

OutlineOf(T) ==
    LET s == FoldLeft(LAMBDA x, i : OutlineStep(T, x, i), Blank0, Anywhere(T))
    IN  Unfinished(s, Len(T) + 1)

------------------------------------------------------------------------------
PushedWhileRoom(s, x) ==
    IF s.depth < StackMax THEN [s EXCEPT !.depth = @ + 1, !.stack = Append(@, x)] ELSE s

\* A stack that forgets what is too deep but keeps count
Pushed(s, x) == [s EXCEPT !.depth = @ + 1, !.stack = IF s.depth < StackMax THEN Append(@, x) ELSE @]
Popped(s)    == [s EXCEPT !.depth = Max({@ - 1, 0}),
                          !.stack = IF s.depth \in 1..StackMax THEN Front(@) ELSE @]
HasPartner(s) == s.depth \in 1..StackMax

\* lsp_lsparrot_folding_range: the line of the closer stays visible
Fold(a, b) == IF b > a THEN {<<a, b>>} ELSE {}
FoldStep(T, s, i) ==
    LET k == T[i]
    IN  CASE k.id \in Comments \cup {"heredoc"} ->
                [s EXCEPT !.out = @ \cup Fold(k.line, k.line + k.more - (IF k.id = "heredoc" THEN 1 ELSE 0))]
          [] k.id \in Openers -> Pushed(s, k.line)
          [] k.id \in Closers /\ HasPartner(s) ->
                [Popped(s) EXCEPT !.out = @ \cup Fold(Last(s.stack), k.line - 1)]
          [] k.id \in Closers /\ ~HasPartner(s) -> Popped(s)
          [] OTHER -> s
Folds(T) ==
    FoldLeft(LAMBDA s, i : FoldStep(T, s, i), [depth |-> 0, stack |-> <<>>, out |-> {}], Anywhere(T)).out

------------------------------------------------------------------------------
\* lsp_selection_push_level: a chain of places only widens
Grown(chain, a, b) ==
    IF chain /= <<>> /\ (Last(chain) = <<a, b>> \/ a > Last(chain)[1] \/ b < Last(chain)[2])
    THEN chain ELSE Append(chain, <<a, b>>)

\* lsp_selection_range_for_offset, with the cursor in front of token c: places
\* are between tokens, i - 1 in front of token i
SelectStep(T, c, s, i) ==
    CASE T[i].id \in Openers -> Pushed(s, i)
      [] T[i].id \in Closers /\ HasPartner(s) ->
            LET o == Last(s.stack)
            IN  IF o < c /\ c <= i
                THEN [Popped(s) EXCEPT !.chain = Grown(Grown(@, o, i - 1), o - 1, i)]
                ELSE Popped(s)
      [] T[i].id \in Closers /\ ~HasPartner(s) -> Popped(s)
      [] OTHER -> s
NoWords == Openers \cup Closers \cup Comments
               \cup {";", ",", "=", "->", "colon", "string", "heredoc", "html"}
Word(T, c) == IF T[c].id \in NoWords THEN <<>> ELSE <<<<c - 1, c>>>>
SelectionAt(T, c) ==
    Grown(FoldLeft(LAMBDA s, i : SelectStep(T, c, s, i),
                   [depth |-> 0, stack |-> <<>>, chain |-> Word(T, c)], Anywhere(T)).chain, 0, Len(T))

------------------------------------------------------------------------------

\* lsp_override_declaration_context, with the name at token i as prefix: the
\* modifiers from the last line or statement on, or no context
OverrideContext(T, i) ==
    LET class == EnclosingClass(T, i)
        level == Count(T, 1, class, Braces) - Count(T, 1, class, {"}"})
        stop  == Max({j \in 1..i - 1 : T[j].id \in {";", "{", "}"} \/ T[j].line < T[i].line} \cup {0})
        ids   == {T[j].id : j \in stop + 1..i - 1}
    IN  IF /\ class > 0 /\ Depths(T)[i] = level
           /\ ids \subseteq {"public", "static", "function"}
           /\ "function" \in ids /\ T[i - 1].id = "function"
        THEN [vis |-> "public", static |-> "static" \in ids]
        ELSE [vis |-> "none", static |-> FALSE]

------------------------------------------------------------------------------
\* lsp_hier_enclosing_decl: the innermost named function and class whose
\* bodies hold token i, by the places of their names
CallFrameMax == 64
Unannounced == [class |-> FALSE, at |-> 0]

EnclosingStep(T, s, i) ==
    LET id == T[i].id
    IN  CASE id \in ClassLike \cup {"function"} ->
                [s EXCEPT !.open = TRUE, !.next = [class |-> id /= "function", at |-> NameAfter(T, i)]]
          [] id = ";" -> [s EXCEPT !.open = FALSE, !.next = Unannounced]
          [] id \in Braces ->
                [s EXCEPT !.depth = @ + 1, !.open = FALSE, !.next = Unannounced,
                          !.frames = IF s.open /\ Len(@) < CallFrameMax
                                     THEN Append(@, [decl |-> s.next, depth |-> s.depth + 1]) ELSE @]
          [] id = "}" ->
                [s EXCEPT !.depth = Max({@ - 1, 0}),
                          !.frames = IF @ /= <<>> /\ Last(@).depth = s.depth THEN Front(@) ELSE @]
          [] OTHER -> s
EnclosingDecl(T, i) ==
    LET frames == FoldLeft(LAMBDA s, j : EnclosingStep(T, s, j),
                           [depth |-> 0, frames |-> <<>>, open |-> FALSE, next |-> Unannounced],
                           [j \in 1..i |-> j]).frames
        Innermost(class) ==
            Max({frames[k].decl.at : k \in {n \in DOMAIN frames : frames[n].decl.class = class}} \cup {0})
    IN  [function |-> Innermost(FALSE), class |-> Innermost(TRUE)]

\* lsp_hier_find_function_decl: the first function of the name within a..b,
\* with its body if it has one that ends
FunctionDecl(T, w, a, b) ==
    LET named == {k \in a..b : T[k].id = "function" /\ NameAfter(T, k) > 0 /\ T[NameAfter(T, k)].name = w}
        k     == Min(named)
        Level0(j) == Count(T, k, j, {"(", "["}) = Count(T, k, j, {")", "]"})
        stop  == First(T, {j \in k..Len(T) : T[j].id \in Braces \cup {";"} /\ Level0(j)})
        body  == IF stop > Len(T) \/ T[stop].id = ";" \/ ClosingBrace(T, stop) > Len(T)
                 THEN <<0, 0>> ELSE <<stop, ClosingBrace(T, stop)>>
    IN  IF named = {} THEN [at |-> 0, body |-> <<0, 0>>] ELSE [at |-> k + 1, body |-> body]
==============================================================================
