--------------------------- MODULE SemanticTokens ---------------------------
(***************************************************************************)
(* Semantic tokens: one pass over the tokens gives each its type and its    *)
(* modifiers, relative to the token before; a later answer may be the       *)
(* difference to an earlier one.                                            *)
(***************************************************************************)
EXTENDS PhpTexts

Strings   == {"string", "heredoc"}
Skipped   == Comments \cup {"open", "html"}
Arrow     == "->"
Names     == {"name", "qualified", "literal"}
Opening   == {"namespace", "use", "new", "extends", "implements", "instanceof",
              "function", "const"} \cup ClassLike
Keywords  == Opening \cup {"public", "static", "readonly", "case", "switch", "return", "as", "endif"}
Significant(id) == id \notin Comments \cup {"open"}

NextId(T, i) ==
    LET j == First(T, {k \in i + 1..Len(T) : Significant(T[k].id)})
    IN  IF j > Len(T) THEN "none" ELSE T[j].id

\* lsp_semantic_scan_declaration_modifiers: what is written between the last
\* statement (or parameter) and the token
ModifiersBefore(T, i, params) ==
    LET stops == {";", "{", "}"} \cup (IF params THEN {"(", ","} ELSE {})
        from  == Max({j \in 1..i - 1 : T[j].id \in stops} \cup {0})
    IN  {T[j].id : j \in from + 1..i - 1} \cap {"public", "static", "readonly", "deprecated"}

------------------------------------------------------------------------------
(* lsp_semantic_tokens_collect                                              *)
Begin ==
    [scan |-> [depth |-> 0, class |-> -1, pending |-> FALSE, paren |-> 0,
               prev |-> "none", ctx |-> "none", at |-> 0],
     sent |-> [line |-> 0, col |-> 0, data |-> <<>>]]

EnteredNeverLeaves(s, id) ==
    CASE id = "(" -> [s EXCEPT !.paren = @ + 1]
      [] id = ")" -> [s EXCEPT !.paren = Max({@ - 1, 0})]
      [] id = "{" -> [s EXCEPT !.depth = @ + 1, !.pending = FALSE,
                               !.class = IF s.pending THEN s.depth + 1 ELSE @]
      [] id = "}" -> [s EXCEPT !.depth = Max({@ - 1, 0})]
      [] OTHER -> s

\* Brackets count before the token is classified
Entered(s, id) ==
    CASE id = "(" -> [s EXCEPT !.paren = @ + 1]
      [] id = ")" -> [s EXCEPT !.paren = Max({@ - 1, 0})]
      [] id = "{" -> [s EXCEPT !.depth = @ + 1, !.pending = FALSE,
                               !.class = IF s.pending THEN s.depth + 1 ELSE @]
      [] id = "}" -> [s EXCEPT !.depth = Max({@ - 1, 0}),
                               !.class = IF s.depth = @ THEN -1 ELSE @]
      [] OTHER -> s

\* A name that a keyword introduces
Introduced(T, s, i) ==
    LET new   == s.prev \notin {"extends", "implements", ","}
        noted == ModifiersBefore(T, s.at, FALSE)
    IN  CASE s.ctx = "namespace" -> [type |-> "namespace", mods |-> {}]
          [] s.ctx \in ClassLike /\ new ->
                [type |-> IF s.ctx = "trait" THEN "class" ELSE s.ctx,
                 mods |-> {"declaration"} \cup (noted \cap {"deprecated"})]
          [] s.ctx \in ClassLike /\ ~new ->
                [type |-> IF s.ctx = "trait" THEN "class" ELSE s.ctx, mods |-> {}]
          [] s.ctx = "function" ->
                [type |-> IF s.class >= 0 THEN "method" ELSE "function",
                 mods |-> {"declaration"} \cup (noted \cap {"static", "deprecated"})]
          [] s.ctx = "const" -> [type |-> "enumMember", mods |-> {}]
          [] OTHER -> [type |-> "class", mods |-> {}]

\* A name that what stands around it explains
ByNeighbours(T, s, i) ==
    LET next == NextId(T, i)
        type == CASE s.prev = Arrow /\ next = "("  -> "method"
                  [] s.prev = Arrow /\ next /= "(" -> "property"
                  [] s.prev = "::" /\ next = "("   -> "method"
                  [] s.prev = "::" /\ next /= "("  -> "enumMember"
                  [] s.prev \notin {Arrow, "::"}   ->
                        CASE next = "::" -> "class"
                          [] next = "("  -> "function"
                          [] next \notin {"::", "("} /\ (T[i].id = "qualified" \/ next = "var") -> "class"
                          [] OTHER -> "none"
    IN  [type |-> type, mods |-> {}]

\* A variable is a declaration where the body of the class stands
OfVariable(T, s, i) ==
    LET found == IF s.class >= 0 /\ s.depth = s.class /\ T[i].name /= "this"
                 THEN ModifiersBefore(T, i, s.paren > 0) ELSE {}
    IN  [type |-> IF s.prev = "::" THEN "property" ELSE "variable",
         mods |-> IF found \ {"deprecated"} = {} THEN {}
                  ELSE {"declaration"} \cup (found \ {"public"})]

Classified(T, s, i) ==
    LET id == T[i].id
    IN  CASE id = "num" -> [type |-> "number", mods |-> {}]
          [] id = "var" -> OfVariable(T, s, i)
          [] \/ id \in Keywords
             \/ id = "literal" /\ s.prev /= Arrow /\ NextId(T, i) /= "::" -> [type |-> "keyword", mods |-> {}]
          [] id \in Names /\ s.ctx /= "none" -> Introduced(T, s, i)
          [] id \in Names /\ s.ctx = "none" -> ByNeighbours(T, s, i)
          [] OTHER -> [type |-> "none", mods |-> {}]

Group(line, col, c) == [line |-> line, col |-> col, type |-> c.type, mods |-> c.mods]

EmittedCounts(s, k, c, a, b) ==
    LET dl == k.line - 1 - s.line
        dc == IF dl = 0 THEN k.col - s.col ELSE k.col
    IN  IF c.type = "none" THEN s
        ELSE [line |-> k.line - 1, col |-> k.col,
              data |-> IF k.line \in a..b THEN Append(s.data, Group(dl, dc, c)) ELSE s.data]

\* lsp_semantic_emit, within the lines asked for
Emitted(s, k, c, a, b) ==
    LET dl == k.line - 1 - s.line
        dc == IF dl = 0 THEN k.col - s.col ELSE k.col
    IN  IF c.type = "none" \/ k.line \notin a..b \/ dl < 0 \/ dc < 0 THEN s
        ELSE [line |-> k.line - 1, col |-> k.col, data |-> Append(s.data, Group(dl, dc, c))]

Contexts(T, s, i) ==
    LET id == T[i].id
    IN  CASE id \in {";", "{", "(", ")", "="} -> [s EXCEPT !.ctx = "none"]
          [] id \in Opening -> [s EXCEPT !.ctx = id, !.at = IF id \in ClassLike \cup {"function"} THEN i ELSE @]
          [] OTHER -> s

\* A name after a class keyword waits for the body
Awaited(s, c) ==
    IF "declaration" \in c.mods /\ c.type \in ClassLike THEN [s EXCEPT !.pending = TRUE] ELSE s

\* What a token makes of the scan, and what it is
Scanned(T, s, i) ==
    LET id == T[i].id
        e  == Entered(s, id)
    IN  CASE id \in Skipped -> s
          [] id \in Strings -> [s EXCEPT !.prev = id]
          [] id \notin Skipped \cup Strings ->
                [Contexts(T, Awaited(e, Classified(T, e, i)), i) EXCEPT !.prev = id]
Kind(T, s, i) ==
    IF T[i].id \in Skipped \cup Strings THEN [type |-> "none", mods |-> {}]
    ELSE Classified(T, Entered(s, T[i].id), i)

ReadToken(T, s, i, a, b) ==
    [scan |-> Scanned(T, s.scan, i),
     sent |-> Emitted(s.sent, T[i], Kind(T, s.scan, i), a, b)]

\* The state of the pass after each token
Collected(T, a, b) ==
    LET s[i \in 0..Len(T)] == IF i = 0 THEN Begin ELSE ReadToken(T, s[i - 1], i, a, b)
    IN  s
Collect(T, a, b) == Collected(T, a, b)[Len(T)].sent.data

\* lsp_lsparrot_semantic_tokens and lsp_lsparrot_semantic_tokens_range
FullTokens(t) == Collect(Tokens(t), 1, Len(t))
RangeTokens(t, a, b) == Collect(Tokens(t), a, b)

------------------------------------------------------------------------------
(* lsp_semantic_tokens_build_edits                                          *)
CommonPrefix(old, new) ==
    Max({n \in 0..Min({Len(old), Len(new)}) : SubSeq(old, 1, n) = SubSeq(new, 1, n)})
CommonSuffixOverlaps(old, new, prefix) ==
    Max({n \in 0..Min({Len(old), Len(new)}) :
            SubSeq(old, Len(old) - n + 1, Len(old)) = SubSeq(new, Len(new) - n + 1, Len(new))})
CommonSuffix(old, new, prefix) ==
    Max({n \in 0..Min({Len(old), Len(new)}) - prefix :
            SubSeq(old, Len(old) - n + 1, Len(old)) = SubSeq(new, Len(new) - n + 1, Len(new))})
Edit(old, new) ==
    LET p == CommonPrefix(old, new)
        s == CommonSuffix(old, new, p)
    IN  [start |-> p, delete |-> Len(old) - p - s, data |-> SubSeq(new, p + 1, Len(new) - s)]

\* What a client does with an edit and with the relative places
Applied(old, e) == SubSeq(old, 1, e.start) \o e.data \o SubSeq(old, e.start + e.delete + 1, Len(old))
Moved(p, g) ==
    [line |-> p.line + g.line, col |-> IF g.line = 0 THEN p.col + g.col ELSE g.col]
Places(data) ==
    LET p[i \in 0..Len(data)] == IF i = 0 THEN [line |-> 0, col |-> 0] ELSE Moved(p[i - 1], data[i])
    IN  p
Decoded(data) ==
    LET p == Places(data)
    IN  [i \in 1..Len(data) |-> Group(p[i].line + 1, p[i].col, data[i])]
==============================================================================
