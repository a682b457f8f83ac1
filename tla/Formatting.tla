----------------------------- MODULE Formatting -----------------------------
(***************************************************************************)
(* The formatter: one pass over the tokens plans every line, then the lines *)
(* are written with the blanks of the plan.                                 *)
(***************************************************************************)
EXTENDS PhpTexts

MaxIndentUnits == 64

Locking      == {"string", "html", "heredoc"}
Continuing   == {"op", "->", "::", "="}
AlternativeEnds == {"endif"}

\* lsp_format_options_resolve: what the server was told comes first
Resolved(server, client) ==
    [reindent |-> server.reindent, trim |-> server.trim, final |-> server.final,
     spaces |-> IF server.style = "client" THEN client.spaces ELSE server.style = "space",
     size   |-> IF server.size > 0 THEN server.size
                ELSE IF client.size \in 1..16 THEN client.size ELSE 4]


\* lsp_format_append_indent
Columns(o, units) == units * (IF o.spaces THEN Min({o.size, 16}) ELSE 1)

------------------------------------------------------------------------------
(* lsp_format_plan_lines                                                    *)

\* The tokens of a text with the lines they begin on
Placed(t) ==
    FlattenSeq([i \in DOMAIN t |->
        [k \in DOMAIN t[i].toks |->
            [id |-> t[i].toks[k].id, more |-> t[i].toks[k].more, line |-> i]]])

\* A plan says something of the lines that were come to; the others are unset
Unset  == [kind |-> "unset", indent |-> -1]
Locked == [kind |-> "locked", indent |-> -1]
PlanOf(plan, l) == IF l \in DOMAIN plan THEN plan[l] ELSE Unset

\* The pass: how deep it is, and what it has planned and seen
Start ==
    [nest |-> [depth |-> 0, curly |-> 0, paren |-> 0, switches |-> <<>>,
               pending |-> FALSE, pendingAt |-> 0],
     plan |-> <<>>, seen |-> 0, prev |-> "none", prevLine |-> 0]

IsSwitchBody(n) == n.switches /= <<>> /\ Last(n.switches) = n.curly

ClosedKeepsSwitch(n, id) ==
    [n EXCEPT !.depth = @ - 1,
              !.curly = IF id = "}" THEN @ - 1 ELSE @,
              !.paren = IF id = ")" THEN @ - 1 ELSE @]

\* A closing bracket leaves its level, and the switch it closes
Closed(n, id) ==
    [n EXCEPT !.depth = @ - 1,
              !.curly = IF id = "}" THEN @ - 1 ELSE @,
              !.paren = IF id = ")" THEN @ - 1 ELSE @,
              !.switches = IF id = "}" /\ IsSwitchBody(n) THEN Front(@) ELSE @]

ClosersFrom(T, i) ==
    LET end == First(T, {j \in i..Len(T) : T[j].id \notin Closers \/ T[j].line /= T[i].line})
    IN  [k \in 1..end - i |-> T[i + k - 1].id]

\* The units of a line that starts with the token
Units(T, s, i) ==
    LET Inner(n) == n.depth + Len(n.switches)
        id       == T[i].id
        label    == id = "case" /\ IsSwitchBody(s.nest)
    IN  CASE id \in Closers -> Inner(FoldLeft(Closed, s.nest, ClosersFrom(T, i)))
          [] label -> Inner(s.nest) - 1
          [] /\ ~label
             /\ s.prevLine > 0 /\ s.prevLine < T[i].line
             /\ s.prev \in Continuing \/ id \in Continuing \cup {"colon"} -> Inner(s.nest) + 1
          [] OTHER -> Inner(s.nest)

MarkedAnew(plan, lines, line) ==
    [l \in DOMAIN plan \cup lines |-> IF l \in lines THEN line ELSE plan[l]]

\* What is planned of a line stays
Marked(plan, lines, line) ==
    [l \in DOMAIN plan \cup lines |-> IF l \in DOMAIN plan THEN plan[l] ELSE line]

\* What a token makes of its line and of the lines it runs over
Begun(T, s, i) ==
    LET code == [kind |-> "code", indent |-> Min({Max({Units(T, s, i), 0}), MaxIndentUnits})]
    IN  IF T[i].line /= s.seen THEN Marked(s.plan, {T[i].line}, code) ELSE s.plan

Interior(plan, k, line) == Marked(plan, k.line + 1..k.line + k.more, line)

Planned(plan, k) ==
    LET own == PlanOf(plan, k.line)
    IN  CASE k.id \in Comments ->
                Interior(plan, k, [kind |-> "comment", indent |-> IF own.kind = "code" THEN own.indent ELSE -1])
          [] k.id = "html" /\ own.kind = "code" -> [Interior(plan, k, Locked) EXCEPT ![k.line] = Locked]
          [] k.id \in Locking /\ ~(k.id = "html" /\ own.kind = "code") -> Interior(plan, k, Locked)
          [] OTHER -> plan

\* What a token does to the nesting
Nested(n, id) ==
    CASE id = "switch" -> [n EXCEPT !.pending = TRUE, !.pendingAt = n.paren]
      [] id = ";"      -> [n EXCEPT !.pending = FALSE]
      [] id = "("      -> [n EXCEPT !.paren = @ + 1, !.depth = @ + 1]
      [] id = "["      -> [n EXCEPT !.depth = @ + 1]
      [] id \in Braces ->
            LET body == n.pending /\ id = "{" /\ n.paren = n.pendingAt
            IN  [n EXCEPT !.curly = @ + 1, !.depth = @ + 1,
                          !.switches = IF body THEN Append(@, n.curly + 1) ELSE @,
                          !.pending = @ /\ ~body]
      [] id \in Closers -> Closed(n, id)
      [] OTHER -> n

PlanToken(T, s, i) ==
    LET k == T[i]
        comment == k.id \in Comments
    IN  [nest     |-> Nested(s.nest, k.id),
         plan     |-> Planned(Begun(T, s, i), k),
         seen     |-> k.line,
         prev     |-> IF comment THEN s.prev ELSE k.id,
         prevLine |-> IF comment THEN s.prevLine ELSE k.line]

\* The state of the pass after each token
Passed(T) ==
    LET s[i \in 0..Len(T)] == IF i = 0 THEN Start ELSE PlanToken(T, s[i - 1], i)
    IN  s
Plan(t) == LET T == Placed(t) IN Passed(T)[Len(T)].plan

\* Alternative syntax has no braces to go by
CanReindent(t) == \A k \in Range(Placed(t)) : k.id \notin AlternativeEnds

------------------------------------------------------------------------------

\* lsp_format_emit, for one line
FormattedLine(l, p, o, reindent) ==
    LET blanks == o.trim \/ p.kind = "unset"
        lead == CASE reindent /\ p.kind = "code" /\ p.indent \in Nat -> Columns(o, p.indent)
                  [] reindent /\ p.kind = "comment" /\ p.indent \in Nat /\ l.inner = "*" ->
                        Columns(o, p.indent) + 1
                  [] OTHER -> l.lead
    IN  CASE p.kind = "locked" -> l
          [] p.kind /= "locked" /\ IsBlank(l) -> IF blanks THEN EmptyLine ELSE l
          [] OTHER -> [l EXCEPT !.lead = lead, !.trail = IF blanks THEN 0 ELSE @]

FormattedRange(t, o, a, b) ==
    LET plan == Plan(t)
    IN  [i \in DOMAIN t |->
            IF i \in a..b THEN FormattedLine(t[i], PlanOf(plan, i), o, o.reindent /\ CanReindent(t))
            ELSE t[i]]


\* The text ends in a newline when its last line is empty
Finished(f, o) ==
    IF o.final /\ (Len(f) = 1 \/ Last(f) /= EmptyLine) THEN Append(f, EmptyLine) ELSE f
Formatted(t, o) == Finished(FormattedRange(t, o, 1, Len(t)), o)

\* lsp_lsparrot_range_formatting: the lines of a range; one that ends at the
\* start of a line leaves that line out
RangeFormatted(t, o, a, b, atStart) ==
    FormattedRange(t, o, a, IF atStart /\ b > a THEN b - 1 ELSE Max({a, b}))
==============================================================================
