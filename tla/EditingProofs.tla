----------------------------- MODULE EditingProofs ----------------------------
(***************************************************************************)
(* The difference of any two snapshots of semantic tokens turns the first    *)
(* into the second, and a client that applies the differences it is sent     *)
(* shows the tokens of the text each answer was made for.  A range of lines *)
(* is answered with what the full answer has on them: both passes scan every *)
(* token alike, and tokens come in the order of their places.  A formatted   *)
(* text stays as it is when it is formatted again, and what strings,         *)
(* heredocs and markup run over is written back with its own blanks: the     *)
(* plan rests on the tokens of the lines alone, which formatting keeps, and  *)
(* what the pass has locked no later token unlocks.                          *)
(***************************************************************************)
EXTENDS Editing, TLAPS, SequenceTheorems, WellFoundedInduction

\* A non-empty set of numbers up to a bound has a greatest one, and Max is it:
\* what lsp_semantic_tokens_build_edits counts up to.
LEMMA GreatestExists ==
    ASSUME NEW N \in Nat, NEW S \in SUBSET (0..N), S /= {}
    PROVE  /\ Max(S) \in S
           /\ \A y \in S : y <= Max(S)
<1> DEFINE R == {m \in Nat : N - m \in S}
<1>1. PICK x \in S : TRUE OBVIOUS
<1>2. N - x \in R BY <1>1
<1>3. PICK m \in R : \A k \in R : <<k, m>> \notin OpToRel(<, Nat)
  <2> HIDE DEF R
  <2>1. R \subseteq Nat BY DEF R
  <2> QED BY <1>2, <2>1, NatLessThanWellFounded, WFMin
<1>4. \A k \in R : ~(k < m) BY <1>3 DEF OpToRel
<1>5. \A y \in S : y = N - (N - y) /\ N - y \in R
  OBVIOUS
<1>6. N - m \in S /\ \A y \in S : N - m >= y
  BY <1>4, <1>5
<1>7. \E g \in S : \A y \in S : g >= y BY <1>6
<1>8. Max(S) \in S /\ \A y \in S : Max(S) >= y BY <1>7 DEF Max
<1> QED BY <1>8

\* A difference of two snapshots, applied to the first, gives the second: the
\* kept beginning and end never overlap, however often equal groups repeat.
THEOREM DifferenceApplies ==
    ASSUME NEW S, NEW old \in Seq(S), NEW new \in Seq(S)
    PROVE  Applied(old, Edit(old, new)) = new
<1> DEFINE lo == Len(old)
           ln == Len(new)
           least == Min({lo, ln})
           p == CommonPrefix(old, new)
           s == CommonSuffix(old, new, p)
           Heads == {n \in 0..least : SubSeq(old, 1, n) = SubSeq(new, 1, n)}
           Tails == {n \in 0..least - p : SubSeq(old, lo - n + 1, lo) = SubSeq(new, ln - n + 1, ln)}
<1>1. lo \in Nat /\ ln \in Nat /\ least \in Nat /\ least <= lo /\ least <= ln
  <2>1. lo \in Nat /\ ln \in Nat OBVIOUS
  <2>2. \E m \in {lo, ln} : \A y \in {lo, ln} : m =< y BY <2>1
  <2>3. least \in {lo, ln} /\ \A y \in {lo, ln} : least =< y
    BY <2>2 DEF Min
  <2> QED BY <2>1, <2>3
<1> HIDE DEF least
<1>2. p \in 0..least /\ SubSeq(old, 1, p) = SubSeq(new, 1, p)
  <2>1. SubSeq(old, 1, 0) = << >> /\ SubSeq(new, 1, 0) = << >> BY SubSeqEmpty
  <2>2. Heads \in SUBSET (0..least) /\ 0 \in Heads BY <1>1, <2>1
  <2>3. Max(Heads) \in Heads BY <1>1, <2>2, GreatestExists
  <2> QED BY <2>3 DEF CommonPrefix, least
<1> HIDE DEF p
<1>3. s \in 0..least - p /\ SubSeq(old, lo - s + 1, lo) = SubSeq(new, ln - s + 1, ln)
  <2>1. SubSeq(old, lo + 1, lo) = << >> /\ SubSeq(new, ln + 1, ln) = << >> BY <1>1, SubSeqEmpty
  <2>2. Tails \in SUBSET (0..least - p) /\ 0 \in Tails /\ least - p \in Nat BY <1>1, <1>2, <2>1
  <2>3. Max(Tails) \in Tails BY <2>2, GreatestExists
  <2> QED BY <2>3 DEF CommonSuffix, least
<1> HIDE DEF s
<1>4. Applied(old, Edit(old, new))
        = SubSeq(old, 1, p) \o SubSeq(new, p + 1, ln - s) \o SubSeq(old, p + (lo - p - s) + 1, lo)
  BY DEF Applied, Edit, p, s
<1>5. p + (lo - p - s) + 1 = lo - s + 1 BY <1>1, <1>2, <1>3
<1>6. Applied(old, Edit(old, new))
        = SubSeq(new, 1, p) \o SubSeq(new, p + 1, ln - s) \o SubSeq(new, ln - s + 1, ln)
  BY <1>2, <1>3, <1>4, <1>5
<1>7. \A m \in 1..ln + 1 : \A k \in m - 1..ln : \A n \in k..ln :
          SubSeq(new, m, k) \o SubSeq(new, k + 1, n) = SubSeq(new, m, n)
  BY ConcatAdjacentSubSeq
<1>8. 1 \in 1..ln + 1 /\ p \in 1 - 1..ln /\ ln - s \in p..ln /\ ln - s \in 1 - 1..ln /\ ln \in ln - s..ln
  BY <1>1, <1>2, <1>3
<1>9. SubSeq(new, 1, ln) = new BY SubSeqFull
<1> HIDE DEF ln
<1>10. SubSeq(new, 1, p) \o SubSeq(new, p + 1, ln - s) = SubSeq(new, 1, ln - s) BY <1>7, <1>8
<1>11. SubSeq(new, 1, ln - s) \o SubSeq(new, ln - s + 1, ln) = SubSeq(new, 1, ln) BY <1>7, <1>8
<1> QED BY <1>6, <1>9, <1>10, <1>11

------------------------------------------------------------------------------
(* FlattenSeq and sequences                                                 *)

\* Induction over a set of numbers.
LEMMA Inductive ==
    ASSUME NEW P \in SUBSET Nat, 0 \in P, \A n \in P : n + 1 \in P
    PROVE  P = Nat
<1> DEFINE R == Nat \ P
<1> SUFFICES ASSUME R /= {} PROVE FALSE OBVIOUS
<1>1. R \subseteq Nat OBVIOUS
<1>2. PICK x \in R : TRUE OBVIOUS
<1>3. PICK m \in R : \A k \in R : <<k, m>> \notin OpToRel(<, Nat)
  <2> HIDE DEF R
  <2> QED BY <1>1, <1>2, NatLessThanWellFounded, WFMin
<1>4. \A k \in R : ~(k < m) BY <1>3 DEF OpToRel
<1>5. m \in Nat /\ m /= 0 BY <1>3
<1>6. m - 1 \in Nat /\ m - 1 < m /\ (m - 1) + 1 = m BY <1>5
<1>7. m - 1 \in P BY <1>4, <1>6
<1> QED BY <1>3, <1>6, <1>7

\* FlattenSeq puts one sequence after the other.
Flats(S) == CHOOSE f : f = [i \in 1..Len(S) |-> IF i = 1 THEN S[i] ELSE f[i - 1] \o S[i]]

\* ... up to the last of them.
LEMMA FlattenIs ==
    ASSUME NEW S, Len(S) /= 0
    PROVE  FlattenSeq(S) = Flats(S)[Len(S)]
BY DEF FlattenSeq, Flats

\* The function exists: it is extended by one sequence after the other.
LEMMA FlatsExist ==
    ASSUME NEW S, Len(S) \in Nat
    PROVE  Flats(S) = [i \in 1..Len(S) |-> IF i = 1 THEN S[i] ELSE Flats(S)[i - 1] \o S[i]]
<1> DEFINE IsFlat(g, n) == g = [i \in 1..n |-> IF i = 1 THEN S[i] ELSE g[i - 1] \o S[i]]
           P == {n \in Nat : \E g : IsFlat(g, n)}
<1>1. 0 \in P
  <2>1. IsFlat([i \in 1..0 |-> 0], 0) OBVIOUS
  <2> QED BY <2>1
<1>2. ASSUME NEW n \in P PROVE n + 1 \in P
  <2>1. PICK g : IsFlat(g, n) OBVIOUS
  <2> DEFINE h == [i \in 1..n + 1 |-> IF i \in 1..n THEN g[i] ELSE IF i = 1 THEN S[i] ELSE g[i - 1] \o S[i]]
  <2>2. ASSUME NEW i \in 1..n + 1
        PROVE  h[i] = IF i = 1 THEN S[i] ELSE h[i - 1] \o S[i]
    <3>1. i = 1 \/ (i - 1 \in 1..n /\ i - 1 \in 1..n + 1) OBVIOUS
    <3>2. i - 1 \in 1..n => h[i - 1] = g[i - 1] OBVIOUS
    <3>3. i \in 1..n => h[i] = IF i = 1 THEN S[i] ELSE g[i - 1] \o S[i] BY <2>1
    <3>4. i \notin 1..n => h[i] = IF i = 1 THEN S[i] ELSE g[i - 1] \o S[i] OBVIOUS
    <3> HIDE DEF h
    <3> QED BY <3>1, <3>2, <3>3, <3>4
  <2>3. h = [i \in 1..n + 1 |-> h[i]] OBVIOUS
  <2>4. IsFlat(h, n + 1)
    <3> HIDE DEF h
    <3> QED BY <2>2, <2>3
  <2> HIDE DEF IsFlat, h
  <2> QED BY <2>4
<1>3. P = Nat
  <2> HIDE DEF P
  <2>1. P \subseteq Nat BY DEF P
  <2> QED BY <1>1, <1>2, <2>1, Inductive
<1>4. \E g : IsFlat(g, Len(S)) BY <1>3
<1> QED BY <1>4 DEF Flats

\* Every element of the whole is an element of one of the sequences, in their
\* order.
LEMMA FlatIsSeq ==
    ASSUME NEW X, NEW S \in Seq(Seq(X)), NEW n \in 1..Len(S)
    PROVE  Flats(S)[n] \in Seq(X)
<1> DEFINE F == Flats(S)
           P == {k \in Nat : k \in 1..Len(S) => F[k] \in Seq(X)}
<1>5. Len(S) \in Nat OBVIOUS
<1>1. F = [i \in 1..Len(S) |-> IF i = 1 THEN S[i] ELSE F[i - 1] \o S[i]] BY <1>5, FlatsExist
<1> HIDE DEF F
<1>2. 0 \in P OBVIOUS
<1>3. ASSUME NEW k \in P PROVE k + 1 \in P
  <2> SUFFICES ASSUME k + 1 \in 1..Len(S) PROVE F[k + 1] \in Seq(X) OBVIOUS
  <2>1. S[k + 1] \in Seq(X) OBVIOUS
  <2>2. CASE k = 0
    <3>1. F[k + 1] = S[k + 1] BY <1>1, <2>2
    <3> QED BY <2>1, <3>1
  <2>3. CASE k /= 0
    <3>1. F[k] \in Seq(X) BY <2>3
    <3>2. (k + 1) - 1 = k /\ k + 1 /= 1 BY <2>3
    <3>3. F[k + 1] = F[k] \o S[k + 1] BY <1>1, <3>2
    <3> QED BY <2>1, <3>1, <3>3
  <2> QED BY <2>2, <2>3
<1>4. P = Nat
  <2> HIDE DEF P
  <2>1. P \subseteq Nat BY DEF P
  <2> QED BY <1>2, <1>3, <2>1, Inductive
<1> QED BY <1>4 DEF F

\* What sequences over X are put together to is one over X.
LEMMA FlattenIsSeq ==
    ASSUME NEW X, NEW S \in Seq(Seq(X))
    PROVE  FlattenSeq(S) \in Seq(X)
<1>1. CASE S = << >>
  <2>1. FlattenSeq(S) = << >> BY <1>1 DEF FlattenSeq
  <2> QED BY <2>1
<1>2. CASE S /= << >>
  <2>1. Len(S) \in 1..Len(S) /\ Len(S) /= 0 BY <1>2
  <2> QED BY <2>1, FlattenIs, FlatIsSeq
<1> QED BY <1>1, <1>2

\* An empty sequence at the end adds nothing.
LEMMA FlattenAppend ==
    ASSUME NEW X, NEW S \in Seq(Seq(X)), NEW s \in Seq(X)
    PROVE  FlattenSeq(Append(S, s)) = FlattenSeq(S) \o s
<1> DEFINE A == Append(S, s)
           F == Flats(S)
           G == Flats(A)
           P == {k \in Nat : k \in 1..Len(S) => G[k] = F[k]}
<1>1. /\ A \in Seq(Seq(X)) /\ Len(A) = Len(S) + 1 /\ A[Len(S) + 1] = s
      /\ \A k \in 1..Len(S) : A[k] = S[k]
  OBVIOUS
<1>11. Len(S) \in Nat /\ Len(A) \in Nat BY <1>1
<1> HIDE DEF A
<1>2. F = [i \in 1..Len(S) |-> IF i = 1 THEN S[i] ELSE F[i - 1] \o S[i]] BY <1>11, FlatsExist
<1>3. G = [i \in 1..Len(S) + 1 |-> IF i = 1 THEN A[i] ELSE G[i - 1] \o A[i]]
  <2>1. G = [i \in 1..Len(A) |-> IF i = 1 THEN A[i] ELSE G[i - 1] \o A[i]] BY <1>11, FlatsExist
  <2> QED BY <2>1, <1>1
<1>4. FlattenSeq(A) = G[Len(S) + 1] BY <1>1, FlattenIs
<1>10. \A k \in 1..Len(S) : F[k] \in Seq(X) BY FlatIsSeq
<1> HIDE DEF F, G
<1>5. 0 \in P OBVIOUS
<1>6. ASSUME NEW k \in P PROVE k + 1 \in P
  <2> SUFFICES ASSUME k + 1 \in 1..Len(S) PROVE G[k + 1] = F[k + 1] OBVIOUS
  <2>1. CASE k = 0 BY <1>1, <1>2, <1>3, <2>1
  <2>2. CASE k /= 0
    <3>1. G[k] = F[k] BY <2>2
    <3>2. (k + 1) - 1 = k /\ k + 1 /= 1 /\ k + 1 \in 1..Len(S) + 1 BY <2>2
    <3>3. F[k + 1] = F[k] \o S[k + 1] BY <1>2, <3>2
    <3>4. G[k + 1] = G[k] \o A[k + 1] BY <1>3, <3>2
    <3> QED BY <1>1, <3>1, <3>3, <3>4
  <2> QED BY <2>1, <2>2
<1>7. P = Nat
  <2> HIDE DEF P
  <2>1. P \subseteq Nat BY DEF P
  <2> QED BY <1>5, <1>6, <2>1, Inductive
<1>8. CASE S = << >>
  <2>1. FlattenSeq(S) = << >> BY <1>8 DEF FlattenSeq
  <2>2. G[Len(S) + 1] = s BY <1>1, <1>3, <1>8
  <2> QED BY <1>4, <2>1, <2>2 DEF A
<1>9. CASE S /= << >>
  <2>1. Len(S) \in 1..Len(S) /\ Len(S) /= 0 /\ Len(S) + 1 /= 1 /\ (Len(S) + 1) - 1 = Len(S) BY <1>9
  <2>2. FlattenSeq(S) = F[Len(S)] BY <2>1, FlattenIs DEF F
  <2>3. G[Len(S)] = F[Len(S)]
    <3>1. Len(S) \in P BY <1>7, <1>11
    <3> QED BY <2>1, <3>1
  <2>4. G[Len(S) + 1] = G[Len(S)] \o A[Len(S) + 1]
    <3>1. Len(S) + 1 \in 1..Len(S) + 1 BY <1>11
    <3> QED BY <1>3, <2>1, <3>1
  <2> QED BY <1>1, <1>4, <2>2, <2>3, <2>4 DEF A
<1> QED BY <1>8, <1>9

------------------------------------------------------------------------------
TextShape(t) == t /= << >> /\ t \in Seq(Range(t)) /\ \A i \in DOMAIN t : IsLine(t[i])

\* What the lemmas on places need of a text.
LEMMA TextIsShaped ==
    ASSUME NEW t, IsText(t)
    PROVE  TextShape(t)
BY DEF IsText, TextShape

\* The tokens of a line with the line they are on.
OnLine(t, i) ==
    [k \in DOMAIN t[i].toks |->
        [id |-> t[i].toks[k].id, more |-> t[i].toks[k].more, line |-> i]]
Rows(t) == [i \in DOMAIN t |-> OnLine(t, i)]
PlacedToks == [id : STRING, more : Nat, line : Nat]

\* The placed tokens of a text are those of its lines, one after the other.
LEMMA PlacedIs ==
    ASSUME NEW t
    PROVE  Placed(t) = FlattenSeq(Rows(t))
BY DEF Placed, Rows, OnLine

\* They are sequences, one for each line.
LEMMA RowsAreSeqs ==
    ASSUME NEW t, TextShape(t)
    PROVE  Rows(t) \in Seq(Seq(PlacedToks)) /\ Len(Rows(t)) = Len(t)
<1>1. DOMAIN t = 1..Len(t) /\ Len(t) \in Nat BY DEF TextShape
<1>2. ASSUME NEW i \in DOMAIN t PROVE OnLine(t, i) \in Seq(PlacedToks)
  <2>1. t[i].toks \in Seq(Toks) BY DEF TextShape, IsLine
  <2> DEFINE q == t[i].toks
  <2>2. DOMAIN q = 1..Len(q) /\ Len(q) \in Nat BY <2>1
  <2>3. ASSUME NEW k \in DOMAIN q
        PROVE  [id |-> q[k].id, more |-> q[k].more, line |-> i] \in PlacedToks
    <3>1. q[k] \in Toks BY <2>1, <2>2
    <3>2. i \in Nat BY <1>1
    <3> QED BY <3>1, <3>2 DEF Toks, PlacedToks
  <2>4. OnLine(t, i) = [k \in 1..Len(q) |-> [id |-> q[k].id, more |-> q[k].more, line |-> i]]
    BY <2>2 DEF OnLine
  <2> HIDE DEF q
  <2>5. OnLine(t, i) \in [1..Len(q) -> PlacedToks] BY <2>2, <2>3, <2>4
  <2> QED BY <2>2, <2>5, SeqDef
<1>3. Rows(t) = [i \in 1..Len(t) |-> OnLine(t, i)] BY <1>1 DEF Rows
<1> QED BY <1>1, <1>2, <1>3

\* What is planned depends on the tokens of the lines alone.
LEMMA SameToksSamePlaces ==
    ASSUME NEW t, NEW u, DOMAIN t = DOMAIN u, \A i \in DOMAIN t : t[i].toks = u[i].toks
    PROVE  Placed(t) = Placed(u)
<1>1. \A i \in DOMAIN t : OnLine(t, i) = OnLine(u, i) BY DEF OnLine
<1>2. Rows(t) = Rows(u) BY <1>1 DEF Rows
<1> QED BY <1>2, PlacedIs

\* Append as a function of the places.
LEMMA AppendIs ==
    ASSUME NEW X, NEW s \in Seq(X), NEW x \in X
    PROVE  Append(s, x) = [i \in 1..Len(s) + 1 |-> IF i = Len(s) + 1 THEN x ELSE s[i]]
<1> DEFINE a == Append(s, x)
<1>1. /\ a \in Seq(X) /\ Len(a) = Len(s) + 1 /\ Len(s) \in Nat /\ a[Len(s) + 1] = x
      /\ \A i \in 1..Len(s) : a[i] = s[i]
  OBVIOUS
<1> HIDE DEF a
<1>2. a = [i \in 1..Len(s) + 1 |-> a[i]] BY <1>1
<1>3. \A i \in 1..Len(s) + 1 : i = Len(s) + 1 \/ i \in 1..Len(s) BY <1>1
<1>4. \A i \in 1..Len(s) + 1 : a[i] = IF i = Len(s) + 1 THEN x ELSE s[i] BY <1>1, <1>3
<1> QED BY <1>2, <1>4 DEF a

\* An empty line at the end, as a final newline leaves it, adds no token.
LEMMA EmptyLineHasNoPlace ==
    ASSUME NEW t, TextShape(t)
    PROVE  Placed(Append(t, EmptyLine)) = Placed(t)
<1> DEFINE u == Append(t, EmptyLine)
           n == Len(t)
<1>1. /\ n \in Nat /\ DOMAIN t = 1..n /\ DOMAIN u = 1..n + 1
      /\ u[n + 1] = EmptyLine /\ \A i \in 1..n : u[i] = t[i]
  BY DEF TextShape
<1>2. Rows(t) \in Seq(Seq(PlacedToks)) /\ Len(Rows(t)) = n BY RowsAreSeqs
<1> HIDE DEF u
<1>3. OnLine(u, n + 1) = << >>
  <2>3a. EmptyLine.toks = << >> BY DEF EmptyLine, Line
  <2>1. u[n + 1].toks = << >> BY <1>1, <2>3a
  <2>2. DOMAIN u[n + 1].toks = {} BY <2>1
  <2>3. OnLine(u, n + 1) = [k \in {} |-> [id |-> u[n + 1].toks[k].id, more |-> u[n + 1].toks[k].more, line |-> n + 1]]
    BY <2>2 DEF OnLine
  <2> QED BY <2>3
<1>4. Rows(u) = Append(Rows(t), << >>)
  <2>1. \A i \in 1..n : OnLine(u, i) = OnLine(t, i) BY <1>1 DEF OnLine
  <2>2. Rows(u) = [i \in 1..n + 1 |-> OnLine(u, i)] BY <1>1 DEF Rows
  <2>3. Rows(t) = [i \in 1..n |-> OnLine(t, i)] BY <1>1 DEF Rows
  <2>4. Append(Rows(t), << >>) = [i \in 1..n + 1 |-> IF i = n + 1 THEN << >> ELSE Rows(t)[i]]
    <3> DEFINE R == Rows(t)
           X == Seq(PlacedToks)
    <3>1. R \in Seq(X) /\ Len(R) = n /\ << >> \in X BY <1>2
    <3> HIDE DEF R, X
    <3>2. Append(R, << >>) = [i \in 1..Len(R) + 1 |-> IF i = Len(R) + 1 THEN << >> ELSE R[i]]
      BY <3>1, AppendIs
    <3> QED BY <3>1, <3>2 DEF R
  <2>5. \A i \in 1..n + 1 : i = n + 1 \/ i \in 1..n BY <1>1
  <2>6. \A i \in 1..n + 1 : OnLine(u, i) = IF i = n + 1 THEN << >> ELSE Rows(t)[i]
    BY <1>3, <2>1, <2>3, <2>5
  <2> QED BY <2>2, <2>4, <2>6
<1>5. FlattenSeq(Append(Rows(t), << >>)) = FlattenSeq(Rows(t)) \o << >>
  <2>1. << >> \in Seq(PlacedToks) OBVIOUS
  <2> QED BY <1>2, <2>1, FlattenAppend
<1>6. FlattenSeq(Rows(t)) \in Seq(PlacedToks) BY <1>2, FlattenIsSeq
<1>7. FlattenSeq(Rows(t)) \o << >> = FlattenSeq(Rows(t)) BY <1>6
<1> QED BY <1>4, <1>5, <1>7, PlacedIs DEF u

\* New blanks ...
Blanked(l, x, y) == [l EXCEPT !.lead = x, !.trail = y]

\* ... leave the rest of a line.
LEMMA BlanksOfLine ==
    ASSUME NEW l, l = Line(l.lead, l.inner, l.toks, l.trail), NEW x, NEW y
    PROVE  Blanked(l, x, y) = Line(x, l.inner, l.toks, y)
<1> DEFINE a == l.lead
           b == l.inner
           c == l.toks
           d == l.trail
<1>1. l = [lead |-> a, inner |-> b, toks |-> c, trail |-> d] BY DEF Line
<1> HIDE DEF a, b, c, d
<1>2. [l EXCEPT !.lead = x] = [lead |-> x, inner |-> b, toks |-> c, trail |-> d] BY <1>1
<1> DEFINE m == [l EXCEPT !.lead = x]
<1>3. [l EXCEPT !.lead = x, !.trail = y] = [m EXCEPT !.trail = y] BY <1>1
<1>5. m = [lead |-> x, inner |-> b, toks |-> c, trail |-> d] BY <1>2
<1> HIDE DEF m
<1>4. [m EXCEPT !.trail = y] = [lead |-> x, inner |-> b, toks |-> c, trail |-> y] BY <1>5
<1> QED BY <1>3, <1>4 DEF Blanked, Line, b, c

\* The parts of a line.
LEMMA PartsOfLine ==
    ASSUME NEW x, NEW b, NEW c, NEW y
    PROVE  LET k == Line(x, b, c, y)
           IN  k.lead = x /\ k.inner = b /\ k.toks = c /\ k.trail = y
BY DEF Line

\* An indent takes a number of columns.
LEMMA ColumnsAreNumbers ==
    ASSUME NEW o, o.size \in Nat, NEW n \in Nat
    PROVE  Columns(o, n) \in Nat
<1> DEFINE w == Min({o.size, 16})
<1>1. w \in Nat
  <2>1. CASE o.size <= 16
    <3>1. w = o.size BY <2>1 DEF Min
    <3> QED BY <3>1
  <2>2. CASE ~(o.size <= 16)
    <3>1. w = 16 BY <2>2 DEF Min
    <3> QED BY <3>1
  <2> QED BY <2>1, <2>2
<1> HIDE DEF w
<1> QED BY <1>1 DEF Columns, w

\* A formatted line keeps its tokens and is formatted; a locked one is kept.
LEMMA LineFormatted ==
    ASSUME NEW l, IsLine(l), NEW p, NEW o, o.size \in Nat, NEW r
    PROVE  LET f == FormattedLine(l, p, o, r)
           IN  /\ IsLine(f) /\ f.toks = l.toks
               /\ FormattedLine(f, p, o, r) = f
               /\ p.kind = "locked" => f = l
               /\ f.inner = l.inner
               /\ ~o.trim /\ p.kind /= "unset" => f.trail = l.trail
<1> DEFINE blanks == o.trim \/ p.kind = "unset"
           Lead(m) == CASE r /\ p.kind = "code" /\ p.indent \in Nat -> Columns(o, p.indent)
                        [] r /\ p.kind = "comment" /\ p.indent \in Nat /\ m.inner = "*" ->
                              Columns(o, p.indent) + 1
                        [] OTHER -> m.lead
           Trail(m) == IF blanks THEN 0 ELSE m.trail
           Kept(m) == [m EXCEPT !.lead = Lead(m), !.trail = Trail(m)]
           F(m) == FormattedLine(m, p, o, r)
<1>1. IsBlank(EmptyLine) /\ IsLine(EmptyLine) /\ EmptyLine.toks = << >> BY DEF IsBlank, IsLine, EmptyLine, Line
<1>2. ASSUME NEW m, p.kind = "locked" PROVE F(m) = m BY <1>2 DEF FormattedLine
<1>3. ASSUME NEW m, p.kind /= "locked", IsBlank(m) PROVE F(m) = IF blanks THEN EmptyLine ELSE m
  BY <1>3 DEF FormattedLine
<1>4. ASSUME NEW m, p.kind /= "locked", ~IsBlank(m) PROVE F(m) = Kept(m)
  BY <1>4 DEF FormattedLine
<1>5. CASE p.kind = "locked" BY <1>2, <1>5
<1>6. CASE p.kind /= "locked" /\ IsBlank(l)
  <2>1. l.toks = << >> BY <1>6 DEF IsBlank
  <2>2. F(l) = l \/ F(l) = EmptyLine BY <1>3, <1>6
  <2>3. F(F(l)) = F(l) BY <1>1, <1>3, <1>6
  <2>4. EmptyLine.inner = l.inner BY <1>6 DEF IsBlank, EmptyLine, Line
  <2>5. ~o.trim /\ p.kind /= "unset" => F(l) = l BY <1>3, <1>6
  <2> HIDE DEF blanks, F, Kept, Lead, Trail
  <2> QED BY <1>1, <1>6, <2>1, <2>2, <2>3, <2>4, <2>5 DEF F
<1>7. CASE p.kind /= "locked" /\ ~IsBlank(l)
  <2> DEFINE k == Kept(l)
  <2>1. ASSUME NEW m, m = Line(m.lead, m.inner, m.toks, m.trail)
        PROVE  Kept(m) = Line(Lead(m), m.inner, m.toks, Trail(m))
    <3> DEFINE a == Lead(m)
               b == Trail(m)
    <3>1. Kept(m) = Blanked(m, a, b) BY DEF Blanked
    <3> HIDE DEF Lead, Trail, Kept, a, b
    <3>2. Blanked(m, a, b) = Line(a, m.inner, m.toks, b) BY <2>1, BlanksOfLine
    <3> QED BY <3>1, <3>2 DEF a, b
  <2>2. k = Line(Lead(l), l.inner, l.toks, Trail(l)) BY <2>1 DEF IsLine
  <2>3. k.lead = Lead(l) /\ k.inner = l.inner /\ k.toks = l.toks /\ k.trail = Trail(l)
    <3> HIDE DEF k, Lead, Trail
    <3> QED BY <2>2, PartsOfLine
  <2>4. Lead(k) = Lead(l) /\ Trail(k) = Trail(l)
    <3> HIDE DEF k
    <3> QED BY <2>3
  <2>5. Kept(k) = k
    <3>1. k = Line(k.lead, k.inner, k.toks, k.trail)
      <4> HIDE DEF k, Lead, Trail
      <4> QED BY <2>2, <2>3
    <3> HIDE DEF k, Lead, Trail, Kept
    <3> QED BY <2>1, <2>2, <2>3, <2>4, <3>1
  <2>6. ~IsBlank(k)
    <3> HIDE DEF k
    <3> QED BY <1>7, <2>3 DEF IsBlank
  <2>7. IsLine(k)
    <3>1. l.lead \in Nat BY DEF IsLine
    <3>2. Lead(l) \in Nat
      <4>1. p.indent \in Nat => Columns(o, p.indent) \in Nat BY ColumnsAreNumbers
      <4>2. p.indent \in Nat => Columns(o, p.indent) + 1 \in Nat BY <4>1
      <4> QED BY <3>1, <4>1, <4>2
    <3> HIDE DEF k, Lead, Trail
    <3> QED BY <2>2, <2>3, <3>2 DEF IsLine
  <2>8. F(l) = k BY <1>4, <1>7
  <2>9. F(k) = k
    <3> HIDE DEF F, k
    <3>1. F(k) = Kept(k) BY <1>4, <1>7, <2>6
    <3> QED BY <2>5, <3>1
  <2>10. ~o.trim /\ p.kind /= "unset" => Trail(l) = l.trail OBVIOUS
  <2> HIDE DEF k, Trail, Lead, F
  <2> QED BY <1>7, <2>3, <2>7, <2>8, <2>9, <2>10 DEF F
<1> QED BY <1>5, <1>6, <1>7

\* An empty line has nothing to trim or to indent.
LEMMA EmptyLineStays ==
    ASSUME NEW p, NEW o, NEW r
    PROVE  FormattedLine(EmptyLine, p, o, r) = EmptyLine
<1>1. IsBlank(EmptyLine) BY DEF IsBlank, EmptyLine, Line
<1>2. CASE p.kind = "locked" BY <1>2 DEF FormattedLine
<1>3. CASE p.kind /= "locked"
  <2> HIDE DEF EmptyLine
  <2> QED BY <1>1, <1>3 DEF FormattedLine
<1> QED BY <1>2, <1>3

------------------------------------------------------------------------------
\* Functions on 1..n and 1..m that have the same domain are of one length.
LEMMA SameBound ==
    ASSUME NEW m \in Nat, NEW n \in Nat, 1..m = 1..n
    PROVE  m = n
<1>1. m > 0 => m \in 1..n OBVIOUS
<1>2. n > 0 => n \in 1..m OBVIOUS
<1> QED BY <1>1, <1>2

\* Whatever keeps the number of tokens on each line, and lets none grow, leaves
\* a text a text.
LEMMA StaysText ==
    ASSUME NEW t, IsText(t), NEW u, DOMAIN u = DOMAIN t, u = [i \in DOMAIN u |-> u[i]],
           \A i \in DOMAIN t :
              /\ IsLine(u[i]) /\ DOMAIN u[i].toks = DOMAIN t[i].toks
              /\ \A k \in DOMAIN t[i].toks : u[i].toks[k].more \in {t[i].toks[k].more, 0}
    PROVE  IsText(u) /\ Len(u) = Len(t)
<1>1. DOMAIN t = 1..Len(t) /\ Len(t) \in Nat /\ Len(t) > 0 BY DEF IsText
<1>2. u \in Seq(Range(u)) /\ Len(u) = Len(t)
  <2>1. \A i \in 1..Len(t) : u[i] \in Range(u) BY <1>1 DEF Range
  <2>2. u \in [1..Len(t) -> Range(u)] BY <1>1, <2>1
  <2>3. u \in Seq(Range(u)) BY <1>1, <2>2, SeqDef
  <2>4. DOMAIN u = 1..Len(u) /\ Len(u) \in Nat BY <2>3
  <2> QED BY <1>1, <2>3, <2>4
<1>3. u /= << >> BY <1>1, <1>2
<1>4. ASSUME NEW i \in DOMAIN u PROVE Len(u[i].toks) = Len(t[i].toks)
  <2> DEFINE q == u[i].toks
             p == t[i].toks
  <2>1. q \in Seq(Toks) /\ p \in Seq(Toks) BY DEF IsText, IsLine
  <2>2. DOMAIN q = DOMAIN p OBVIOUS
  <2> HIDE DEF q, p
  <2>3. DOMAIN q = 1..Len(q) /\ DOMAIN p = 1..Len(p) /\ Len(p) \in Nat /\ Len(q) \in Nat BY <2>1
  <2>4. Len(q) = Len(p) BY <2>2, <2>3, SameBound
  <2> QED BY <2>4 DEF q, p
<1>5. ASSUME NEW i \in DOMAIN u, t[i].toks = << >> PROVE u[i].toks = << >>
  <2> DEFINE q == u[i].toks
  <2>1. q \in Seq(Toks) BY DEF IsLine
  <2>2. Len(q) = 0 BY <1>4, <1>5
  <2> HIDE DEF q
  <2>3. q = << >> BY <2>1, <2>2
  <2> QED BY <2>3 DEF q
<1>6. ASSUME NEW i \in DOMAIN u, NEW k \in DOMAIN u[i].toks, u[i].toks[k].more > 0
      PROVE  /\ k = Len(u[i].toks)
             /\ i + u[i].toks[k].more <= Len(u)
             /\ \A l \in i + 1..i + u[i].toks[k].more - 1 : u[l].toks = << >>
  <2> DEFINE n == u[i].toks[k].more
  <2>1. n = t[i].toks[k].more /\ k \in DOMAIN t[i].toks BY <1>6
  <2>2. n \in Nat /\ n > 0
    <3>1. u[i].toks \in Seq(Toks) BY DEF IsLine
    <3>2. u[i].toks[k] \in Toks BY <3>1
    <3> QED BY <1>6, <3>2 DEF Toks
  <2>3. k = Len(t[i].toks) /\ i + n <= Len(t) /\ \A l \in i + 1..i + n - 1 : t[l].toks = << >>
    <3>1. i \in DOMAIN t /\ t[i].toks[k].more > 0 BY <2>1, <2>2
    <3> QED BY <2>1, <3>1 DEF IsText
  <2>4. ASSUME NEW l \in i + 1..i + n - 1 PROVE u[l].toks = << >>
    <3> HIDE DEF n
    <3>1. l \in DOMAIN u BY <1>1, <2>2, <2>3
    <3> QED BY <1>5, <2>3, <3>1
  <2> HIDE DEF n
  <2> QED BY <1>2, <1>4, <2>3, <2>4 DEF n
<1> QED BY <1>2, <1>3, <1>6 DEF IsText

\* An empty line at the end leaves a text a text.
LEMMA EmptyLineStaysText ==
    ASSUME NEW t, IsText(t)
    PROVE  IsText(Append(t, EmptyLine)) /\ Len(Append(t, EmptyLine)) = Len(t) + 1
<1> DEFINE u == Append(t, EmptyLine)
           X == Range(t) \cup {EmptyLine}
<1>1. /\ u \in Seq(X) /\ Len(u) = Len(t) + 1 /\ DOMAIN t = 1..Len(t) /\ Len(t) \in Nat
      /\ u[Len(t) + 1] = EmptyLine /\ \A i \in 1..Len(t) : u[i] = t[i]
  <2>1. t \in Seq(X) /\ EmptyLine \in X BY DEF IsText
  <2> HIDE DEF X
  <2> QED BY <2>1
<1> HIDE DEF u, X
<1>2. u \in Seq(Range(u)) /\ u /= << >>
  <2>1. DOMAIN u = 1..Len(t) + 1 BY <1>1
  <2>2. u = [i \in 1..Len(t) + 1 |-> u[i]] BY <1>1
  <2>3. \A i \in 1..Len(t) + 1 : u[i] \in Range(u) BY <2>1 DEF Range
  <2>4. u \in [1..Len(t) + 1 -> Range(u)] BY <2>2, <2>3
  <2>5. Len(t) + 1 \in Nat BY <1>1
  <2>6. u \in Seq(Range(u)) BY <2>4, <2>5, SeqDef
  <2> QED BY <1>1, <2>6
<1>3. IsLine(EmptyLine) /\ DOMAIN EmptyLine.toks = {}
  <2>1. EmptyLine.toks = << >> BY DEF EmptyLine, Line
  <2>2. IsLine(EmptyLine) BY DEF IsLine, EmptyLine, Line
  <2> QED BY <2>1, <2>2
<1>4. ASSUME NEW i \in DOMAIN u
      PROVE  /\ IsLine(u[i])
             /\ \A k \in DOMAIN u[i].toks : u[i].toks[k].more > 0 =>
                   /\ k = Len(u[i].toks)
                   /\ i + u[i].toks[k].more <= Len(u)
                   /\ \A l \in i + 1..i + u[i].toks[k].more - 1 : u[l].toks = << >>
  <2>1. CASE i = Len(t) + 1 BY <1>1, <1>3, <2>1
  <2>2. CASE i \in 1..Len(t)
    <3>1. u[i] = t[i] /\ IsLine(t[i]) BY <1>1, <2>2 DEF IsText
    <3>2. ASSUME NEW k \in DOMAIN t[i].toks, t[i].toks[k].more > 0
          PROVE  /\ k = Len(t[i].toks) /\ i + t[i].toks[k].more <= Len(u)
                 /\ \A l \in i + 1..i + t[i].toks[k].more - 1 : u[l].toks = << >>
      <4> DEFINE n == t[i].toks[k].more
      <4>1. k = Len(t[i].toks) /\ i + n <= Len(t) /\ \A l \in i + 1..i + n - 1 : t[l].toks = << >>
        BY <1>1, <2>2, <3>2 DEF IsText
      <4>2. n \in Nat
        <5>1. t[i].toks \in Seq(Toks) BY <3>1 DEF IsLine
        <5>2. t[i].toks[k] \in Toks BY <5>1
        <5> QED BY <5>2 DEF Toks
      <4> HIDE DEF n
      <4>3. \A l \in i + 1..i + n - 1 : l \in 1..Len(t) BY <1>1, <2>2, <4>1, <4>2
      <4>4. i + n <= Len(u) BY <1>1, <2>2, <4>1, <4>2
      <4> QED BY <1>1, <4>1, <4>3, <4>4 DEF n
    <3> QED BY <3>1, <3>2
  <2>3. i = Len(t) + 1 \/ i \in 1..Len(t) BY <1>1
  <2> QED BY <2>1, <2>2, <2>3
<1>5. IsText(u) BY <1>2, <1>4 DEF IsText
<1> QED BY <1>1, <1>5 DEF u

------------------------------------------------------------------------------
\* The lines of a range, formatted.
LEMMA RangeFormats ==
    ASSUME NEW t, IsText(t), NEW o, o.size \in Nat, NEW a, NEW b
    PROVE  LET f == FormattedRange(t, o, a, b)
           IN  /\ IsText(f) /\ Len(f) = Len(t)
               /\ Placed(f) = Placed(t)
               /\ FormattedRange(f, o, a, b) = f
<1> DEFINE f == FormattedRange(t, o, a, b)
           p == Plan(t)
           r == o.reindent /\ CanReindent(t)
           F(i, l) == FormattedLine(l, PlanOf(p, i), o, r)
<1>1. f = [i \in DOMAIN t |-> IF i \in a..b THEN F(i, t[i]) ELSE t[i]] BY DEF FormattedRange
<1>2. ASSUME NEW i \in DOMAIN t
      PROVE  IsLine(F(i, t[i])) /\ F(i, t[i]).toks = t[i].toks /\ F(i, F(i, t[i])) = F(i, t[i])
  <2>1. IsLine(t[i]) BY DEF IsText
  <2> HIDE DEF p, r
  <2> QED BY <2>1, LineFormatted
<1> HIDE DEF F
<1>3. \A i \in DOMAIN t : IsLine(f[i]) /\ f[i].toks = t[i].toks
  <2>1. \A i \in DOMAIN t : IsLine(t[i]) BY DEF IsText
  <2> HIDE DEF f
  <2> QED BY <1>1, <1>2, <2>1
<1>4. DOMAIN f = DOMAIN t /\ f = [i \in DOMAIN f |-> f[i]]
  <2> HIDE DEF f
  <2> QED BY <1>1
<1>5. IsText(f) /\ Len(f) = Len(t)
  <2> HIDE DEF f
  <2> QED BY <1>3, <1>4, StaysText
<1>6. Placed(f) = Placed(t)
  <2> HIDE DEF f
  <2> QED BY <1>3, <1>4, SameToksSamePlaces
<1>7. Plan(f) = p /\ (o.reindent /\ CanReindent(f)) = r BY <1>6 DEF Plan, CanReindent
<1>8. FormattedRange(f, o, a, b) = [i \in DOMAIN f |-> IF i \in a..b THEN F(i, f[i]) ELSE f[i]]
  <2> HIDE DEF f, p, r
  <2> QED BY <1>7 DEF FormattedRange, F
<1>9. \A i \in DOMAIN t : (IF i \in a..b THEN F(i, f[i]) ELSE f[i]) = f[i]
  <2> HIDE DEF f
  <2> QED BY <1>1, <1>2
<1>10. FormattedRange(f, o, a, b) = f
  <2> HIDE DEF f
  <2> QED BY <1>4, <1>8, <1>9
<1> HIDE DEF f
<1> QED BY <1>5, <1>6, <1>10 DEF f

\* What is written behind the last line is planned for nothing.
LEMMA FinishedStays ==
    ASSUME NEW f, IsText(f), NEW o, FormattedRange(f, o, 1, Len(f)) = f
    PROVE  LET F == Finished(f, o)
           IN  /\ IsText(F)
               /\ FormattedRange(F, o, 1, Len(F)) = F
               /\ Finished(F, o) = F
<1>1. DOMAIN f = 1..Len(f) /\ Len(f) \in Nat /\ Len(f) > 0 BY DEF IsText
<1> DEFINE F == Finished(f, o)
           u == Append(f, EmptyLine)
<1>2. CASE ~(o.final /\ (Len(f) = 1 \/ Last(f) /= EmptyLine))
  <2>1. F = f BY <1>2 DEF Finished
  <2>2. Finished(f, o) = f BY <1>2 DEF Finished
  <2> HIDE DEF F
  <2> QED BY <2>1, <2>2 DEF F
<1>3. CASE o.final /\ (Len(f) = 1 \/ Last(f) /= EmptyLine)
  <2>1. F = u BY <1>3 DEF Finished
  <2>2. IsText(u) /\ Len(u) = Len(f) + 1 BY EmptyLineStaysText
  <2>3. Placed(u) = Placed(f) BY TextIsShaped, EmptyLineHasNoPlace
  <2>4. /\ u[Len(f) + 1] = EmptyLine /\ \A i \in 1..Len(f) : u[i] = f[i]
        /\ DOMAIN u = 1..Len(f) + 1 /\ u = [i \in 1..Len(f) + 1 |-> u[i]]
    <3> DEFINE X == Range(f) \cup {EmptyLine}
    <3>1. f \in Seq(X) /\ EmptyLine \in X BY DEF IsText
    <3> HIDE DEF X
    <3>2. u \in Seq(X) /\ u[Len(f) + 1] = EmptyLine /\ \A i \in 1..Len(f) : u[i] = f[i] BY <3>1
    <3> HIDE DEF u
    <3>3. u = [i \in 1..Len(u) |-> u[i]] /\ DOMAIN u = 1..Len(u) BY <3>2
    <3> QED BY <2>2, <3>2, <3>3
  <2>5. Last(u) = EmptyLine /\ Len(u) /= 1
    <3> HIDE DEF u
    <3> QED BY <1>1, <2>2, <2>4 DEF Last
  <2>6. Finished(u, o) = u
    <3> HIDE DEF u
    <3> QED BY <2>5 DEF Finished
  <2>7. FormattedRange(u, o, 1, Len(u)) = u
    <3> DEFINE p == Plan(f)
               r == o.reindent /\ CanReindent(f)
               G(i, l) == FormattedLine(l, PlanOf(p, i), o, r)
    <3> HIDE DEF u
    <3>1. Plan(u) = p /\ (o.reindent /\ CanReindent(u)) = r BY <2>3 DEF Plan, CanReindent
    <3>2. FormattedRange(f, o, 1, Len(f)) = [i \in 1..Len(f) |-> IF i \in 1..Len(f) THEN G(i, f[i]) ELSE f[i]]
      BY <1>1 DEF FormattedRange
    <3>3. FormattedRange(u, o, 1, Len(u)) = [i \in 1..Len(f) + 1 |-> IF i \in 1..Len(f) + 1 THEN G(i, u[i]) ELSE u[i]]
      <4> HIDE DEF p, r
      <4> QED BY <2>2, <2>4, <3>1 DEF FormattedRange
    <3>4. G(Len(f) + 1, EmptyLine) = EmptyLine BY EmptyLineStays
    <3> HIDE DEF G
    <3>5. \A i \in 1..Len(f) : G(i, f[i]) = f[i] BY <3>2
    <3>6. \A i \in 1..Len(f) + 1 : i = Len(f) + 1 \/ i \in 1..Len(f) BY <1>1
    <3>7. \A i \in 1..Len(f) + 1 : G(i, u[i]) = u[i] BY <2>4, <3>4, <3>5, <3>6
    <3> QED BY <2>4, <3>3, <3>7
  <2> HIDE DEF F, u
  <2> QED BY <2>1, <2>2, <2>6, <2>7 DEF F
<1> QED BY <1>2, <1>3

\* A formatted text is a text, and formatting it again changes nothing.
LEMMA FormattedSettles ==
    ASSUME NEW t, IsText(t), NEW o, o.size \in Nat
    PROVE  IsText(Formatted(t, o)) /\ Settled(Formatted(t, o), o)
<1> DEFINE f == FormattedRange(t, o, 1, Len(t))
           F == Finished(f, o)
<1>1. IsText(f) /\ Len(f) = Len(t) /\ FormattedRange(f, o, 1, Len(f)) = f
  <2>1. IsText(f) /\ Len(f) = Len(t) BY RangeFormats
  <2>2. FormattedRange(f, o, 1, Len(t)) = f BY RangeFormats
  <2> HIDE DEF f
  <2> QED BY <2>1, <2>2
<1>2. IsText(F) /\ FormattedRange(F, o, 1, Len(F)) = F /\ Finished(F, o) = F
  <2> HIDE DEF f
  <2> QED BY <1>1, FinishedStays
<1>3. Formatted(t, o) = F BY DEF Formatted
<1> HIDE DEF F
<1>4. Formatted(F, o) = F BY <1>2 DEF Formatted
<1>5. Max({1, Len(F)}) = Len(F)
  <2>1. Len(F) \in Nat /\ Len(F) > 0 BY <1>2 DEF IsText
  <2>2. {1, Len(F)} \in SUBSET (0..Len(F)) /\ {1, Len(F)} /= {} BY <2>1
  <2>3. Max({1, Len(F)}) \in {1, Len(F)} /\ \A y \in {1, Len(F)} : y <= Max({1, Len(F)})
    BY <2>1, <2>2, GreatestExists
  <2> QED BY <2>1, <2>3
<1>6. RangeFormatted(F, o, 1, Len(F), FALSE) = F BY <1>2, <1>5 DEF RangeFormatted
<1> QED BY <1>2, <1>3, <1>4, <1>6 DEF Settled

------------------------------------------------------------------------------
\* Every element of the whole comes from one of the sequences, in their order.
Taken(S, F, a, p, j) == a \in 1..Len(S) /\ p \in 1..Len(S[a]) /\ F[j] = S[a][p]
Ordered(S, F) ==
    \A j, k \in 1..Len(F) : j < k =>
        \E a, b, p, q \in Nat :
            /\ Taken(S, F, a, p, j) /\ Taken(S, F, b, q, k)
            /\ a < b \/ (a = b /\ p < q)

\* What is put together keeps the order of the sequences and of each.
LEMMA FlatOrder ==
    ASSUME NEW X, NEW S \in Seq(Seq(X))
    PROVE  /\ Ordered(S, FlattenSeq(S))
           /\ \A j \in 1..Len(FlattenSeq(S)) : \E a, p \in Nat : Taken(S, FlattenSeq(S), a, p, j)
<1> DEFINE G == Flats(S)
           One(n) == \A j \in 1..Len(G[n]) : \E a, p \in Nat : a <= n /\ Taken(S, G[n], a, p, j)
           Two(n) == Ordered(S, G[n])
           P == {n \in Nat : n \in 1..Len(S) => One(n) /\ Two(n)}
<1>1. Len(S) \in Nat OBVIOUS
<1>2. G = [i \in 1..Len(S) |-> IF i = 1 THEN S[i] ELSE G[i - 1] \o S[i]] BY <1>1, FlatsExist
<1>3. \A n \in 1..Len(S) : G[n] \in Seq(X) /\ S[n] \in Seq(X) BY FlatIsSeq
<1> HIDE DEF G
<1>4. ASSUME NEW n \in 1..Len(S), n = 1 PROVE One(n) /\ Two(n)
  <2>1. G[n] = S[n] BY <1>2, <1>4
  <2>2. \A j \in 1..Len(G[n]) : j \in Nat /\ n \in Nat /\ Taken(S, G[n], n, j, j) BY <2>1 DEF Taken
  <2>3. One(n)
    <3> QED BY <1>4, <2>2
  <2>4. Two(n)
    <3> QED BY <2>2 DEF Ordered
  <2> QED BY <2>3, <2>4
<1>5. ASSUME NEW m \in 1..Len(S), m + 1 \in 1..Len(S), One(m), Two(m) PROVE One(m + 1) /\ Two(m + 1)
  <2> DEFINE g == G[m]
             h == G[m + 1]
             s == S[m + 1]
  <2>1. h = g \o s
    <3>1. (m + 1) - 1 = m /\ m + 1 /= 1 BY <1>1
    <3> QED BY <1>2, <1>5, <3>1
  <2>2. g \in Seq(X) /\ s \in Seq(X) BY <1>3, <1>5
  <2>3. /\ Len(h) = Len(g) + Len(s) /\ Len(g) \in Nat /\ Len(s) \in Nat /\ m \in Nat
        /\ \A j \in 1..Len(g) : h[j] = g[j]
        /\ \A j \in 1..Len(s) : h[Len(g) + j] = s[j]
    <3> HIDE DEF h, g, s
    <3> QED BY <2>1, <2>2
  <2> HIDE DEF g, h, s
  <2>4. \A j \in 1..Len(g) : \E a, p \in Nat : a <= m /\ Taken(S, h, a, p, j)
    <3>1. \A j \in 1..Len(g) : \E a, p \in Nat : a <= m /\ Taken(S, g, a, p, j) BY <1>5 DEF g
    <3>2. \A j \in 1..Len(g) : \A a, p \in Nat : Taken(S, g, a, p, j) => Taken(S, h, a, p, j)
      BY <2>3 DEF Taken
    <3> QED BY <3>1, <3>2
  <2>5. \A j \in 1..Len(h) : j \notin 1..Len(g) => j - Len(g) \in Nat /\ Taken(S, h, m + 1, j - Len(g), j)
    <3> SUFFICES ASSUME NEW j \in 1..Len(h), j \notin 1..Len(g)
                 PROVE  j - Len(g) \in Nat /\ Taken(S, h, m + 1, j - Len(g), j)
      OBVIOUS
    <3>1. j - Len(g) \in 1..Len(s) /\ Len(g) + (j - Len(g)) = j BY <2>3
    <3>2. h[j] = s[j - Len(g)] BY <2>3, <3>1
    <3> QED BY <1>5, <3>1, <3>2 DEF s, Taken
  <2>6. Two(m) /\ \A j \in 1..Len(g) : \A a, p \in Nat : Taken(S, g, a, p, j) => Taken(S, h, a, p, j)
    BY <1>5, <2>3 DEF Taken
  <2>7. One(m + 1)
    <3> SUFFICES ASSUME NEW j \in 1..Len(h) PROVE \E a, p \in Nat : a <= m + 1 /\ Taken(S, h, a, p, j)
      BY DEF h
    <3>1. CASE j \in 1..Len(g)
      <4>1. PICK a \in Nat, p \in Nat : a <= m /\ Taken(S, h, a, p, j) BY <2>4, <3>1
      <4>2. a <= m + 1 BY <2>3, <4>1
      <4> QED BY <4>1, <4>2
    <3>2. CASE j \notin 1..Len(g)
      <4>1. m + 1 \in Nat /\ m + 1 <= m + 1 BY <2>3
      <4> QED BY <2>5, <3>2, <4>1
    <3> QED BY <3>1, <3>2
  <2>8. Two(m + 1)
    <3> SUFFICES ASSUME NEW j \in 1..Len(h), NEW k \in 1..Len(h), j < k
                 PROVE  \E a, b, p, q \in Nat : /\ Taken(S, h, a, p, j) /\ Taken(S, h, b, q, k)
                                                /\ a < b \/ (a = b /\ p < q)
      BY DEF h, Ordered
    <3>1. CASE k \in 1..Len(g)
      <4>1. j \in 1..Len(g) BY <2>3, <3>1
      <4>2. PICK a \in Nat, b \in Nat, p \in Nat, q \in Nat :
               /\ Taken(S, g, a, p, j) /\ Taken(S, g, b, q, k)
               /\ a < b \/ (a = b /\ p < q)
        BY <2>6, <3>1, <4>1 DEF g, Ordered
      <4>3. Taken(S, h, a, p, j) /\ Taken(S, h, b, q, k) BY <2>6, <3>1, <4>1, <4>2
      <4> QED BY <4>2, <4>3
    <3>2. CASE k \notin 1..Len(g) /\ j \in 1..Len(g)
      <4>1. PICK a \in Nat, p \in Nat : a <= m /\ Taken(S, h, a, p, j) BY <2>4, <3>2
      <4>2. k - Len(g) \in Nat /\ Taken(S, h, m + 1, k - Len(g), k) BY <2>5, <3>2
      <4>3. a < m + 1 /\ m + 1 \in Nat BY <2>3, <4>1
      <4> QED BY <4>1, <4>2, <4>3
    <3>3. CASE k \notin 1..Len(g) /\ j \notin 1..Len(g)
      <4>1. k - Len(g) \in Nat /\ Taken(S, h, m + 1, k - Len(g), k) BY <2>5, <3>3
      <4>2. j - Len(g) \in Nat /\ Taken(S, h, m + 1, j - Len(g), j) BY <2>5, <3>3
      <4>3. j - Len(g) < k - Len(g) /\ m + 1 \in Nat BY <2>3
      <4> QED BY <4>1, <4>2, <4>3
    <3> QED BY <3>1, <3>2, <3>3
  <2> QED BY <2>7, <2>8
<1>6. 0 \in P OBVIOUS
<1>7. ASSUME NEW n \in P PROVE n + 1 \in P
  <2> SUFFICES ASSUME n + 1 \in 1..Len(S) PROVE One(n + 1) /\ Two(n + 1) OBVIOUS
  <2>1. CASE n = 0
    <3>1. n + 1 = 1 BY <2>1
    <3> QED BY <1>4, <3>1
  <2>2. CASE n /= 0
    <3>1. n \in 1..Len(S) BY <1>1, <2>2
    <3>2. One(n) /\ Two(n) BY <3>1
    <3> HIDE DEF One, Two
    <3> QED BY <1>5, <3>1, <3>2
  <2> QED BY <2>1, <2>2
<1>8. P = Nat
  <2> HIDE DEF P
  <2>1. P \subseteq Nat BY DEF P
  <2> QED BY <1>6, <1>7, <2>1, Inductive
<1>9. CASE S = << >>
  <2>1. FlattenSeq(S) = << >> BY <1>9 DEF FlattenSeq
  <2>2. 1..Len(FlattenSeq(S)) = {} BY <2>1
  <2> QED BY <2>2 DEF Ordered
<1>10. CASE S /= << >>
  <2>1. Len(S) \in 1..Len(S) /\ Len(S) /= 0 BY <1>10
  <2>2. FlattenSeq(S) = G[Len(S)] BY <2>1, FlattenIs DEF G
  <2>3. One(Len(S)) /\ Two(Len(S))
    <3>1. Len(S) \in P BY <1>1, <1>8
    <3> HIDE DEF One, Two
    <3> QED BY <2>1, <3>1
  <2> QED BY <2>2, <2>3
<1> QED BY <1>9, <1>10

------------------------------------------------------------------------------
\* A token that runs over lines has no other begin before its end, and begins
\* and ends in the text.
InOrder(T, n) ==
    /\ T \in Seq(PlacedToks)
    /\ \A j \in 1..Len(T) : T[j].line > 0
    /\ \A j, k \in 1..Len(T) : j < k => T[j].line + T[j].more <= T[k].line
    /\ \A j \in 1..Len(T) : T[j].line + T[j].more <= n

\* Every token begins where those before it have ended, and ends in the text.
LEMMA TokensInOrder ==
    ASSUME NEW t, IsText(t)
    PROVE  InOrder(Placed(t), Len(t))
<1> DEFINE S == Rows(t)
           T == Placed(t)
<1>1. DOMAIN t = 1..Len(t) /\ Len(t) \in Nat BY DEF IsText
<1>2. S \in Seq(Seq(PlacedToks)) /\ Len(S) = Len(t) BY TextIsShaped, RowsAreSeqs
<1>3. T = FlattenSeq(S) BY PlacedIs
<1>4. T \in Seq(PlacedToks) BY <1>2, <1>3, FlattenIsSeq
<1>5. ASSUME NEW a \in 1..Len(S)
      PROVE  /\ t[a].toks \in Seq(Toks) /\ Len(S[a]) = Len(t[a].toks)
             /\ \A p \in 1..Len(S[a]) : S[a][p].line = a /\ S[a][p].more = t[a].toks[p].more
  <2> DEFINE q == t[a].toks
  <2>1. q \in Seq(Toks) BY <1>1, <1>2 DEF IsText, IsLine
  <2>2. S[a] = [k \in DOMAIN q |-> [id |-> q[k].id, more |-> q[k].more, line |-> a]]
    BY <1>1, <1>2 DEF Rows, OnLine
  <2>3. S[a] \in Seq(PlacedToks) BY <1>2
  <2> DEFINE s == S[a]
  <2> HIDE DEF q, s, S
  <2>4. DOMAIN q = 1..Len(q) /\ DOMAIN s = 1..Len(s) /\ Len(q) \in Nat /\ Len(s) \in Nat BY <2>1, <2>3 DEF s
  <2>5. DOMAIN s = DOMAIN q BY <2>2 DEF s
  <2>6. Len(s) = Len(q) BY <2>4, <2>5, SameBound
  <2>7. \A p \in DOMAIN q : s[p].line = a /\ s[p].more = q[p].more BY <2>2 DEF s
  <2> QED BY <2>1, <2>4, <2>6, <2>7 DEF q, s
<1>6. Ordered(S, T) /\ \A j \in 1..Len(T) : \E a, p \in Nat : Taken(S, T, a, p, j)
  BY <1>2, <1>3, FlatOrder
<1>7. ASSUME NEW j \in 1..Len(T), NEW a \in Nat, NEW p \in Nat, Taken(S, T, a, p, j)
      PROVE  /\ a \in 1..Len(t) /\ p \in 1..Len(t[a].toks) /\ T[j].line = a /\ T[j].more \in Nat
             /\ T[j].more = t[a].toks[p].more
  <2> HIDE DEF S, T
  <2>1. a \in 1..Len(S) /\ p \in 1..Len(S[a]) /\ T[j] = S[a][p] BY <1>7 DEF Taken
  <2>2. T[j] \in PlacedToks BY <1>4
  <2> QED BY <1>2, <1>5, <2>1, <2>2 DEF PlacedToks
<1>8. ASSUME NEW a \in 1..Len(t), NEW p \in 1..Len(t[a].toks), t[a].toks[p].more > 0
      PROVE  /\ p = Len(t[a].toks) /\ a + t[a].toks[p].more <= Len(t)
             /\ \A l \in a + 1..a + t[a].toks[p].more - 1 : t[l].toks = << >>
  <2>1. p \in DOMAIN t[a].toks BY <1>2, <1>5
  <2> QED BY <1>1, <1>8, <2>1 DEF IsText
<1> HIDE DEF S, T
<1>9. ASSUME NEW j \in 1..Len(T) PROVE T[j].line + T[j].more <= Len(t)
  <2>1. PICK a \in Nat, p \in Nat : Taken(S, T, a, p, j) BY <1>6
  <2>2. /\ a \in 1..Len(t) /\ p \in 1..Len(t[a].toks) /\ T[j].line = a /\ T[j].more \in Nat
        /\ T[j].more = t[a].toks[p].more
    BY <1>7, <2>1
  <2>3. CASE T[j].more = 0 BY <1>1, <2>2, <2>3
  <2>4. CASE T[j].more > 0 BY <1>8, <2>2, <2>4
  <2> QED BY <2>2, <2>3, <2>4
<1>10. ASSUME NEW j \in 1..Len(T), NEW k \in 1..Len(T), j < k
       PROVE  T[j].line + T[j].more <= T[k].line
  <2>1. PICK a \in Nat, b \in Nat, p \in Nat, q \in Nat :
           /\ Taken(S, T, a, p, j) /\ Taken(S, T, b, q, k)
           /\ a < b \/ (a = b /\ p < q)
    BY <1>6, <1>10 DEF Ordered
  <2>2. /\ a \in 1..Len(t) /\ p \in 1..Len(t[a].toks) /\ T[j].line = a /\ T[j].more \in Nat
        /\ T[j].more = t[a].toks[p].more
    BY <1>7, <2>1
  <2>3. b \in 1..Len(t) /\ q \in 1..Len(t[b].toks) /\ T[k].line = b BY <1>7, <2>1
  <2>4. CASE T[j].more = 0 BY <2>1, <2>2, <2>3, <2>4
  <2>5. CASE T[j].more > 0
    <3> DEFINE m == T[j].more
    <3>1. p = Len(t[a].toks) /\ \A l \in a + 1..a + m - 1 : t[l].toks = << >>
      BY <1>8, <2>2, <2>5
    <3>2. a < b
      <4>1. CASE a < b BY <4>1
      <4>2. CASE a = b /\ p < q
        <5>1. q \in 1..p BY <2>3, <3>1, <4>2
        <5> QED BY <2>2, <4>2, <5>1
      <4> QED BY <2>1, <4>1, <4>2
    <3>3. t[b].toks /= << >> BY <2>3
    <3>4. b \notin a + 1..a + m - 1 BY <3>1, <3>3
    <3>5. T[k].line = b /\ T[j].line = a /\ a \in Nat /\ b \in Nat /\ m \in Nat BY <2>2, <2>3
    <3> HIDE DEF m
    <3>6. a + m <= b BY <3>2, <3>4, <3>5
    <3> QED BY <3>5, <3>6 DEF m
  <2> QED BY <2>2, <2>4, <2>5
<1>11. ASSUME NEW j \in 1..Len(T) PROVE T[j].line > 0
  <2>1. PICK a \in Nat, p \in Nat : Taken(S, T, a, p, j) BY <1>6
  <2>2. a \in 1..Len(t) /\ T[j].line = a BY <1>7, <2>1
  <2> QED BY <1>1, <2>2
<1> QED BY <1>4, <1>9, <1>10, <1>11 DEF InOrder, T

------------------------------------------------------------------------------
\* The pass over the tokens: the state after a token is that before it, with
\* what the token makes of it.
LEMMA PassedIs ==
    ASSUME NEW T, Len(T) \in Nat
    PROVE  Passed(T) = [i \in 0..Len(T) |-> IF i = 0 THEN Start ELSE PlanToken(T, Passed(T)[i - 1], i)]
<1> DEFINE Step(g, i) == IF i = 0 THEN Start ELSE PlanToken(T, g[i - 1], i)
           IsPass(g, n) == g = [i \in 0..n |-> Step(g, i)]
           P == {n \in Nat : \E g : IsPass(g, n)}
<1>1. 0 \in P
  <2> DEFINE g == [i \in 0..0 |-> Start]
  <2>1. IsPass(g, 0) OBVIOUS
  <2> HIDE DEF IsPass, g
  <2> QED BY <2>1
<1>2. ASSUME NEW n \in P PROVE n + 1 \in P
  <2>1. PICK g : IsPass(g, n) OBVIOUS
  <2> DEFINE h == [i \in 0..n + 1 |-> IF i \in 0..n THEN g[i] ELSE PlanToken(T, g[i - 1], i)]
  <2>2. ASSUME NEW i \in 0..n + 1
        PROVE  h[i] = Step(h, i)
    <3>1. i = 0 \/ (i - 1 \in 0..n /\ i - 1 \in 0..n + 1) OBVIOUS
    <3>2. i - 1 \in 0..n => h[i - 1] = g[i - 1] OBVIOUS
    <3>3. i \in 0..n => h[i] = Step(g, i) BY <2>1
    <3>4. i \notin 0..n => h[i] = PlanToken(T, g[i - 1], i) /\ i /= 0 OBVIOUS
    <3> HIDE DEF h
    <3> QED BY <3>1, <3>2, <3>3, <3>4
  <2>3. h = [i \in 0..n + 1 |-> h[i]] OBVIOUS
  <2>4. IsPass(h, n + 1)
    <3> HIDE DEF h, Step
    <3> QED BY <2>2, <2>3
  <2> HIDE DEF IsPass, h
  <2> QED BY <2>4
<1>3. P = Nat
  <2> HIDE DEF P
  <2>1. P \subseteq Nat BY DEF P
  <2> QED BY <1>1, <1>2, <2>1, Inductive
<1>4. \E g : IsPass(g, Len(T)) BY <1>3
<1> QED BY <1>4 DEF Passed

\* A plan after some tokens: no line is planned behind their ends, and the
\* lines that a string, a heredoc or markup runs over are locked.
PlanLocks(T, i, plan) ==
    /\ \A l \in DOMAIN plan : \E j \in 1..i : l <= T[j].line + T[j].more
    /\ \A j \in 1..i : T[j].id \in Locking =>
          \A l \in T[j].line + 1..T[j].line + T[j].more : l \in DOMAIN plan /\ plan[l] = Locked

\* One token: lines up to its own stay locked, it locks its own.
LEMMA TokenLocks ==
    ASSUME NEW n \in Nat, NEW T, InOrder(T, n), NEW i \in 1..Len(T), NEW s,
           PlanLocks(T, i - 1, s.plan)
    PROVE  PlanLocks(T, i, PlanToken(T, s, i).plan)
<1> DEFINE k == T[i]
           b == Begun(T, s, i)
           p == Planned(b, k)
           In == k.line + 1..k.line + k.more
           EndOf(j) == T[j].line + T[j].more
<1>1. PlanToken(T, s, i).plan = p BY DEF PlanToken
<1>2. Len(T) \in Nat /\ \A j \in 1..Len(T) : T[j] \in PlacedToks BY DEF InOrder
<1>3. k.line \in Nat /\ k.more \in Nat BY <1>2 DEF PlacedToks
<1>4. \A j \in 1..i - 1 : j \in 1..Len(T) /\ EndOf(j) <= k.line BY <1>2 DEF InOrder
<1>5. \A j \in 1..i : j = i \/ j \in 1..i - 1 BY <1>2
<1>6. /\ \A l \in DOMAIN b : l = k.line \/ l \in DOMAIN s.plan
      /\ \A l \in DOMAIN s.plan : l \in DOMAIN b /\ b[l] = s.plan[l]
  <2> DEFINE c == [kind |-> "code", indent |-> Min({Max({Units(T, s, i), 0}), MaxIndentUnits})]
  <2>1. b = Marked(s.plan, {k.line}, c) \/ b = s.plan BY DEF Begun
  <2> HIDE DEF b, c, k
  <2> QED BY <2>1 DEF Marked
<1>7. ASSUME NEW x
      PROVE  LET q == Interior(b, k, x)
             IN  /\ DOMAIN q = DOMAIN b \cup In
                 /\ \A l \in DOMAIN b : q[l] = b[l]
                 /\ \A l \in In : l \notin DOMAIN b => q[l] = x
  <2>1. Interior(b, k, x) = Marked(b, In, x) BY DEF Interior
  <2> HIDE DEF In, b, k
  <2> QED BY <2>1 DEF Marked
\* What was planned stays, or is locked
<1>8. /\ \A l \in DOMAIN b : l \in DOMAIN p /\ (p[l] = b[l] \/ p[l] = Locked)
      /\ \A l \in DOMAIN p : l \in DOMAIN b \/ l = k.line \/ l \in In
      /\ k.id \in Locking => \A l \in In : l \in DOMAIN p /\ (l \notin DOMAIN b => p[l] = Locked)
  <2> DEFINE own == PlanOf(b, k.line)
             comment == [kind |-> "comment", indent |-> IF own.kind = "code" THEN own.indent ELSE -1]
             C == Interior(b, k, comment)
             L == Interior(b, k, Locked)
  <2>1. k.id \in Comments => k.id \notin Locking /\ k.id /= "html" BY DEF Comments, Locking
  <2>2. CASE k.id \in Comments
    <3>1. p = C BY <2>2, <2>1 DEF Planned
    <3>2. /\ DOMAIN C = DOMAIN b \cup In
          /\ \A l \in DOMAIN b : C[l] = b[l]
      BY <1>7
    <3> HIDE DEF p, C, b, k, In
    <3> QED BY <2>1, <2>2, <3>1, <3>2
  <2>3. CASE k.id = "html" /\ own.kind = "code"
    <3>1. p = [L EXCEPT ![k.line] = Locked] BY <2>1, <2>3 DEF Planned
    <3>2. /\ DOMAIN L = DOMAIN b \cup In
          /\ \A l \in DOMAIN b : L[l] = b[l]
          /\ \A l \in In : l \notin DOMAIN b => L[l] = Locked
      BY <1>7
    <3> HIDE DEF p, L, b, k, In
    <3>3. /\ DOMAIN p = DOMAIN L
          /\ \A x \in DOMAIN L : p[x] = L[x] \/ p[x] = Locked
      BY <3>1
    <3> QED BY <3>2, <3>3
  <2>4. CASE k.id \in Locking /\ ~(k.id = "html" /\ own.kind = "code")
    <3>1. p = L BY <2>1, <2>4 DEF Planned
    <3>2. /\ DOMAIN L = DOMAIN b \cup In
          /\ \A l \in DOMAIN b : L[l] = b[l]
          /\ \A l \in In : l \notin DOMAIN b => L[l] = Locked
      BY <1>7
    <3> HIDE DEF p, L, b, k, In
    <3> QED BY <3>1, <3>2
  <2>5. CASE k.id \notin Comments /\ k.id \notin Locking
    <3>1. k.id /= "html" BY <2>5 DEF Locking
    <3>2. p = b BY <2>5, <3>1 DEF Planned
    <3> HIDE DEF p, b, k, In
    <3> QED BY <2>5, <3>2
  <2>6. k.id = "html" => k.id \in Locking BY DEF Locking
  <2> QED BY <2>2, <2>3, <2>4, <2>5, <2>6
<1> HIDE DEF p, b
<1>9. \A l \in DOMAIN p : \E j \in 1..i : l <= EndOf(j)
  <2> SUFFICES ASSUME NEW l \in DOMAIN p PROVE \E j \in 1..i : l <= EndOf(j) OBVIOUS
  <2>1. l \in DOMAIN s.plan \/ l = k.line \/ l \in In BY <1>6, <1>8
  <2>2. CASE l \in DOMAIN s.plan
    <3>1. PICK j \in 1..i - 1 : l <= EndOf(j) BY <2>2 DEF PlanLocks
    <3>2. j \in 1..i BY <1>2, <3>1
    <3> QED BY <3>1, <3>2
  <2>3. CASE l = k.line \/ l \in In
    <3>1. l <= EndOf(i) /\ i \in 1..i BY <1>2, <1>3, <2>3
    <3> QED BY <3>1
  <2> QED BY <2>1, <2>2, <2>3
<1>10. ASSUME NEW j \in 1..i, T[j].id \in Locking, NEW l \in T[j].line + 1..T[j].line + T[j].more
       PROVE  l \in DOMAIN p /\ p[l] = Locked
  <2>1. CASE j \in 1..i - 1
    <3>1. l \in DOMAIN s.plan /\ s.plan[l] = Locked BY <1>10, <2>1 DEF PlanLocks
    <3> QED BY <1>6, <1>8, <3>1
  <2>2. CASE j = i
    <3>1. l \in In /\ l \in Nat /\ l > k.line BY <1>3, <2>2
    <3>2. l \notin DOMAIN s.plan
      <4> SUFFICES ASSUME l \in DOMAIN s.plan PROVE FALSE OBVIOUS
      <4>1. PICK m \in 1..i - 1 : l <= EndOf(m) BY DEF PlanLocks
      <4>2. EndOf(m) <= k.line /\ m \in 1..Len(T) BY <1>4
      <4>3. EndOf(m) \in Nat BY <1>2, <4>2 DEF PlacedToks
      <4> HIDE DEF k
      <4> QED BY <1>3, <3>1, <4>1, <4>2, <4>3
    <3>3. l \notin DOMAIN b BY <1>6, <3>1, <3>2, <1>3
    <3> QED BY <1>8, <1>10, <2>2, <3>1, <3>3
  <2> QED BY <1>5, <2>1, <2>2
<1> QED BY <1>1, <1>9, <1>10 DEF PlanLocks

\* After the last token the plan has locked what it has to.
LEMMA PlanLocksInteriors ==
    ASSUME NEW t, IsText(t)
    PROVE  PlanLocks(Placed(t), Len(Placed(t)), Plan(t))
<1> DEFINE T == Placed(t)
           S == Passed(T)
           P == {i \in Nat : i \in 0..Len(T) => PlanLocks(T, i, S[i].plan)}
<1>1. Len(t) \in Nat BY DEF IsText
<1>2. InOrder(T, Len(t)) BY TokensInOrder
<1>3. Len(T) \in Nat BY <1>2 DEF InOrder
<1>4. S = [i \in 0..Len(T) |-> IF i = 0 THEN Start ELSE PlanToken(T, S[i - 1], i)] BY <1>3, PassedIs
<1>5. Plan(t) = S[Len(T)].plan BY DEF Plan
<1> HIDE DEF T, S
<1>6. 0 \in P
  <2>1. S[0] = Start BY <1>3, <1>4
  <2>2. S[0].plan = << >> BY <2>1 DEF Start
  <2>3. PlanLocks(T, 0, << >>) BY DEF PlanLocks
  <2> QED BY <2>2, <2>3
<1>7. ASSUME NEW i \in P PROVE i + 1 \in P
  <2> SUFFICES ASSUME i + 1 \in 0..Len(T) PROVE PlanLocks(T, i + 1, S[i + 1].plan) OBVIOUS
  <2>1. (i + 1) - 1 = i /\ i + 1 /= 0 /\ i \in 0..Len(T) /\ i + 1 \in 1..Len(T) BY <1>3
  <2>2. S[i + 1] = PlanToken(T, S[i], i + 1) BY <1>4, <2>1
  <2>3. PlanLocks(T, (i + 1) - 1, S[i].plan) BY <2>1
  <2>4. PlanLocks(T, i + 1, PlanToken(T, S[i], i + 1).plan) BY <1>1, <1>2, <2>1, <2>3, TokenLocks
  <2> QED BY <2>2, <2>4
<1>8. P = Nat
  <2> HIDE DEF P
  <2>1. P \subseteq Nat BY DEF P
  <2> QED BY <1>6, <1>7, <2>1, Inductive
<1>9. PlanLocks(T, Len(T), S[Len(T)].plan)
  <2>1. Len(T) \in P BY <1>3, <1>8
  <2> QED BY <1>3, <2>1
<1> QED BY <1>5, <1>9 DEF T

\* A plan after some tokens, seen from the lines these begin on: each is planned,
\* one on which markup begins is not planned as code, and one planned as a
\* comment has a comment running over it.
Begins(T, i, s) ==
    /\ s.seen = IF i = 0 THEN 0 ELSE T[i].line
    /\ \A j \in 1..i : T[j].line \in DOMAIN s.plan
    /\ \A l \in DOMAIN s.plan : s.plan[l].kind \in {"code", "comment", "locked"}
    /\ \A l \in DOMAIN s.plan : s.plan[l].kind = "comment" =>
          \E j \in 1..i : T[j].id \in Comments /\ l \in T[j].line + 1..T[j].line + T[j].more
    /\ \A j \in 1..i : T[j].id = "html" => s.plan[T[j].line].kind /= "code"

\* One token: its line is planned with it, and what was planned stays.
LEMMA TokenBegins ==
    ASSUME NEW n \in Nat, NEW T, InOrder(T, n), NEW i \in 1..Len(T), NEW s, Begins(T, i - 1, s)
    PROVE  Begins(T, i, PlanToken(T, s, i))
<1> DEFINE k == T[i]
           b == Begun(T, s, i)
           p == Planned(b, k)
           In == k.line + 1..k.line + k.more
<1>1. PlanToken(T, s, i).plan = p /\ PlanToken(T, s, i).seen = k.line BY DEF PlanToken
<1>2. Len(T) \in Nat /\ \A j \in 1..Len(T) : T[j] \in PlacedToks /\ T[j].line > 0 BY DEF InOrder
<1>3. k.line \in Nat /\ k.more \in Nat /\ k.line > 0 BY <1>2 DEF PlacedToks
<1>4. \A j \in 1..i : j = i \/ j \in 1..i - 1 BY <1>2
<1>5. \A j \in 1..i - 1 : j \in 1..i BY <1>2
<1>6. k.line = s.seen => k.line \in DOMAIN s.plan
  <2> SUFFICES ASSUME k.line = s.seen PROVE k.line \in DOMAIN s.plan OBVIOUS
  <2>1. i - 1 /= 0
    <3>1. i - 1 = 0 => s.seen = 0 BY DEF Begins
    <3> HIDE DEF k
    <3> QED BY <1>3, <3>1
  <2>2. i - 1 \in 1..i - 1 /\ s.seen = T[i - 1].line BY <1>2, <2>1 DEF Begins
  <2> HIDE DEF k
  <2> QED BY <2>2 DEF Begins
<1>7. /\ DOMAIN b = DOMAIN s.plan \cup {k.line}
      /\ \A l \in DOMAIN s.plan : b[l] = s.plan[l]
      /\ k.line \notin DOMAIN s.plan => b[k.line].kind = "code"
  <2> DEFINE c == [kind |-> "code", indent |-> Min({Max({Units(T, s, i), 0}), MaxIndentUnits})]
  <2>1. k.line /= s.seen => b = Marked(s.plan, {k.line}, c) BY DEF Begun
  <2>2. k.line = s.seen => b = s.plan BY DEF Begun
  <2>3. c.kind = "code" OBVIOUS
  <2> HIDE DEF b, c, k
  <2>4. CASE k.line /= s.seen BY <2>1, <2>3, <2>4 DEF Marked
  <2>5. CASE k.line = s.seen BY <1>6, <2>2, <2>5
  <2> QED BY <2>4, <2>5
<1>8. ASSUME NEW x
      PROVE  LET q == Interior(b, k, x)
             IN  /\ DOMAIN q = DOMAIN b \cup In
                 /\ \A l \in DOMAIN b : q[l] = b[l]
                 /\ \A l \in In : l \notin DOMAIN b => q[l] = x
  <2>1. Interior(b, k, x) = Marked(b, In, x) BY DEF Interior
  <2> HIDE DEF In, b, k
  <2> QED BY <2>1 DEF Marked
<1>9. Locked.kind = "locked" BY DEF Locked
<1>10. k.line \in DOMAIN b BY <1>7
<1>11. /\ \A l \in DOMAIN b : l \in DOMAIN p /\ (p[l] = b[l] \/ p[l] = Locked)
       /\ \A l \in DOMAIN p : l \in DOMAIN b \/
             (l \in In /\ (p[l] = Locked \/ (k.id \in Comments /\ p[l].kind = "comment")))
       /\ k.id = "html" => p[k.line].kind /= "code"
  <2> DEFINE own == PlanOf(b, k.line)
             comment == [kind |-> "comment", indent |-> IF own.kind = "code" THEN own.indent ELSE -1]
             C == Interior(b, k, comment)
             L == Interior(b, k, Locked)
  <2>1. k.id \in Comments => k.id \notin Locking /\ k.id /= "html" BY DEF Comments, Locking
  <2>2. own = b[k.line] BY <1>10 DEF PlanOf
  <2>3. CASE k.id \in Comments
    <3>1. p = C BY <2>1, <2>3 DEF Planned
    <3>2. /\ DOMAIN C = DOMAIN b \cup In
          /\ \A l \in DOMAIN b : C[l] = b[l]
          /\ \A l \in In : l \notin DOMAIN b => C[l] = comment
      BY <1>8
    <3>3. comment.kind = "comment" OBVIOUS
    <3> HIDE DEF p, C, b, k, In, comment
    <3> QED BY <2>1, <2>3, <3>1, <3>2, <3>3
  <2>4. CASE k.id = "html" /\ own.kind = "code"
    <3>1. p = [L EXCEPT ![k.line] = Locked] BY <2>1, <2>4 DEF Planned
    <3>2. /\ DOMAIN L = DOMAIN b \cup In
          /\ \A l \in DOMAIN b : L[l] = b[l]
          /\ \A l \in In : l \notin DOMAIN b => L[l] = Locked
      BY <1>8
    <3> HIDE DEF p, L, b, k, In
    <3>3. /\ DOMAIN p = DOMAIN L
          /\ \A x \in DOMAIN L : p[x] = L[x] \/ p[x] = Locked
          /\ k.line \in DOMAIN L => p[k.line] = Locked
      BY <3>1
    <3>4. p[k.line] = Locked BY <1>10, <3>2, <3>3
    <3> QED BY <1>9, <3>2, <3>3, <3>4
  <2>5. CASE k.id \in Locking /\ ~(k.id = "html" /\ own.kind = "code")
    <3>1. p = L BY <2>1, <2>5 DEF Planned
    <3>2. /\ DOMAIN L = DOMAIN b \cup In
          /\ \A l \in DOMAIN b : L[l] = b[l]
          /\ \A l \in In : l \notin DOMAIN b => L[l] = Locked
      BY <1>8
    <3> HIDE DEF p, L, b, k, In, own
    <3>3. k.id = "html" => p[k.line].kind /= "code" BY <1>10, <2>2, <2>5, <3>1, <3>2
    <3> QED BY <3>1, <3>2, <3>3
  <2>6. CASE k.id \notin Comments /\ k.id \notin Locking
    <3>1. k.id /= "html" BY <2>6 DEF Locking
    <3>2. p = b BY <2>6, <3>1 DEF Planned
    <3> HIDE DEF p, b, k, In
    <3> QED BY <3>1, <3>2
  <2>7. k.id = "html" => k.id \in Locking BY DEF Locking
  <2> QED BY <2>3, <2>4, <2>5, <2>6, <2>7
<1> HIDE DEF p, b
\* What was planned keeps its kind, or is locked
<1>12. \A l \in DOMAIN s.plan : l \in DOMAIN p /\ (p[l] = s.plan[l] \/ p[l].kind = "locked")
  BY <1>7, <1>9, <1>11
<1>13. \A l \in DOMAIN p \ DOMAIN s.plan :
          \/ l = k.line /\ p[l].kind \in {"code", "locked"}
          \/ l \in In /\ (p[l].kind = "locked" \/ (k.id \in Comments /\ p[l].kind = "comment"))
  BY <1>7, <1>9, <1>11
<1>14. \A j \in 1..i : T[j].line \in DOMAIN p
  <2>1. k.line \in DOMAIN p BY <1>10, <1>11
  <2>2. \A j \in 1..i - 1 : T[j].line \in DOMAIN p BY <1>12 DEF Begins
  <2> QED BY <1>4, <2>1, <2>2
<1>15. \A l \in DOMAIN p : p[l].kind \in {"code", "comment", "locked"}
  <2>1. \A l \in DOMAIN s.plan : s.plan[l].kind \in {"code", "comment", "locked"} BY DEF Begins
  <2> HIDE DEF k, In
  <2> QED BY <1>12, <1>13, <2>1
<1>16. ASSUME NEW l \in DOMAIN p, p[l].kind = "comment"
       PROVE  \E j \in 1..i : T[j].id \in Comments /\ l \in T[j].line + 1..T[j].line + T[j].more
  <2>1. CASE l \in DOMAIN s.plan
    <3>1. s.plan[l].kind = "comment" BY <1>12, <1>16, <2>1
    <3>2. PICK j \in 1..i - 1 : T[j].id \in Comments /\ l \in T[j].line + 1..T[j].line + T[j].more
      BY <2>1, <3>1 DEF Begins
    <3> QED BY <1>5, <3>2
  <2>2. CASE l \notin DOMAIN s.plan
    <3>1. l \in In /\ k.id \in Comments BY <1>13, <1>16, <2>2
    <3>2. i \in 1..i BY <1>2
    <3> QED BY <3>1, <3>2
  <2> QED BY <2>1, <2>2
<1>17. ASSUME NEW j \in 1..i, T[j].id = "html" PROVE p[T[j].line].kind /= "code"
  <2>1. CASE j = i BY <1>11, <1>17, <2>1
  <2>2. CASE j \in 1..i - 1
    <3>1. T[j].line \in DOMAIN s.plan /\ s.plan[T[j].line].kind /= "code" BY <1>17, <2>2 DEF Begins
    <3> QED BY <1>12, <3>1
  <2> QED BY <1>4, <2>1, <2>2
<1>18. i /= 0 BY <1>2
<1> QED BY <1>1, <1>14, <1>15, <1>16, <1>17, <1>18 DEF Begins

\* After the last token every line that a token begins on is planned.
LEMMA PlanBegins ==
    ASSUME NEW t, IsText(t)
    PROVE  \E s : s.plan = Plan(t) /\ Begins(Placed(t), Len(Placed(t)), s)
<1> DEFINE T == Placed(t)
           S == Passed(T)
           P == {i \in Nat : i \in 0..Len(T) => Begins(T, i, S[i])}
<1>1. Len(t) \in Nat BY DEF IsText
<1>2. InOrder(T, Len(t)) BY TokensInOrder
<1>3. Len(T) \in Nat BY <1>2 DEF InOrder
<1>4. S = [i \in 0..Len(T) |-> IF i = 0 THEN Start ELSE PlanToken(T, S[i - 1], i)] BY <1>3, PassedIs
<1>5. Plan(t) = S[Len(T)].plan BY DEF Plan
<1> HIDE DEF T, S
<1>6. 0 \in P
  <2>1. S[0] = Start BY <1>3, <1>4
  <2>2. S[0].plan = << >> /\ S[0].seen = 0 BY <2>1 DEF Start
  <2>3. Begins(T, 0, S[0]) BY <2>2 DEF Begins
  <2> QED BY <2>3
<1>7. ASSUME NEW i \in P PROVE i + 1 \in P
  <2> SUFFICES ASSUME i + 1 \in 0..Len(T) PROVE Begins(T, i + 1, S[i + 1]) OBVIOUS
  <2>1. (i + 1) - 1 = i /\ i + 1 /= 0 /\ i \in 0..Len(T) /\ i + 1 \in 1..Len(T) BY <1>3
  <2>2. S[i + 1] = PlanToken(T, S[i], i + 1) BY <1>4, <2>1
  <2>3. Begins(T, (i + 1) - 1, S[i]) BY <2>1
  <2>4. Begins(T, i + 1, PlanToken(T, S[i], i + 1)) BY <1>1, <1>2, <2>1, <2>3, TokenBegins
  <2> QED BY <2>2, <2>4
<1>8. P = Nat
  <2> HIDE DEF P
  <2>1. P \subseteq Nat BY DEF P
  <2> QED BY <1>6, <1>7, <2>1, Inductive
<1>9. Begins(T, Len(T), S[Len(T)])
  <2>1. Len(T) \in P BY <1>3, <1>8
  <2> QED BY <1>3, <2>1
<1> QED BY <1>5, <1>9 DEF T

\* A line of what is formatted is the line formatted as it is planned; a final
\* newline is all that is added.
LEMMA FormattedLines ==
    ASSUME NEW t, IsText(t), NEW o, o.size \in Nat
    PROVE  LET f == Formatted(t, o)
           IN  /\ \A l \in 1..Len(t) :
                     f[l] = FormattedLine(t[l], PlanOf(Plan(t), l), o, o.reindent /\ CanReindent(t))
               /\ \/ Len(f) = Len(t)
                  \/ o.final /\ Len(f) = Len(t) + 1 /\ f[Len(f)] = EmptyLine
<1> DEFINE f == FormattedRange(t, o, 1, Len(t))
           X == Range(f) \cup {EmptyLine}
<1>1. DOMAIN t = 1..Len(t) /\ Len(t) \in Nat BY DEF IsText
<1>2. IsText(f) /\ Len(f) = Len(t) BY RangeFormats
<1>3. f \in Seq(X) /\ EmptyLine \in X BY <1>2 DEF IsText
<1>4. \A l \in 1..Len(t) :
         f[l] = FormattedLine(t[l], PlanOf(Plan(t), l), o, o.reindent /\ CanReindent(t))
  BY <1>1 DEF FormattedRange
<1> HIDE DEF f, X
<1> DEFINE F == Finished(f, o)
<1>5. F = f \/ (o.final /\ F = Append(f, EmptyLine)) BY DEF Finished
<1>6. \A l \in 1..Len(t) : Append(f, EmptyLine)[l] = f[l] BY <1>1, <1>2, <1>3
<1>7. Len(Append(f, EmptyLine)) = Len(t) + 1 /\ Append(f, EmptyLine)[Len(t) + 1] = EmptyLine
  BY <1>1, <1>2, <1>3
<1>8. Formatted(t, o) = F BY DEF Formatted, f
<1> HIDE DEF F
<1>9. CASE F = f BY <1>2, <1>4, <1>8, <1>9
<1>10. CASE o.final /\ F = Append(f, EmptyLine) BY <1>2, <1>4, <1>6, <1>7, <1>8, <1>10
<1> QED BY <1>5, <1>9, <1>10

\* What the lines of a locked token are written as.
LEMMA InteriorKept ==
    ASSUME NEW t, IsText(t), NEW o, o.size \in Nat, NEW k \in 1..Len(Placed(t)), Placed(t)[k].id \in Locking,
           NEW l \in Placed(t)[k].line + 1..Placed(t)[k].line + Placed(t)[k].more
    PROVE  Formatted(t, o)[l] = t[l]
<1> DEFINE T == Placed(t)
<1>1. DOMAIN t = 1..Len(t) /\ Len(t) \in Nat BY DEF IsText
<1>2. InOrder(T, Len(t)) BY TokensInOrder
<1>3. l \in 1..Len(t)
  <2>1. T[k] \in PlacedToks /\ T[k].line + T[k].more <= Len(t) BY <1>2 DEF InOrder
  <2>2. T[k].line \in Nat /\ T[k].more \in Nat BY <2>1 DEF PlacedToks
  <2> HIDE DEF T
  <2> QED BY <1>1, <2>1, <2>2 DEF T
<1>4. PlanOf(Plan(t), l) = Locked
  <2>1. PlanLocks(T, Len(T), Plan(t)) BY PlanLocksInteriors
  <2>2. l \in DOMAIN Plan(t) /\ Plan(t)[l] = Locked BY <2>1 DEF PlanLocks
  <2> QED BY <2>2 DEF PlanOf
<1>5. Formatted(t, o)[l] = FormattedLine(t[l], Locked, o, o.reindent /\ CanReindent(t))
  BY <1>3, <1>4, FormattedLines
<1>6. IsLine(t[l]) /\ Locked.kind = "locked" BY <1>1, <1>3 DEF IsText, Locked
<1> QED BY <1>5, <1>6, LineFormatted

\* What the line is written as that a token begins on.
LEMMA BeginningKept ==
    ASSUME NEW t, IsText(t), NEW o, o.size \in Nat, NEW k \in 1..Len(Placed(t))
    PROVE  LET T == Placed(t)
               l == T[k].line
           IN  /\ ~o.trim => Formatted(t, o)[l].trail = t[l].trail
               /\ T[k].id = "html" =>
                     \/ Formatted(t, o)[l] = t[l]
                     \/ \E c \in 1..Len(T) : /\ T[c].id \in Comments
                                             /\ l \in T[c].line + 1..T[c].line + T[c].more
<1> DEFINE T == Placed(t)
           l == T[k].line
           p == PlanOf(Plan(t), l)
           f == Formatted(t, o)[l]
           Comment == \E c \in 1..Len(T) : /\ T[c].id \in Comments
                                           /\ l \in T[c].line + 1..T[c].line + T[c].more
<1>1. DOMAIN t = 1..Len(t) /\ Len(t) \in Nat BY DEF IsText
<1>2. InOrder(T, Len(t)) BY TokensInOrder
<1>3. l \in 1..Len(t)
  <2>1. T[k] \in PlacedToks /\ T[k].line + T[k].more <= Len(t) /\ T[k].line > 0 BY <1>2 DEF InOrder
  <2>2. T[k].line \in Nat /\ T[k].more \in Nat BY <2>1 DEF PlacedToks
  <2> HIDE DEF T
  <2> QED BY <1>1, <2>1, <2>2
<1>4. PICK s : s.plan = Plan(t) /\ Begins(T, Len(T), s) BY PlanBegins
<1>5. l \in DOMAIN s.plan BY <1>4 DEF Begins
<1>6. p = s.plan[l] BY <1>4, <1>5 DEF PlanOf
<1>7. /\ p.kind \in {"code", "comment", "locked"}
      /\ p.kind = "comment" => Comment
      /\ T[k].id = "html" => p.kind /= "code"
  <2> HIDE DEF p
  <2> QED BY <1>4, <1>5, <1>6 DEF Begins
<1>8. f = FormattedLine(t[l], p, o, o.reindent /\ CanReindent(t)) BY <1>3, FormattedLines
<1>9. IsLine(t[l]) BY <1>1, <1>3 DEF IsText
<1> HIDE DEF p, l, f, T
<1>10. /\ p.kind = "locked" => f = t[l]
       /\ ~o.trim /\ p.kind /= "unset" => f.trail = t[l].trail
  BY <1>8, <1>9, LineFormatted
<1>11. ~o.trim => f.trail = t[l].trail BY <1>7, <1>10
<1>12. T[k].id = "html" => f = t[l] \/ Comment
  <2> HIDE DEF Comment
  <2> QED BY <1>7, <1>10
<1> QED BY <1>11, <1>12 DEF f, l, T

\* Renaming a variable puts one token for another: the text stays a text.
LEMMA RenamedIsText ==
    ASSUME NEW t, IsText(t), NEW i, NEW new, Token("var", new, 0) \in Toks
    PROVE  IsText(VariableRenamed(t, i, new))
<1> DEFINE M == ScopedMatches(Tokens(t), i)
           Index(l, k) == Cardinality({j \in DOMAIN Tokens(t) : Tokens(t)[j].line < l}) + k
           R(l) == [k \in DOMAIN t[l].toks |->
                       IF Index(l, k) \in M THEN Token("var", new, 0) ELSE t[l].toks[k]]
           u == VariableRenamed(t, i, new)
<1>1. u = [l \in DOMAIN t |-> [t[l] EXCEPT !.toks = R(l)]] BY DEF VariableRenamed
<1>2. ASSUME NEW l \in DOMAIN t
      PROVE  /\ DOMAIN R(l) = DOMAIN t[l].toks /\ R(l) \in Seq(Toks)
             /\ \A k \in DOMAIN t[l].toks : R(l)[k].more \in {t[l].toks[k].more, 0}
  <2> DEFINE q == t[l].toks
  <2>1. q \in Seq(Toks) BY DEF IsText, IsLine
  <2>2. Token("var", new, 0) \in Toks /\ Token("var", new, 0).more = 0 BY DEF Token
  <2>3. R(l) = [k \in DOMAIN q |-> IF Index(l, k) \in M THEN Token("var", new, 0) ELSE q[k]] OBVIOUS
  <2> DEFINE r == R(l)
  <2> HIDE DEF q, M, Index, R, Token
  <2>4. DOMAIN q = 1..Len(q) /\ Len(q) \in Nat /\ \A k \in DOMAIN q : q[k] \in Toks BY <2>1
  <2>5. r \in [1..Len(q) -> Toks] BY <2>2, <2>3, <2>4
  <2>6. r \in Seq(Toks) BY <2>4, <2>5, SeqDef
  <2>7. DOMAIN r = DOMAIN q /\ \A k \in DOMAIN q : r[k].more \in {q[k].more, 0} BY <2>2, <2>3
  <2> QED BY <2>6, <2>7 DEF q
<1>3. ASSUME NEW l \in DOMAIN t
      PROVE  IsLine([t[l] EXCEPT !.toks = R(l)]) /\ [t[l] EXCEPT !.toks = R(l)].toks = R(l)
  <2> DEFINE a == t[l].lead
             b == t[l].inner
             c == t[l].toks
             d == t[l].trail
             r == R(l)
             m == t[l]
  <2>1. m = [lead |-> a, inner |-> b, toks |-> c, trail |-> d] BY DEF IsText, IsLine, Line
  <2>2. r \in Seq(Toks) /\ a \in Nat BY <1>2 DEF IsText, IsLine
  <2> HIDE DEF a, b, c, d, r, m
  <2> DEFINE n == [m EXCEPT !.toks = r]
  <2>3. n = [lead |-> a, inner |-> b, toks |-> r, trail |-> d] BY <2>1
  <2> HIDE DEF n
  <2>4. n.lead = a /\ n.inner = b /\ n.toks = r /\ n.trail = d BY <2>3
  <2>5. IsLine(n) BY <2>2, <2>3, <2>4 DEF IsLine, Line
  <2> QED BY <2>4, <2>5 DEF n, m, r
<1> HIDE DEF R
<1>4. DOMAIN u = DOMAIN t /\ u = [l \in DOMAIN u |-> u[l]]
  <2> HIDE DEF u
  <2> QED BY <1>1
<1>5. ASSUME NEW l \in DOMAIN t
      PROVE  /\ IsLine(u[l]) /\ DOMAIN u[l].toks = DOMAIN t[l].toks
             /\ \A k \in DOMAIN t[l].toks : u[l].toks[k].more \in {t[l].toks[k].more, 0}
  <2> DEFINE n == [t[l] EXCEPT !.toks = R(l)]
  <2>1. u[l] = n
    <3> HIDE DEF u
    <3> QED BY <1>1
  <2>2. IsLine(n) /\ n.toks = R(l) BY <1>3
  <2> HIDE DEF u, n
  <2> QED BY <1>2, <2>1, <2>2
<1> HIDE DEF u
<1>6. IsText(u) BY <1>4, <1>5, StaysText
<1> QED BY <1>6 DEF u

\* The document is a text, whatever is typed, formatted and renamed.
LEMMA StaysOneText == Spec => []IsText(text)
<1>1. ASSUME Init PROVE IsText(text) BY <1>1, TextsAssumption DEF Init
<1>2. ASSUME IsText(text), [Next]_vars PROVE IsText(text)'
  <2>1. CASE DidChange BY <2>1, TextsAssumption DEF DidChange, Becomes
  <2>2. CASE FormatDocument
    <3>1. PICK o \in Options : text' = Formatted(text, o) BY <2>2 DEF FormatDocument, Becomes
    <3>2. IsText(Formatted(text, o)) BY <1>2, OptionsAssumption, FormattedSettles
    <3> QED BY <3>1, <3>2
  <2>3. CASE FormatRange
    <3>1. PICK o \in Options, a \in DOMAIN text, b \in DOMAIN text, atStart \in BOOLEAN :
             text' = RangeFormatted(text, o, a, b, atStart)
      BY <2>3 DEF FormatRange, Becomes
    <3> DEFINE e == IF atStart /\ b > a THEN b - 1 ELSE Max({a, b})
    <3>2. text' = FormattedRange(text, o, a, e) BY <3>1 DEF RangeFormatted
    <3> HIDE DEF e
    <3>3. IsText(FormattedRange(text, o, a, e)) BY <1>2, OptionsAssumption, RangeFormats
    <3> QED BY <3>2, <3>3
  <2>4. CASE RenameVariable
    <3>1. PICK i : text' = VariableRenamed(text, i, NewName) BY <2>4 DEF RenameVariable, Becomes
    <3>2. IsText(VariableRenamed(text, i, NewName)) BY <1>2, TextsAssumption, RenamedIsText
    <3> QED BY <3>1, <3>2
  <2>5. CASE UNCHANGED text BY <1>2, <2>5
  <2>6. DidOpen \/ DidClose \/ DidSave \/ TokensFull \/ TokensDelta \/ Receive \/ UNCHANGED vars
        => UNCHANGED text
    BY DEF DidOpen, DidClose, DidSave, TokensFull, TokensDelta, Answer, Receive, vars
  <2> QED BY <1>2, <2>1, <2>2, <2>3, <2>4, <2>5, <2>6 DEF Next
<1> QED BY <1>1, <1>2, PTL DEF Spec

\* Formatting what was formatted changes nothing, be it the document or all of
\* its lines as a range; nothing but blanks changes and nothing but a final
\* newline is added; and of what strings, heredocs and markup hold, only the
\* blanks may go that end the line a string (or markup behind a comment) begins
\* on: for every text, option and history of edits.
THEOREM FormattingIsSettled == Spec => []FormattingSettles
<1>1. ASSUME IsText(text) PROVE FormattingSettles
  <2>1. FormatStable BY <1>1, OptionsAssumption, FormattedSettles DEF FormatStable
  <2>2. InteriorsKept
    <3> DEFINE T == Placed(text)
               Commented(l) == \E c \in DOMAIN T : /\ T[c].id \in Comments
                                                   /\ l \in T[c].line + 1..T[c].line + T[c].more
               Kept(o) == LET f == Formatted(text, o)
                          IN  /\ \A l \in DOMAIN text : f[l].toks = text[l].toks /\ f[l].inner = text[l].inner
                              /\ \/ Len(f) = Len(text)
                                 \/ o.final /\ Len(f) = Len(text) + 1 /\ f[Len(f)] = EmptyLine
                              /\ \A k \in DOMAIN T : T[k].id \in Locking =>
                                    /\ \A l \in T[k].line + 1..T[k].line + T[k].more : f[l] = text[l]
                                    /\ T[k].id = "html" => f[T[k].line] = text[T[k].line] \/ Commented(T[k].line)
                                    /\ ~o.trim => f[T[k].line].trail = text[T[k].line].trail
    <3>1. T \in Seq(PlacedToks) BY <1>1, TokensInOrder DEF InOrder
    <3>2. DOMAIN T = 1..Len(T)
      <4> HIDE DEF T
      <4> QED BY <3>1
    <3>3. DOMAIN text = 1..Len(text) BY <1>1 DEF IsText
    <3> SUFFICES ASSUME NEW o \in Options PROVE Kept(o) BY DEF InteriorsKept
    <3> DEFINE f == Formatted(text, o)
    <3>4. o.size \in Nat BY OptionsAssumption
    <3>5. \A l \in DOMAIN text : f[l].toks = text[l].toks /\ f[l].inner = text[l].inner
      <4> SUFFICES ASSUME NEW l \in DOMAIN text
                   PROVE  f[l].toks = text[l].toks /\ f[l].inner = text[l].inner
        OBVIOUS
      <4>1. IsLine(text[l]) BY <1>1 DEF IsText
      <4>2. f[l] = FormattedLine(text[l], PlanOf(Plan(text), l), o, o.reindent /\ CanReindent(text))
        BY <1>1, <3>3, <3>4, FormattedLines
      <4> QED BY <3>4, <4>1, <4>2, LineFormatted
    <3>6. \/ Len(f) = Len(text)
          \/ o.final /\ Len(f) = Len(text) + 1 /\ f[Len(f)] = EmptyLine
      BY <1>1, <3>4, FormattedLines
    <3>7. ASSUME NEW k \in DOMAIN T, T[k].id \in Locking
          PROVE  /\ \A l \in T[k].line + 1..T[k].line + T[k].more : f[l] = text[l]
                 /\ T[k].id = "html" => f[T[k].line] = text[T[k].line] \/ Commented(T[k].line)
                 /\ ~o.trim => f[T[k].line].trail = text[T[k].line].trail
      <4>1. \A l \in T[k].line + 1..T[k].line + T[k].more : f[l] = text[l]
        BY <1>1, <3>2, <3>4, <3>7, InteriorKept
      <4>2. /\ ~o.trim => f[T[k].line].trail = text[T[k].line].trail
            /\ T[k].id = "html" => f[T[k].line] = text[T[k].line] \/ Commented(T[k].line)
        BY <1>1, <3>2, <3>4, BeginningKept
      <4> QED BY <4>1, <4>2
    <3> HIDE DEF f, T, Commented
    <3> QED BY <3>5, <3>6, <3>7 DEF f
  <2> QED BY <2>1, <2>2 DEF FormattingSettles
<1> QED BY <1>1, StaysOneText, PTL

------------------------------------------------------------------------------
(* The passes that collect semantic tokens                                  *)

\* The pass over the tokens exists: it is extended by one after another.
LEMMA CollectedIs ==
    ASSUME NEW T, NEW a, NEW b, Len(T) \in Nat
    PROVE  Collected(T, a, b) = [i \in 0..Len(T) |-> IF i = 0 THEN Begin ELSE ReadToken(T, Collected(T, a, b)[i - 1], i, a, b)]
<1> DEFINE Step(g, i) == IF i = 0 THEN Begin ELSE ReadToken(T, g[i - 1], i, a, b)
           IsPass(g, n) == g = [i \in 0..n |-> Step(g, i)]
           P == {n \in Nat : \E g : IsPass(g, n)}
<1>1. 0 \in P
  <2> DEFINE g == [i \in 0..0 |-> Begin]
  <2>1. IsPass(g, 0) OBVIOUS
  <2> HIDE DEF IsPass, g
  <2> QED BY <2>1
<1>2. ASSUME NEW n \in P PROVE n + 1 \in P
  <2>1. PICK g : IsPass(g, n) OBVIOUS
  <2> DEFINE h == [i \in 0..n + 1 |-> IF i \in 0..n THEN g[i] ELSE ReadToken(T, g[i - 1], i, a, b)]
  <2>2. ASSUME NEW i \in 0..n + 1
        PROVE  h[i] = Step(h, i)
    <3>1. i = 0 \/ (i - 1 \in 0..n /\ i - 1 \in 0..n + 1) OBVIOUS
    <3>2. i - 1 \in 0..n => h[i - 1] = g[i - 1] OBVIOUS
    <3>3. i \in 0..n => h[i] = Step(g, i) BY <2>1
    <3>4. i \notin 0..n => h[i] = Step(g, i) /\ i /= 0 OBVIOUS
    <3> HIDE DEF h
    <3> QED BY <3>1, <3>2, <3>3, <3>4
  <2>3. h = [i \in 0..n + 1 |-> h[i]] OBVIOUS
  <2>4. IsPass(h, n + 1)
    <3> HIDE DEF h, Step
    <3> QED BY <2>2, <2>3
  <2> HIDE DEF IsPass, h
  <2> QED BY <2>4
<1>3. P = Nat
  <2> HIDE DEF P
  <2>1. P \subseteq Nat BY DEF P
  <2> QED BY <1>1, <1>2, <2>1, Inductive
<1>4. \E g : IsPass(g, Len(T)) BY <1>3
<1> QED BY <1>4 DEF Collected

Origin == [line |-> 0, col |-> 0]

\* So do the places that a client moves through ...
LEMMA PlacesIs ==
    ASSUME NEW d, Len(d) \in Nat
    PROVE  Places(d) = [i \in 0..Len(d) |-> IF i = 0 THEN Origin ELSE Moved(Places(d)[i - 1], d[i])]
<1> DEFINE Step(g, i) == IF i = 0 THEN Origin ELSE Moved(g[i - 1], d[i])
           IsPass(g, n) == g = [i \in 0..n |-> Step(g, i)]
           P == {n \in Nat : \E g : IsPass(g, n)}
<1>1. 0 \in P
  <2> DEFINE g == [i \in 0..0 |-> Origin]
  <2>1. IsPass(g, 0) OBVIOUS
  <2> HIDE DEF IsPass, g
  <2> QED BY <2>1
<1>2. ASSUME NEW n \in P PROVE n + 1 \in P
  <2>1. PICK g : IsPass(g, n) OBVIOUS
  <2> DEFINE h == [i \in 0..n + 1 |-> IF i \in 0..n THEN g[i] ELSE Moved(g[i - 1], d[i])]
  <2>2. ASSUME NEW i \in 0..n + 1
        PROVE  h[i] = Step(h, i)
    <3>1. i = 0 \/ (i - 1 \in 0..n /\ i - 1 \in 0..n + 1) OBVIOUS
    <3>2. i - 1 \in 0..n => h[i - 1] = g[i - 1] OBVIOUS
    <3>3. i \in 0..n => h[i] = Step(g, i) BY <2>1
    <3>4. i \notin 0..n => h[i] = Step(g, i) /\ i /= 0 OBVIOUS
    <3> HIDE DEF h
    <3> QED BY <3>1, <3>2, <3>3, <3>4
  <2>3. h = [i \in 0..n + 1 |-> h[i]] OBVIOUS
  <2>4. IsPass(h, n + 1)
    <3> HIDE DEF h, Step
    <3> QED BY <2>2, <2>3
  <2> HIDE DEF IsPass, h
  <2> QED BY <2>4
<1>3. P = Nat
  <2> HIDE DEF P
  <2>1. P \subseteq Nat BY DEF P
  <2> QED BY <1>1, <1>2, <2>1, Inductive
<1>4. \E g : IsPass(g, Len(d)) BY <1>3
<1> QED BY <1>4 DEF Places, Origin

Chosen(s, g, a, b) == IF g.line \in a..b THEN Append(s, g) ELSE s

\* ... and what is on some lines.
LEMMA SelectedIs ==
    ASSUME NEW D, NEW a, NEW b, Len(D) \in Nat
    PROVE  Selected(D, a, b) = [i \in 0..Len(D) |-> IF i = 0 THEN << >> ELSE Chosen(Selected(D, a, b)[i - 1], D[i], a, b)]
<1> DEFINE Step(g, i) == IF i = 0 THEN << >> ELSE Chosen(g[i - 1], D[i], a, b)
           IsPass(g, n) == g = [i \in 0..n |-> Step(g, i)]
           P == {n \in Nat : \E g : IsPass(g, n)}
<1>1. 0 \in P
  <2> DEFINE g == [i \in 0..0 |-> << >>]
  <2>1. IsPass(g, 0) OBVIOUS
  <2> HIDE DEF IsPass, g
  <2> QED BY <2>1
<1>2. ASSUME NEW n \in P PROVE n + 1 \in P
  <2>1. PICK g : IsPass(g, n) OBVIOUS
  <2> DEFINE h == [i \in 0..n + 1 |-> IF i \in 0..n THEN g[i] ELSE Chosen(g[i - 1], D[i], a, b)]
  <2>2. ASSUME NEW i \in 0..n + 1
        PROVE  h[i] = Step(h, i)
    <3>1. i = 0 \/ (i - 1 \in 0..n /\ i - 1 \in 0..n + 1) OBVIOUS
    <3>2. i - 1 \in 0..n => h[i - 1] = g[i - 1] OBVIOUS
    <3>3. i \in 0..n => h[i] = Step(g, i) BY <2>1
    <3>4. i \notin 0..n => h[i] = Step(g, i) /\ i /= 0 OBVIOUS
    <3> HIDE DEF h
    <3> QED BY <3>1, <3>2, <3>3, <3>4
  <2>3. h = [i \in 0..n + 1 |-> h[i]] OBVIOUS
  <2>4. IsPass(h, n + 1)
    <3> HIDE DEF h, Step
    <3> QED BY <2>2, <2>3
  <2> HIDE DEF IsPass, h
  <2> QED BY <2>4
<1>3. P = Nat
  <2> HIDE DEF P
  <2>1. P \subseteq Nat BY DEF P
  <2> QED BY <1>1, <1>2, <2>1, Inductive
<1>4. \E g : IsPass(g, Len(D)) BY <1>3
<1> QED BY <1>4 DEF Selected, Chosen


\* One more group is one more place ...
LEMMA DecodedAppend ==
    ASSUME NEW X, NEW d \in Seq(X), NEW g \in X
    PROVE  LET e == Append(d, g)
               q == Moved(Places(d)[Len(d)], g)
           IN  /\ Places(e)[Len(e)] = q
               /\ Decoded(e) = Append(Decoded(d), Group(q.line + 1, q.col, g))
<1> DEFINE e == Append(d, g)
           p == Places(d)
           r == Places(e)
           P == {k \in Nat : k \in 0..Len(d) => r[k] = p[k]}
           q == Moved(p[Len(d)], g)
<1>1. /\ e \in Seq(X) /\ Len(e) = Len(d) + 1 /\ Len(d) \in Nat /\ e[Len(d) + 1] = g
      /\ \A k \in 1..Len(d) : e[k] = d[k]
  OBVIOUS
<1> HIDE DEF e
<1>11. Len(e) \in Nat BY <1>1
<1>2. p = [i \in 0..Len(d) |-> IF i = 0 THEN Origin ELSE Moved(p[i - 1], d[i])] BY <1>1, PlacesIs
<1>3. r = [i \in 0..Len(e) |-> IF i = 0 THEN Origin ELSE Moved(r[i - 1], e[i])] BY <1>11, PlacesIs
<1> HIDE DEF p, r
<1>4. 0 \in P BY <1>1, <1>2, <1>3
<1>5. ASSUME NEW k \in P PROVE k + 1 \in P
  <2> SUFFICES ASSUME k + 1 \in 0..Len(d) PROVE r[k + 1] = p[k + 1] OBVIOUS
  <2>1. r[k] = p[k] BY <1>1
  <2>2. (k + 1) - 1 = k /\ k + 1 /= 0 /\ k + 1 \in 1..Len(d) /\ k + 1 \in 0..Len(e) BY <1>1
  <2>3. p[k + 1] = Moved(p[k], d[k + 1]) BY <1>2, <2>2
  <2>4. r[k + 1] = Moved(r[k], e[k + 1]) BY <1>3, <2>2
  <2> QED BY <1>1, <2>1, <2>2, <2>3, <2>4
<1>6. P = Nat
  <2> HIDE DEF P
  <2>1. P \subseteq Nat BY DEF P
  <2> QED BY <1>4, <1>5, <2>1, Inductive
<1>7. \A k \in 0..Len(d) : r[k] = p[k]
  <2> SUFFICES ASSUME NEW k \in 0..Len(d) PROVE r[k] = p[k] OBVIOUS
  <2>1. k \in P BY <1>1, <1>6
  <2> QED BY <2>1
<1>8. r[Len(e)] = q
  <2>1. Len(e) \in 0..Len(e) /\ Len(e) /= 0 /\ Len(e) - 1 = Len(d) /\ Len(d) \in 0..Len(d) BY <1>1, <1>11
  <2>2. r[Len(e)] = Moved(r[Len(d)], e[Len(e)]) BY <1>3, <2>1
  <2> QED BY <1>1, <1>7, <2>1, <2>2
<1> HIDE DEF q, P
<1>9. Decoded(e) = Append(Decoded(d), Group(q.line + 1, q.col, g))
  <2> DEFINE D == Decoded(d)
             x == Group(q.line + 1, q.col, g)
             Put(i) == Group(p[i].line + 1, p[i].col, d[i])
             Y == {D[i] : i \in 1..Len(d)} \cup {x}
  <2>1. D = [i \in 1..Len(d) |-> Put(i)] BY DEF Decoded, p
  <2>2. Decoded(e) = [i \in 1..Len(e) |-> Group(r[i].line + 1, r[i].col, e[i])] BY DEF Decoded, r
  <2>3. D \in Seq(Y) /\ Len(D) = Len(d) /\ x \in Y
    <3> HIDE DEF x, Put, D
    <3>1. D \in [1..Len(d) -> Y] /\ x \in Y BY <2>1
    <3>2. D \in Seq(Y) BY <1>1, <3>1, SeqDef
    <3>3. DOMAIN D = 1..Len(d) BY <2>1
    <3>4. DOMAIN D = 1..Len(D) /\ Len(D) \in Nat BY <3>2
    <3>5. Len(D) = Len(d) BY <1>1, <3>3, <3>4, SameBound
    <3> QED BY <3>1, <3>2, <3>5
  <2> HIDE DEF Y
  <2>4. Append(D, x) = [i \in 1..Len(d) + 1 |-> IF i = Len(d) + 1 THEN x ELSE D[i]]
    <3> HIDE DEF D, x
    <3>1. Append(D, x) = [i \in 1..Len(D) + 1 |-> IF i = Len(D) + 1 THEN x ELSE D[i]] BY <2>3, AppendIs
    <3> QED BY <2>3, <3>1
  <2>5. ASSUME NEW i \in 1..Len(d) + 1
        PROVE  Group(r[i].line + 1, r[i].col, e[i]) = IF i = Len(d) + 1 THEN x ELSE D[i]
    <3>1. CASE i = Len(d) + 1
      <4>1. r[i] = q /\ e[i] = g BY <1>1, <1>8, <3>1
      <4> QED BY <3>1, <4>1
    <3>2. CASE i /= Len(d) + 1
      <4>1. i \in 1..Len(d) /\ i \in 0..Len(d) BY <1>1, <3>2
      <4>2. r[i] = p[i] /\ e[i] = d[i] BY <1>1, <1>7, <4>1
      <4>3. D[i] = Put(i)
        <5> HIDE DEF D, Put
        <5> QED BY <2>1, <4>1
      <4> QED BY <3>2, <4>2, <4>3
    <3> QED BY <3>1, <3>2
  <2> HIDE DEF D, x
  <2> QED BY <1>1, <2>2, <2>4, <2>5 DEF D, x
<1> QED BY <1>8, <1>9 DEF e, p, r, q

\* ... and is chosen if it is on the lines.
LEMMA OnLinesAppend ==
    ASSUME NEW X, NEW D \in Seq(X), NEW x \in X, NEW a, NEW b
    PROVE  OnLines(Append(D, x), a, b) = Chosen(OnLines(D, a, b), x, a, b)
<1> DEFINE E == Append(D, x)
           p == Selected(D, a, b)
           r == Selected(E, a, b)
           P == {k \in Nat : k \in 0..Len(D) => r[k] = p[k]}
<1>1. /\ E \in Seq(X) /\ Len(E) = Len(D) + 1 /\ Len(D) \in Nat /\ E[Len(D) + 1] = x
      /\ \A k \in 1..Len(D) : E[k] = D[k]
  OBVIOUS
<1> HIDE DEF E
<1>11. Len(E) \in Nat BY <1>1
<1>2. p = [i \in 0..Len(D) |-> IF i = 0 THEN << >> ELSE Chosen(p[i - 1], D[i], a, b)] BY <1>1, SelectedIs
<1>3. r = [i \in 0..Len(E) |-> IF i = 0 THEN << >> ELSE Chosen(r[i - 1], E[i], a, b)] BY <1>11, SelectedIs
<1> HIDE DEF p, r
<1>4. 0 \in P BY <1>1, <1>2, <1>3
<1>5. ASSUME NEW k \in P PROVE k + 1 \in P
  <2> SUFFICES ASSUME k + 1 \in 0..Len(D) PROVE r[k + 1] = p[k + 1] OBVIOUS
  <2>1. r[k] = p[k] BY <1>1
  <2>2. (k + 1) - 1 = k /\ k + 1 /= 0 /\ k + 1 \in 1..Len(D) /\ k + 1 \in 0..Len(E) BY <1>1
  <2>3. p[k + 1] = Chosen(p[k], D[k + 1], a, b) BY <1>2, <2>2
  <2>4. r[k + 1] = Chosen(r[k], E[k + 1], a, b) BY <1>3, <2>2
  <2> QED BY <1>1, <2>1, <2>2, <2>3, <2>4
<1>6. P = Nat
  <2> HIDE DEF P
  <2>1. P \subseteq Nat BY DEF P
  <2> QED BY <1>4, <1>5, <2>1, Inductive
<1>7. r[Len(D)] = p[Len(D)]
  <2>1. Len(D) \in P /\ Len(D) \in 0..Len(D) BY <1>1, <1>6
  <2> QED BY <2>1
<1>8. r[Len(E)] = Chosen(p[Len(D)], x, a, b)
  <2>1. Len(E) \in 0..Len(E) /\ Len(E) /= 0 /\ Len(E) - 1 = Len(D) BY <1>1, <1>11
  <2>2. r[Len(E)] = Chosen(r[Len(D)], E[Len(E)], a, b) BY <1>3, <2>1
  <2> QED BY <1>1, <1>7, <2>1, <2>2
<1> QED BY <1>8 DEF OnLines, E, p, r

------------------------------------------------------------------------------
\* The tokens of a line with their columns.
Margin(l) == l.lead + (IF l.inner = "" THEN 0 ELSE 1)
OnLineAt(t, i) ==
    [k \in DOMAIN t[i].toks |->
        [id |-> t[i].toks[k].id, name |-> t[i].toks[k].name,
         more |-> t[i].toks[k].more, line |-> i,
         col |-> Margin(t[i]) + k - 1]]
RowsAt(t) == [i \in DOMAIN t |-> OnLineAt(t, i)]
ReadToks == [id : STRING, name : STRING, more : Nat, line : Nat, col : Nat]

\* A place is at or behind another.
Behind(l, c, k) == l < k.line - 1 \/ (l = k.line - 1 /\ c <= k.col)

\* The tokens of a text, each behind those before it.
InPlace(T, n) ==
    /\ T \in Seq(ReadToks)
    /\ \A j \in 1..Len(T) : T[j].line \in 1..n
    /\ \A j, k \in 1..Len(T) : j < k => Behind(T[j].line - 1, T[j].col, T[k])

\* Tokens gives them in that order.
LEMMA TokensInPlace ==
    ASSUME NEW t, IsText(t)
    PROVE  InPlace(Tokens(t), Len(t))
<1> DEFINE S == RowsAt(t)
           T == Tokens(t)
<1>1. DOMAIN t = 1..Len(t) /\ Len(t) \in Nat /\ \A a \in DOMAIN t : IsLine(t[a]) BY DEF IsText
<1>2. T = FlattenSeq(S) BY DEF Tokens, RowsAt, OnLineAt, Margin
<1>3. ASSUME NEW a \in DOMAIN t
      PROVE  /\ OnLineAt(t, a) \in Seq(ReadToks)
             /\ Margin(t[a]) \in Nat
             /\ \A p \in DOMAIN OnLineAt(t, a) :
                   OnLineAt(t, a)[p].line = a /\ OnLineAt(t, a)[p].col = Margin(t[a]) + p - 1
  <2> DEFINE q == t[a].toks
             c == Margin(t[a])
             Put(p) == [id |-> q[p].id, name |-> q[p].name, more |-> q[p].more, line |-> a, col |-> c + p - 1]
             s == OnLineAt(t, a)
  <2>1. q \in Seq(Toks) /\ t[a].lead \in Nat /\ a \in Nat BY <1>1 DEF IsLine
  <2>2. c \in Nat
    <3> DEFINE w == IF t[a].inner = "" THEN 0 ELSE 1
    <3>1. w \in Nat OBVIOUS
    <3>2. c = t[a].lead + w BY DEF Margin
    <3> HIDE DEF w, c
    <3> QED BY <2>1, <3>1, <3>2
  <2>3. DOMAIN q = 1..Len(q) /\ Len(q) \in Nat BY <2>1
  <2>4. s = [p \in 1..Len(q) |-> Put(p)] BY <2>3 DEF OnLineAt
  <2> HIDE DEF q, c, s
  <2>5. ASSUME NEW p \in 1..Len(q)
        PROVE  Put(p) \in ReadToks /\ Put(p).line = a /\ Put(p).col = c + p - 1
    <3>1. q[p] \in Toks BY <2>1
    <3>2. q[p] \in [id : STRING, name : STRING, more : Nat] BY <3>1 DEF Toks
    <3>3. c + p - 1 \in Nat BY <2>2, <2>3
    <3> QED BY <2>1, <3>2, <3>3 DEF ReadToks
  <2>6. s \in [1..Len(q) -> ReadToks]
    <3> HIDE DEF Put
    <3> QED BY <2>4, <2>5
  <2>7. s \in Seq(ReadToks) BY <2>3, <2>6, SeqDef
  <2>8. \A p \in DOMAIN s : s[p].line = a /\ s[p].col = c + p - 1
    <3> HIDE DEF Put
    <3> QED BY <2>4, <2>5
  <2> QED BY <2>2, <2>7, <2>8 DEF c, s
<1>4. S \in Seq(Seq(ReadToks)) /\ Len(S) = Len(t) /\ \A a \in 1..Len(t) : S[a] = OnLineAt(t, a)
  <2> DEFINE X == Seq(ReadToks)
  <2>1. S = [a \in 1..Len(t) |-> OnLineAt(t, a)] BY <1>1 DEF RowsAt
  <2>2. \A a \in 1..Len(t) : OnLineAt(t, a) \in X BY <1>1, <1>3
  <2> HIDE DEF S, X
  <2>3. S \in [1..Len(t) -> X] BY <2>1, <2>2
  <2>4. S \in Seq(X) BY <1>1, <2>3, SeqDef
  <2>5. DOMAIN S = 1..Len(t) /\ DOMAIN S = 1..Len(S) /\ Len(S) \in Nat BY <2>1, <2>4
  <2>6. Len(S) = Len(t) BY <1>1, <2>5, SameBound
  <2> QED BY <2>1, <2>4, <2>6 DEF X
<1> HIDE DEF S, T
<1>5. T \in Seq(ReadToks) BY <1>2, <1>4, FlattenIsSeq
<1>6. Ordered(S, T) /\ \A j \in 1..Len(T) : \E a, p \in Nat : Taken(S, T, a, p, j)
  BY <1>2, <1>4, FlatOrder
<1>7. ASSUME NEW j \in 1..Len(T), NEW a \in Nat, NEW p \in Nat, Taken(S, T, a, p, j)
      PROVE  /\ a \in 1..Len(t) /\ T[j].line = a
             /\ T[j].col = Margin(t[a]) + p - 1
  <2>1. a \in 1..Len(t) /\ p \in DOMAIN S[a] /\ T[j] = S[a][p]
    <3>1. a \in 1..Len(S) /\ p \in 1..Len(S[a]) /\ T[j] = S[a][p] BY <1>7 DEF Taken
    <3>2. S[a] \in Seq(ReadToks) BY <1>4, <3>1
    <3>3. DOMAIN S[a] = 1..Len(S[a]) BY <3>2
    <3> QED BY <1>4, <3>1, <3>3
  <2>2. S[a] = OnLineAt(t, a) /\ a \in DOMAIN t BY <1>1, <1>4, <2>1
  <2>3. S[a][p].line = a /\ S[a][p].col = Margin(t[a]) + p - 1 BY <1>3, <2>1, <2>2
  <2> QED BY <2>1, <2>3
<1>8. \A j \in 1..Len(T) : T[j].line \in 1..Len(t) BY <1>6, <1>7
<1>9. ASSUME NEW j \in 1..Len(T), NEW k \in 1..Len(T), j < k
      PROVE  Behind(T[j].line - 1, T[j].col, T[k])
  <2>1. PICK a \in Nat, b \in Nat, p \in Nat, q \in Nat :
           /\ Taken(S, T, a, p, j) /\ Taken(S, T, b, q, k)
           /\ a < b \/ (a = b /\ p < q)
    BY <1>6, <1>9 DEF Ordered
  <2> DEFINE C(x) == Margin(t[x])
  <2>2. a \in 1..Len(t) /\ T[j].line = a /\ T[j].col = C(a) + p - 1 BY <1>7, <2>1
  <2>3. b \in 1..Len(t) /\ T[k].line = b /\ T[k].col = C(b) + q - 1 BY <1>7, <2>1
  <2>4. C(a) \in Nat BY <1>1, <1>3, <2>2
  <2> HIDE DEF C
  <2>5. a < b => Behind(T[j].line - 1, T[j].col, T[k]) BY <2>2, <2>3 DEF Behind
  <2>6. a = b /\ p < q => Behind(T[j].line - 1, T[j].col, T[k]) BY <2>2, <2>3, <2>4 DEF Behind
  <2> QED BY <2>1, <2>5, <2>6
<1> QED BY <1>5, <1>8, <1>9 DEF InPlace, T

------------------------------------------------------------------------------
\* What was sent is a list of groups with places that a client can move through,
\* and the last of them is where the pass is.
AreGroups(d) == d \in Seq(Range(d)) /\ \A g \in Range(d) : g.line \in Nat /\ g.col \in Nat
Sound(s) ==
    /\ s.line \in Nat /\ s.col \in Nat /\ AreGroups(s.data)
    /\ Places(s.data)[Len(s.data)] = [line |-> s.line, col |-> s.col]

\* A token that has a type and is on the lines asked for is sent: no token is
\* lost for standing before the one it is relative to.
LEMMA EmittedSends ==
    ASSUME NEW s, Sound(s), NEW k, k.line \in Nat, k.line > 0, k.col \in Nat,
           Behind(s.line, s.col, k), NEW c, c.type /= "none", NEW a, NEW b, k.line \in a..b
    PROVE  LET e == Emitted(s, k, c, a, b)
           IN  /\ Sound(e) /\ e.line = k.line - 1 /\ e.col = k.col
               /\ Decoded(e.data) = Append(Decoded(s.data), Group(k.line, k.col, c))
<1> DEFINE dl == k.line - 1 - s.line
           dc == IF dl = 0 THEN k.col - s.col ELSE k.col
           g == Group(dl, dc, c)
           d == s.data
           n == Append(d, g)
           e == Emitted(s, k, c, a, b)
           X == Range(d) \cup {g}
<1>1. s.line \in Nat /\ s.col \in Nat /\ d \in Seq(Range(d)) /\ \A h \in Range(d) : h.line \in Nat /\ h.col \in Nat
  BY DEF Sound, AreGroups
<1>2. dl \in Nat /\ dc \in Nat
  <2>1. dl \in Nat BY <1>1 DEF Behind
  <2>2. dl = 0 => s.col <= k.col BY <1>1 DEF Behind
  <2>3. k.col - s.col \in Int /\ (s.col <= k.col => k.col - s.col \in Nat) BY <1>1
  <2> HIDE DEF dl
  <2> QED BY <2>1, <2>2, <2>3
<1>3. e = [line |-> k.line - 1, col |-> k.col, data |-> n]
  <2>1. ~(c.type = "none" \/ k.line \notin a..b \/ dl < 0 \/ dc < 0)
    <3> HIDE DEF dl, dc
    <3> QED BY <1>2
  <2> QED BY <2>1 DEF Emitted
<1>4. g.line = dl /\ g.col = dc /\ g.type = c.type /\ g.mods = c.mods BY DEF Group
<1> HIDE DEF dl, dc, g, e
<1>5. d \in Seq(X) /\ g \in X BY <1>1
<1> HIDE DEF X
<1>6. /\ n \in Seq(X) /\ Len(n) = Len(d) + 1 /\ Len(d) \in Nat /\ n[Len(d) + 1] = g
      /\ \A i \in 1..Len(d) : n[i] = d[i]
  BY <1>5
<1> DEFINE p == Places(d)[Len(d)]
           q == Moved(p, g)
<1>7. Places(n)[Len(n)] = q /\ Decoded(n) = Append(Decoded(d), Group(q.line + 1, q.col, g))
  <2> HIDE DEF d
  <2> QED BY <1>5, DecodedAppend
<1>8. q = [line |-> k.line - 1, col |-> k.col]
  <2>1. p = [line |-> s.line, col |-> s.col] BY DEF Sound
  <2>2. p.line = s.line /\ p.col = s.col
    <3> HIDE DEF p
    <3> QED BY <2>1
  <2>3. q = [line |-> s.line + dl, col |-> IF dl = 0 THEN s.col + dc ELSE dc]
    <3> HIDE DEF p
    <3> QED BY <1>4, <2>2 DEF Moved
  <2>4. s.line + dl = k.line - 1 BY <1>1 DEF dl
  <2>5. (IF dl = 0 THEN s.col + dc ELSE dc) = k.col
    <3>1. CASE dl = 0
      <4>1. dc = k.col - s.col BY <3>1 DEF dc
      <4> QED BY <1>1, <3>1, <4>1
    <3>2. CASE dl /= 0 BY <3>2 DEF dc
    <3> QED BY <3>1, <3>2
  <2> HIDE DEF q
  <2> QED BY <2>3, <2>4, <2>5
<1> HIDE DEF p, q
<1>9. Group(q.line + 1, q.col, g) = Group(k.line, k.col, c)
  <2>1. q.line + 1 = k.line /\ q.col = k.col BY <1>8
  <2> QED BY <1>4, <2>1 DEF Group
<1>10. AreGroups(n)
  <2> HIDE DEF n, d
  <2>1. DOMAIN n = 1..Len(n) BY <1>6
  <2>2. n \in Seq(Range(n))
    <3>1. \A i \in 1..Len(n) : n[i] \in Range(n) BY <2>1 DEF Range
    <3>2. n \in [1..Len(n) -> Range(n)] BY <1>6, <2>1, <3>1
    <3> QED BY <1>6, <3>2, SeqDef
  <2>3. \A i \in 1..Len(d) : d[i] \in Range(d) BY <1>1 DEF Range
  <2>4. ASSUME NEW h \in Range(n) PROVE h = g \/ h \in Range(d)
    <3>1. PICK i \in 1..Len(n) : h = n[i] BY <2>1 DEF Range
    <3>2. i = Len(d) + 1 \/ i \in 1..Len(d) BY <1>6, <3>1
    <3> QED BY <1>6, <2>3, <3>1, <3>2
  <2> QED BY <1>1, <1>2, <1>4, <2>2, <2>4 DEF AreGroups
<1> HIDE DEF n
<1>11. e.line = k.line - 1 /\ e.col = k.col /\ e.data = n BY <1>3
<1>12. k.line - 1 \in Nat OBVIOUS
<1>13. Sound(e)
  <2>1. Places(e.data)[Len(e.data)] = [line |-> e.line, col |-> e.col] BY <1>7, <1>8, <1>11
  <2> QED BY <1>10, <1>11, <1>12, <2>1 DEF Sound
<1>14. Decoded(e.data) = Append(Decoded(d), Group(k.line, k.col, c)) BY <1>7, <1>9, <1>11
<1> QED BY <1>11, <1>13, <1>14 DEF e, d

\* A token without a type, or on another line, is not.
LEMMA EmittedSkips ==
    ASSUME NEW s, NEW k, NEW c, NEW a, NEW b, c.type = "none" \/ k.line \notin a..b
    PROVE  Emitted(s, k, c, a, b) = s
BY DEF Emitted

\* A pass over all lines and one over the lines from a to b.
Along(T, i, s) ==
    /\ Sound(s) /\ \A j \in i + 1..Len(T) : Behind(s.line, s.col, T[j])
Alike(T, i, f, r, a, b) ==
    /\ f.scan = r.scan
    /\ Along(T, i, f.sent) /\ Along(T, i, r.sent)
    /\ Decoded(r.sent.data) = OnLines(Decoded(f.sent.data), a, b)

\* Whatever is made of a token, the pass is then before the tokens that follow.
LEMMA EmittedAlong ==
    ASSUME NEW n \in Nat, NEW T, InPlace(T, n), NEW i \in 1..Len(T), NEW s, Along(T, i - 1, s), NEW c, NEW a, NEW b
    PROVE  Along(T, i, Emitted(s, T[i], c, a, b))
<1> DEFINE k == T[i]
           e == Emitted(s, k, c, a, b)
<1>1. Len(T) \in Nat /\ k.line \in 1..n /\ k \in ReadToks
  <2>1. T \in Seq(ReadToks) BY DEF InPlace
  <2>2. k.line \in 1..n BY DEF InPlace
  <2> QED BY <2>1, <2>2
<1>2. k.line \in Nat /\ k.line > 0 /\ k.col \in Nat BY <1>1 DEF ReadToks
<1>3. \A j \in i + 1..Len(T) : j \in 1..Len(T) /\ i < j /\ j \in (i - 1) + 1..Len(T) BY <1>1
<1>4. i \in (i - 1) + 1..Len(T) BY <1>1
<1>5. Behind(s.line, s.col, k) BY <1>4 DEF Along
<1>6. CASE c.type = "none" \/ k.line \notin a..b
  <2>1. e = s BY <1>6, EmittedSkips
  <2> HIDE DEF e
  <2> QED BY <1>3, <2>1 DEF Along, e
<1>7. CASE c.type /= "none" /\ k.line \in a..b
  <2>1. Sound(s) BY DEF Along
  <2> HIDE DEF k
  <2>2. Sound(e) /\ e.line = k.line - 1 /\ e.col = k.col BY <1>2, <1>5, <1>7, <2>1, EmittedSends
  <2> HIDE DEF e
  <2>3. \A j \in i + 1..Len(T) : Behind(k.line - 1, k.col, T[j]) BY <1>3 DEF InPlace, k
  <2> QED BY <2>2, <2>3 DEF Along, e, k
<1> QED BY <1>6, <1>7

\* One token, read by both.
LEMMA TokenAlike ==
    ASSUME NEW n \in Nat, NEW T, InPlace(T, n), NEW i \in 1..Len(T), NEW a, NEW b, a..b \subseteq 1..n,
           NEW f, NEW r, Alike(T, i - 1, f, r, a, b)
    PROVE  Alike(T, i, ReadToken(T, f, i, 1, n), ReadToken(T, r, i, a, b), a, b)
<1> DEFINE k == T[i]
           c == Kind(T, f.scan, i)
           F == Emitted(f.sent, k, c, 1, n)
           R == Emitted(r.sent, k, c, a, b)
           x == Group(k.line, k.col, c)
<1>1. r.scan = f.scan BY DEF Alike
<1>2. /\ ReadToken(T, f, i, 1, n).scan = Scanned(T, f.scan, i)
      /\ ReadToken(T, f, i, 1, n).sent = F
      /\ ReadToken(T, r, i, a, b).scan = Scanned(T, f.scan, i)
      /\ ReadToken(T, r, i, a, b).sent = R
  BY <1>1 DEF ReadToken
<1>3. Along(T, i, F) /\ Along(T, i, R)
  <2>1. Along(T, i - 1, f.sent) /\ Along(T, i - 1, r.sent) BY DEF Alike
  <2> HIDE DEF c
  <2> QED BY <2>1, EmittedAlong
<1>4. Sound(f.sent) /\ Sound(r.sent) /\ Behind(f.sent.line, f.sent.col, k) /\ Behind(r.sent.line, r.sent.col, k)
  <2>1. Len(T) \in Nat BY DEF InPlace
  <2>2. i \in (i - 1) + 1..Len(T) BY <2>1
  <2> QED BY <2>2 DEF Alike, Along
<1>5. k.line \in 1..n /\ k.line \in Nat /\ k.line > 0 /\ k.col \in Nat
  <2>1. T \in Seq(ReadToks) /\ k.line \in 1..n BY DEF InPlace
  <2>2. k \in ReadToks BY <2>1
  <2> HIDE DEF k
  <2> QED BY <2>1, <2>2 DEF ReadToks
<1> DEFINE d == f.sent.data
<1>6. Decoded(R.data) = OnLines(Decoded(F.data), a, b)
  <2> HIDE DEF k, c
  <2>1. Decoded(r.sent.data) = OnLines(Decoded(d), a, b) BY DEF Alike
  <2>2. c.type /= "none" => Decoded(F.data) = Append(Decoded(d), x)
    <3> DEFINE s == f.sent
    <3>1. Sound(s) /\ Behind(s.line, s.col, k) BY <1>4
    <3> HIDE DEF s
    <3>2. c.type /= "none" => Decoded(Emitted(s, k, c, 1, n).data) = Append(Decoded(s.data), Group(k.line, k.col, c))
      BY <1>5, <3>1, EmittedSends
    <3> QED BY <3>2 DEF s
  <2>3. OnLines(Append(Decoded(d), x), a, b) = Chosen(OnLines(Decoded(d), a, b), x, a, b)
    <3> DEFINE D == Decoded(d)
               X == {D[j] : j \in 1..Len(d)} \cup {x}
    <3>1. Len(d) \in Nat BY <1>4 DEF Sound, AreGroups
    <3>2. D = [j \in 1..Len(d) |-> D[j]]
      <4> HIDE DEF d, x
      <4> QED BY DEF Decoded
    <3> HIDE DEF D, x
    <3>3. D \in [1..Len(d) -> X] /\ x \in X BY <3>2
    <3> HIDE DEF X
    <3>4. D \in Seq(X) BY <3>1, <3>3, SeqDef
    <3> HIDE DEF d
    <3> QED BY <3>3, <3>4, OnLinesAppend DEF D
  <2>4. x.line = k.line BY DEF Group
  <2>5. CASE c.type = "none"
    <3>1. F = f.sent /\ R = r.sent BY <2>5, EmittedSkips
    <3> QED BY <2>1, <3>1
  <2>6. CASE c.type /= "none" /\ k.line \in a..b
    <3> DEFINE s == r.sent
    <3>2. Sound(s) /\ Behind(s.line, s.col, k) BY <1>4
    <3> HIDE DEF s
    <3>3. Decoded(Emitted(s, k, c, a, b).data) = Append(Decoded(s.data), Group(k.line, k.col, c))
      BY <1>5, <2>6, <3>2, EmittedSends
    <3>1. Decoded(R.data) = Append(Decoded(r.sent.data), x) BY <3>3 DEF s
    <3> HIDE DEF x, F, R, d
    <3> QED BY <2>1, <2>2, <2>3, <2>4, <2>6, <3>1 DEF Chosen
  <2>7. CASE c.type /= "none" /\ k.line \notin a..b
    <3>1. R = r.sent BY <2>7, EmittedSkips
    <3> HIDE DEF x, F, R, d
    <3> QED BY <2>1, <2>2, <2>3, <2>4, <2>7, <3>1 DEF Chosen
  <2> QED BY <2>5, <2>6, <2>7
<1> HIDE DEF F, R
<1> QED BY <1>2, <1>3, <1>6 DEF Alike

\* Nothing is chosen of nothing.
LEMMA NothingIsSelected ==
    ASSUME NEW a, NEW b
    PROVE  Selected(<< >>, a, b)[0] = << >>
<1> DEFINE e == << >>
<1>1. Len(e) \in Nat OBVIOUS
<1> HIDE DEF e
<1> DEFINE s == Selected(e, a, b)
<1>2. s = [i \in 0..Len(e) |-> IF i = 0 THEN << >> ELSE Chosen(s[i - 1], e[i], a, b)]
  BY <1>1, SelectedIs
<1> HIDE DEF s
<1>3. s[0] = << >> BY <1>1, <1>2
<1> QED BY <1>3 DEF s, e

\* Both passes stay alike, one token after another.
LEMMA PassesAlike ==
    ASSUME NEW n \in Nat, NEW T, InPlace(T, n), NEW a, NEW b, a..b \subseteq 1..n
    PROVE  Alike(T, Len(T), Collected(T, 1, n)[Len(T)], Collected(T, a, b)[Len(T)], a, b)
<1> DEFINE f == Collected(T, 1, n)
           r == Collected(T, a, b)
           P == {i \in Nat : i \in 0..Len(T) => Alike(T, i, f[i], r[i], a, b)}
<1>1. Len(T) \in Nat /\ T \in Seq(ReadToks) BY DEF InPlace
<1>2. f = [i \in 0..Len(T) |-> IF i = 0 THEN Begin ELSE ReadToken(T, f[i - 1], i, 1, n)] BY <1>1, CollectedIs
<1>3. r = [i \in 0..Len(T) |-> IF i = 0 THEN Begin ELSE ReadToken(T, r[i - 1], i, a, b)] BY <1>1, CollectedIs
<1> HIDE DEF f, r
<1>4. 0 \in P
  <2>1. f[0] = Begin /\ r[0] = Begin BY <1>1, <1>2, <1>3
  <2>2. Begin.sent = [line |-> 0, col |-> 0, data |-> << >>] BY DEF Begin
  <2>3. Begin.sent.line = 0 /\ Begin.sent.col = 0 /\ Begin.sent.data = << >> BY <2>2
  <2>4. Sound(Begin.sent)
    <3>1. Places(<< >>) = [i \in 0..0 |-> IF i = 0 THEN Origin ELSE Moved(Places(<< >>)[i - 1], << >>[i])]
      BY PlacesIs
    <3>2. Places(<< >>)[0] = Origin BY <3>1
    <3>3. AreGroups(<< >>)
      <4>1. Range(<< >>) = {} BY DEF Range
      <4> QED BY <4>1 DEF AreGroups
    <3>4. Len(<< >>) = 0 OBVIOUS
    <3> QED BY <2>3, <3>2, <3>3, <3>4 DEF Sound, Origin
  <2>5. \A j \in 1..Len(T) : Behind(0, 0, T[j])
    <3> SUFFICES ASSUME NEW j \in 1..Len(T) PROVE Behind(0, 0, T[j]) OBVIOUS
    <3>1. T[j] \in ReadToks BY <1>1
    <3>2. T[j].line \in 1..n /\ T[j].col \in Nat BY <3>1 DEF InPlace, ReadToks
    <3> QED BY <3>2 DEF Behind
  <2>6. Decoded(<< >>) = << >> /\ OnLines(<< >>, a, b) = << >>
    <3>1. Decoded(<< >>) = << >> BY DEF Decoded
    <3>2. Selected(<< >>, a, b)[0] = << >> BY NothingIsSelected
    <3>3. Len(<< >>) = 0 OBVIOUS
    <3> QED BY <3>1, <3>2, <3>3 DEF OnLines
  <2>7. Along(T, 0, Begin.sent) BY <2>3, <2>4, <2>5 DEF Along
  <2>8. Alike(T, 0, Begin, Begin, a, b) BY <2>3, <2>6, <2>7 DEF Alike
  <2> QED BY <2>1, <2>8
<1>5. ASSUME NEW i \in P PROVE i + 1 \in P
  <2> SUFFICES ASSUME i + 1 \in 0..Len(T) PROVE Alike(T, i + 1, f[i + 1], r[i + 1], a, b) OBVIOUS
  <2>1. (i + 1) - 1 = i /\ i + 1 /= 0 /\ i \in 0..Len(T) /\ i + 1 \in 1..Len(T) BY <1>1
  <2>2. f[i + 1] = ReadToken(T, f[i], i + 1, 1, n) /\ r[i + 1] = ReadToken(T, r[i], i + 1, a, b)
    BY <1>2, <1>3, <2>1
  <2>3. Alike(T, (i + 1) - 1, f[i], r[i], a, b) BY <2>1
  <2>4. Alike(T, i + 1, ReadToken(T, f[i], i + 1, 1, n), ReadToken(T, r[i], i + 1, a, b), a, b)
    BY <2>1, <2>3, TokenAlike
  <2> QED BY <2>2, <2>4
<1>6. P = Nat
  <2> HIDE DEF P
  <2>1. P \subseteq Nat BY DEF P
  <2> QED BY <1>4, <1>5, <2>1, Inductive
<1>7. Alike(T, Len(T), f[Len(T)], r[Len(T)], a, b)
  <2>1. Len(T) \in P BY <1>1, <1>6
  <2> QED BY <1>1, <2>1
<1> QED BY <1>7 DEF f, r

\* What is sent of a text is a list of groups.
LEMMA TokensAreGroups ==
    ASSUME NEW t, IsText(t)
    PROVE  AreGroups(FullTokens(t))
<1>1. InPlace(Tokens(t), Len(t)) BY TokensInPlace
<1>2. Len(t) \in Nat BY DEF IsText
<1> DEFINE T == Tokens(t)
           f == Collected(T, 1, Len(t))[Len(T)]
<1>3. Alike(T, Len(T), f, f, 1, Len(t))
  <2> HIDE DEF T
  <2> QED BY <1>1, <1>2, PassesAlike DEF T
<1>4. FullTokens(t) = f.sent.data BY DEF FullTokens, Collect
<1> HIDE DEF f
<1> QED BY <1>3, <1>4 DEF Alike, Along, Sound

\* A range of lines is answered with the groups of a full answer that are on
\* them, and no place is before the one it is relative to: for all texts.
THEOREM RangesAgree == Spec => []RangeAgrees
<1>1. ASSUME IsText(text) PROVE RangeAgrees
  <2>1. Len(text) \in Nat /\ DOMAIN text = 1..Len(text) BY <1>1 DEF IsText
  <2>2. \A g \in Range(FullTokens(text)) : g.line \in Nat /\ g.col \in Nat BY <1>1, TokensAreGroups DEF AreGroups
  <2>3. ASSUME NEW a \in DOMAIN text, NEW b \in DOMAIN text
        PROVE  Decoded(RangeTokens(text, a, b)) = OnLines(Decoded(FullTokens(text)), a, b)
    <3> DEFINE T == Tokens(text)
               f == Collected(T, 1, Len(text))[Len(T)]
               r == Collected(T, a, b)[Len(T)]
    <3>1. a..b \subseteq 1..Len(text) BY <2>1
    <3>2. InPlace(T, Len(text)) BY <1>1, TokensInPlace
    <3>3. Alike(T, Len(T), f, r, a, b)
      <4> HIDE DEF T
      <4> QED BY <2>1, <3>1, <3>2, PassesAlike
    <3>4. FullTokens(text) = f.sent.data /\ RangeTokens(text, a, b) = r.sent.data
      BY DEF FullTokens, RangeTokens, Collect
    <3> HIDE DEF f, r
    <3> QED BY <3>3, <3>4 DEF Alike
  <2> QED BY <2>2, <2>3 DEF RangeAgrees
<1> QED BY <1>1, StaysOneText, PTL

------------------------------------------------------------------------------
(* The session                                                              *)

\* The answers on their way are those to the last requests, in their order.
Whole(t) == [start |-> 0, delete |-> 0, data |-> FullTokens(t)]

Numbered ==
    /\ counter \in Nat /\ shown.id \in Nat
    /\ wire \in Seq(Range(wire)) /\ \A i \in 1..Len(wire) : IsText(wire[i].text)
    /\ shown.id <= counter - Len(wire)
    /\ \A i \in 1..Len(wire) : wire[i].id = counter - Len(wire) + i

Displayed ==
    shown.id > 0 => IsText(shown.text) /\ shown.data = FullTokens(shown.text)

Snapshot ==
    /\ cache.id \in {0, counter}
    /\ cache.id > 0 /\ cache.id = shown.id => cache.data = shown.data
    /\ \A i \in 1..Len(wire) :
           cache.id > 0 /\ wire[i].id = cache.id => cache.data = FullTokens(wire[i].text)

\* A difference is only ever the first answer on its way: it is asked for when
\* the client has what the server remembers, and then nothing is.
Pending ==
    \A i \in 1..Len(wire) :
        \/ wire[i].base = 0 /\ wire[i].edit = Whole(wire[i].text)
        \/ /\ i = 1 /\ shown.id > 0 /\ wire[i].base = shown.id
           /\ wire[i].edit = Edit(shown.data, FullTokens(wire[i].text))

Inv == Numbered /\ Displayed /\ Snapshot /\ Pending

\* A full answer, applied, is what it carries.
LEMMA WholeApplies ==
    ASSUME NEW S, NEW t, FullTokens(t) \in Seq(S)
    PROVE  Applied(<< >>, Whole(t)) = FullTokens(t)
<1> DEFINE d == FullTokens(t)
<1>1. SubSeq(<< >>, 1, 0) = << >> BY SubSeqEmpty
<1>2. << >> \o d = d /\ d \o << >> = d BY ConcatEmptySeq
<1>3. Len(<< >>) = 0 OBVIOUS
<1> HIDE DEF d
<1>4. Whole(t) = [start |-> 0, delete |-> 0, data |-> d] BY DEF Whole, d
<1> QED BY <1>1, <1>2, <1>3, <1>4 DEF Applied, d

\* A sequence is one over its own elements.
LEMMA OwnElements ==
    ASSUME NEW X, NEW s \in Seq(X)
    PROVE  s \in Seq(Range(s))
<1>1. DOMAIN s = 1..Len(s) /\ Len(s) \in Nat OBVIOUS
<1>2. \A i \in 1..Len(s) : s[i] \in Range(s) BY <1>1 DEF Range
<1>3. s = [i \in 1..Len(s) |-> s[i]] OBVIOUS
<1>4. s \in [1..Len(s) -> Range(s)] BY <1>2, <1>3
<1> QED BY <1>1, <1>4, SeqDef

\* Nothing is sent, shown or remembered at first.
LEMMA InitHolds == ASSUME Init PROVE Inv
<1>1. None.id = 0 BY DEF None
<1>2. wire = << >> /\ counter = 0 /\ cache.id = 0 /\ shown.id = 0 BY <1>1 DEF Init
<1>3. wire \in Seq(Range(wire)) /\ Len(wire) = 0 BY <1>2
<1> QED BY <1>2, <1>3 DEF Inv, Numbered, Displayed, Snapshot, Pending

\* lsp_semantic_tokens_cache_store: an answer is sent and remembered.
LEMMA AnswerKeeps ==
    ASSUME Inv, IsText(text),
           NEW base, NEW old, Answer(base, old),
           base = 0 \/ (base > 0 /\ base = cache.id /\ base = shown.id /\ old = cache.data)
    PROVE  Inv'
<1> DEFINE data == FullTokens(text)
           e == IF base = 0 THEN Whole(text) ELSE Edit(old, data)
           m == [id |-> counter + 1, text |-> text, base |-> base, edit |-> e]
<1> USE DEF Inv
<1>1. /\ counter \in Nat /\ shown.id \in Nat /\ wire \in Seq(Range(wire)) /\ Len(wire) \in Nat
      /\ shown.id <= counter - Len(wire)
      /\ \A i \in 1..Len(wire) : wire[i].id = counter - Len(wire) + i /\ IsText(wire[i].text)
  BY DEF Numbered
<1>2. wire' = Append(wire, m) /\ counter' = counter + 1 /\ shown' = shown
  BY DEF Answer, Whole
<1>3. cache' = [id |-> counter + 1, data |-> data, text |-> << >>] BY DEF Answer
<1>4. base > 0 => Len(wire) = 0 /\ old = shown.data /\ shown.data = FullTokens(shown.text)
  BY <1>1 DEF Snapshot, Displayed
<1>5. /\ wire' \in Seq(Range(wire')) /\ Len(wire') = Len(wire) + 1
      /\ \A i \in 1..Len(wire) : wire'[i] = wire[i]
      /\ wire'[Len(wire) + 1] = m
  <2> DEFINE X == Range(wire) \cup {m}
  <2>1. wire \in Seq(X) /\ m \in X BY <1>1
  <2> HIDE DEF m, X
  <2>2. wire' \in Seq(X) BY <1>2, <2>1, AppendProperties
  <2>3. wire' \in Seq(Range(wire')) BY <2>2, OwnElements
  <2> QED BY <1>2, <2>1, <2>3, AppendProperties
<1>6. /\ m.id = counter + 1 /\ m.text = text /\ m.base = base /\ m.edit = e OBVIOUS
<1>7. cache'.id = counter + 1 /\ cache'.data = data BY <1>3
<1> HIDE DEF m
<1>8. Numbered'
  <2>1. \A i \in 1..Len(wire') : i \in 1..Len(wire) \/ i = Len(wire) + 1 BY <1>1, <1>5
  <2>2. \A i \in 1..Len(wire') : IsText(wire'[i].text) BY <1>1, <1>5, <1>6, <2>1
  <2>3. \A i \in 1..Len(wire') : wire'[i].id = counter' - Len(wire') + i BY <1>1, <1>2, <1>5, <1>6, <2>1
  <2>4. counter' \in Nat /\ shown'.id \in Nat /\ shown'.id <= counter' - Len(wire') BY <1>1, <1>2, <1>5
  <2> QED BY <1>5, <2>2, <2>3, <2>4 DEF Numbered
<1>9. Displayed' BY <1>2 DEF Displayed
<1>10. Snapshot'
  <2>1. cache'.id \in {0, counter'} /\ cache'.id /= shown'.id BY <1>1, <1>2, <1>7
  <2>2. ASSUME NEW i \in 1..Len(wire) PROVE wire'[i].id /= cache'.id
    <3>1. wire'[i] = wire[i] BY <1>5
    <3>2. wire[i].id = counter - Len(wire) + i BY <1>1
    <3>3. counter - Len(wire) + i /= counter + 1 BY <1>1
    <3>4. wire'[i].id = counter - Len(wire) + i BY <3>1, <3>2
    <3>5. cache'.id = counter + 1 BY <1>7
    <3> QED BY ONLY <3>3, <3>4, <3>5
  <2>3. wire'[Len(wire) + 1].text = text BY <1>5, <1>6
  <2>4. \A i \in 1..Len(wire') : i \in 1..Len(wire) \/ i = Len(wire) + 1 BY <1>1, <1>5
  <2> QED BY <2>1, <2>2, <2>3, <2>4, <1>7 DEF Snapshot
<1>11. Pending'
  <2> SUFFICES ASSUME NEW i \in 1..Len(wire')
               PROVE  \/ wire'[i].base = 0 /\ wire'[i].edit = Whole(wire'[i].text)
                      \/ /\ i = 1 /\ shown'.id > 0 /\ wire'[i].base = shown'.id
                         /\ wire'[i].edit = Edit(shown'.data, FullTokens(wire'[i].text))
    BY DEF Pending
  <2>1. CASE i \in 1..Len(wire) BY <2>1, <1>2, <1>5 DEF Pending
  <2>2. CASE i = Len(wire) + 1
    <3>1. wire'[i] = m BY <2>2, <1>5
    <3>2. CASE base = 0 BY <3>1, <3>2, <1>6
    <3>3. CASE base > 0
      <4>1. i = 1 /\ shown' = shown /\ shown.id = base BY <3>3, <2>2, <1>2, <1>4
      <4>2. e = Edit(shown.data, data) BY <3>3, <1>4
      <4> HIDE DEF e
      <4> QED BY <3>1, <3>3, <4>1, <4>2, <1>6
    <3> QED BY <3>2, <3>3
  <2> QED BY <2>1, <2>2, <1>1, <1>5
<1> QED BY <1>8, <1>9, <1>10, <1>11

\* The client applies the first answer on its way: a full one as it is, and a
\* difference to the very tokens it was made against.
LEMMA ReceiveKeeps ==
    ASSUME Inv, Receive
    PROVE  Inv'
<1> DEFINE m == wire[1]
<1> USE DEF Inv
<1>1. /\ counter \in Nat /\ shown.id \in Nat /\ wire \in Seq(Range(wire)) /\ wire /= << >>
      /\ shown.id <= counter - Len(wire)
      /\ \A i \in 1..Len(wire) : wire[i].id = counter - Len(wire) + i /\ IsText(wire[i].text)
  BY DEF Numbered, Receive
<1>2. /\ Len(wire) \in Nat /\ Len(wire) >= 1 /\ Head(wire) = m
      /\ wire' \in Seq(Range(wire)) /\ Len(wire') = Len(wire) - 1
      /\ \A i \in 1..Len(wire') : wire'[i] = wire[i + 1]
  BY <1>1, HeadTailProperties DEF Receive
<1>3. wire' \in Seq(Range(wire')) BY <1>2, OwnElements
<1>4. m.id = counter - Len(wire) + 1 /\ m.id \in Nat /\ m.id > 0 /\ IsText(m.text) BY <1>1, <1>2
<1>5. cache' = cache /\ counter' = counter BY DEF Receive
<1>6. shown' = [id |-> m.id, data |-> FullTokens(m.text), text |-> m.text]
  <2>1. CASE m.base = 0 /\ m.edit = Whole(m.text)
    <3> DEFINE S == Range(FullTokens(m.text))
    <3>3. FullTokens(m.text) \in Seq(S) BY <1>4, TokensAreGroups DEF AreGroups
    <3> HIDE DEF S
    <3>2. Applied(<< >>, Whole(m.text)) = FullTokens(m.text)
      <4> HIDE DEF m
      <4> QED BY <3>3, WholeApplies
    <3>1. Applied(<< >>, m.edit) = FullTokens(m.text) BY <2>1, <3>2
    <3> QED BY <2>1, <3>1, <1>2 DEF Receive
  <2>2. CASE shown.id > 0 /\ m.base = shown.id /\ m.edit = Edit(shown.data, FullTokens(m.text))
    <3> DEFINE old == FullTokens(shown.text)
               new == FullTokens(m.text)
               S   == Range(old) \cup Range(new)
    <3>1. old \in Seq(S) /\ shown.data = old
      <4>1. IsText(shown.text) /\ shown.data = old BY <2>2 DEF Displayed
      <4>2. old \in Seq(Range(old)) BY <4>1, TokensAreGroups DEF AreGroups
      <4> HIDE DEF old, new
      <4> QED BY <4>1, <4>2
    <3>2. new \in Seq(S)
      <4>1. new \in Seq(Range(new)) BY <1>4, TokensAreGroups DEF AreGroups
      <4> HIDE DEF old, new
      <4> QED BY <4>1
    <3> HIDE DEF S, old
    <3>5. m.edit = Edit(old, new) BY <2>2, <3>1
    <3>3. Applied(shown.data, m.edit) = new
      <4> HIDE DEF new, m
      <4> QED BY <3>1, <3>2, <3>5, DifferenceApplies
    <3>4. m.base /= 0 BY <2>2, <1>1
    <3> QED BY <2>2, <3>3, <3>4, <1>2 DEF Receive
  <2> QED BY <2>1, <2>2, <1>2 DEF Pending
<1>7. shown'.id = m.id /\ shown'.data = FullTokens(m.text) /\ shown'.text = m.text BY <1>6
<1> HIDE DEF m
<1>8. Numbered'
  <2>1. shown'.id <= counter' - Len(wire') BY <1>1, <1>2, <1>4, <1>5, <1>7
  <2>2. ASSUME NEW i \in 1..Len(wire') PROVE wire'[i].id = counter' - Len(wire') + i /\ IsText(wire'[i].text)
    <3>1. i + 1 \in 1..Len(wire) /\ wire'[i] = wire[i + 1] BY <1>2
    <3>2. wire[i + 1].id = counter - Len(wire) + (i + 1) /\ IsText(wire[i + 1].text) BY <3>1, <1>1
    <3>3. counter' - Len(wire') + i = counter - Len(wire) + (i + 1) BY <1>1, <1>2, <1>5
    <3> QED BY <3>1, <3>2, <3>3
  <2> QED BY <2>1, <2>2, <1>1, <1>3, <1>4, <1>5, <1>7 DEF Numbered
<1>9. Displayed' BY <1>4, <1>7 DEF Displayed
<1>10. Snapshot'
  <2>1. cache.id > 0 /\ cache.id = m.id => cache.data = FullTokens(m.text)
    BY <1>2 DEF Snapshot, m
  <2>2. ASSUME NEW i \in 1..Len(wire'), cache.id > 0, wire'[i].id = cache.id
        PROVE  cache.data = FullTokens(wire'[i].text)
    <3>1. i + 1 \in 1..Len(wire) BY <1>2
    <3> QED BY <3>1, <2>2, <1>2 DEF Snapshot
  <2> QED BY <2>1, <2>2, <1>5, <1>7 DEF Snapshot
<1>11. Pending'
  <2>1. ASSUME NEW i \in 1..Len(wire')
        PROVE  wire'[i].base = 0 /\ wire'[i].edit = Whole(wire'[i].text)
    <3>1. i + 1 \in 1..Len(wire) /\ i + 1 /= 1 BY <1>2
    <3> QED BY <3>1, <1>2 DEF Pending
  <2> QED BY <2>1 DEF Pending
<1> QED BY <1>8, <1>9, <1>10, <1>11

\* A step of any other kind leaves what is on its way alone, or forgets it all.
LEMMA StepKeeps ==
    ASSUME IsText(text), Inv, [Next]_vars
    PROVE  Inv'
<1> DEFINE Same == UNCHANGED <<cache, counter, shown, wire>>
<1>1. ASSUME Same PROVE Inv'
  BY <1>1 DEF Inv, Numbered, Displayed, Snapshot, Pending
<1>2. ASSUME NEW t, Becomes(t) PROVE Same BY <1>2 DEF Becomes
<1>3. CASE DidOpen BY <1>3, <1>1 DEF DidOpen
<1>4. CASE DidClose
  <2>1. None.id = 0 BY DEF None
  <2>2. wire' = << >> /\ shown'.id = 0 /\ cache'.id = 0 /\ counter' = counter /\ counter \in Nat
    BY <1>4, <2>1 DEF DidClose, Inv, Numbered
  <2>3. wire' \in Seq(Range(wire')) /\ Len(wire') = 0 BY <2>2
  <2> QED BY <2>2, <2>3 DEF Inv, Numbered, Displayed, Snapshot, Pending
<1>5. CASE DidSave
  <2>1. None.id = 0 BY DEF None
  <2>2. cache'.id = 0 /\ UNCHANGED <<counter, shown, wire>> BY <1>5, <2>1 DEF DidSave
  <2> QED BY <2>2 DEF Inv, Numbered, Displayed, Snapshot, Pending
<1>6. CASE DidChange BY <1>6, <1>2, <1>1 DEF DidChange
<1>7. CASE FormatDocument BY <1>7, <1>2, <1>1 DEF FormatDocument
<1>8. CASE FormatRange BY <1>8, <1>2, <1>1 DEF FormatRange
<1>9. CASE RenameVariable BY <1>9, <1>2, <1>1 DEF RenameVariable
<1>10. CASE TokensFull
  <2>1. Answer(0, << >>) BY <1>10 DEF TokensFull
  <2> QED BY <2>1, AnswerKeeps
<1>11. CASE TokensDelta
  <2>1. CASE cache.id = shown.id
    <3>1. Answer(cache.id, cache.data) /\ cache.id > 0 BY <1>11, <2>1 DEF TokensDelta
    <3> QED BY <2>1, <3>1, AnswerKeeps
  <2>2. CASE cache.id /= shown.id
    <3>1. Answer(0, cache.data) BY <1>11, <2>2 DEF TokensDelta
    <3> QED BY <3>1, AnswerKeeps
  <2> QED BY <2>1, <2>2
<1>12. CASE Receive BY <1>12, ReceiveKeeps
<1>13. CASE UNCHANGED vars BY <1>13, <1>1 DEF vars
<1> QED BY <1>3, <1>4, <1>5, <1>6, <1>7, <1>8, <1>9, <1>10, <1>11, <1>12, <1>13 DEF Next

\* A client that applies the differences it is sent shows the tokens of the
\* text each answer was made for, however long the document is edited, saved,
\* closed and opened again while answers travel.
THEOREM ClientShowsTokens == Spec => []TokensShown
<1>1. Init => Inv BY InitHolds
<1>2. IsText(text) /\ Inv /\ [Next]_vars => Inv' BY StepKeeps
<1>3. Inv => TokensShown BY DEF Inv, Displayed, TokensShown
<1> QED BY <1>1, <1>2, <1>3, StaysOneText, PTL DEF Spec
==============================================================================
