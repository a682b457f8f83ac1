---------------------------- MODULE PsalmLsProofs ----------------------------
(***************************************************************************)
(* What holds of the proxy of Psalm's language server for any documents,   *)
(* limits, texts and either choice of the options: its restarts come in    *)
(* bounded bursts, Psalm has the texts of the editor, and every answer     *)
(* finds its question, is about the text that the question was about, and  *)
(* is found under its key only while that text is the document's, unless   *)
(* the document was closed in between.                                     *)
(*                                                                         *)
(* The handlers lead from world to world, so the proofs go by what they    *)
(* are made of: telling Psalm of texts, scheduling, asking.                *)
(***************************************************************************)
EXTENDS PsalmLs, FiniteSetTheorems, SequenceTheorems, TLAPS

\* The types of a session, of its process and of a world.
Questions == [id : Nat, doc : Docs, version : Nat, about : Nat, closed : BOOLEAN]
Jobs      == [id : Nat, doc : Docs, text : Nat]
Entries   == [doc : Docs, version : Nat, text : Nat, about : Nat, closed : BOOLEAN]
Messages  == [kind : {"greeting"}] \cup [kind : {"answer"}, id : Nat, text : Nat]
               \cup [kind : {"failure"}, id : Nat] \cup [kind : {"diagnostics"}, doc : Docs]
Sessions  == [there : BOOLEAN, up : BOOLEAN, ready : BOOLEAN, failed : BOOLEAN,
              pipes : BOOLEAN, strikes : Nat, age : Nat, next : Nat,
              pending : SUBSET Questions]
Psalms    == [state : {"alive", "closing", "exited", "gone"}, greeted : BOOLEAN,
              text : [Docs -> Nat], jobs : SUBSET Jobs, out : Seq(Messages)]
Worlds    == [session : Sessions, psalm : Psalms, recent : SUBSET Nat]

StoreOK ==
    /\ documents \in [Docs -> Nat] /\ version \in [Docs -> Nat]
    /\ editor \in SUBSET Docs
    /\ disk \in [Docs -> Nat \ {NoText}]
    /\ last \in Nat
    /\ cache \in SUBSET Entries
    /\ call \in [op : {"none", "scan", "open", "change", "save", "complete"},
                 doc : SUBSET Docs, pump : BOOLEAN, again : BOOLEAN]
TypeOK == StoreOK /\ session \in Sessions /\ psalm \in Psalms /\ recent \in SUBSET Nat

-----------------------------------------------------------------------------
(* The inductive invariant.                                                *)

\* The starts of the last Healthy ticks are no more than the strikes account
\* for, and none is more recent than the last attempt to start.
Bounded(s, starts) ==
    /\ starts \subseteq 0 .. Healthy
    /\ \A a \in starts : s.age <= a
    /\ Cardinality(starts) <= s.strikes + 1
    /\ s.strikes <= MaxRestarts
    /\ ~ s.there => starts = {} /\ s.strikes = 0

\* A Psalm that listens has the texts of some documents: of all that the editor
\* has, but for the one of which a handler has yet to tell it.
Current(s, p, table, ds) ==
    OnChange /\ s.up /\ s.ready => \A d \in ds : p.text[d] = table[d]
Untold == IF call.op \in {"open", "change"} THEN call.doc ELSE {}

OpenOK ==
    /\ \A d \in editor : documents[d] /= NoText
    /\ call.doc \subseteq editor
    /\ call.op \in {"none", "scan"} => call.doc = {}
    /\ \A d, e \in call.doc : d = e

\* Of one id there is one question, and one job or answer at most; what a job
\* or an answer is about has a question with its id and about its text.
IsReply(m) == m.kind \in {"answer", "failure"}
Replies(p) == {k \in 1 .. Len(p.out) : IsReply(p.out[k])}
OneOfEach(s, p) ==
    /\ \A q \in s.pending : q.id < s.next
    /\ \A q, r \in s.pending : q.id = r.id => q = r
    /\ \A i, j \in p.jobs : i.id = j.id => i = j
    /\ \A k, l \in Replies(p) : p.out[k].id = p.out[l].id => k = l
    /\ \A j \in p.jobs, k \in Replies(p) : j.id /= p.out[k].id
HasQuestion(s, id)      == \E q \in s.pending : q.id = id
OfText(s, id, t)        == OnChange => \A q \in s.pending : q.id = id => q.about = t
Matched(s, p) ==
    /\ \A j \in p.jobs : HasQuestion(s, j.id) /\ OfText(s, j.id, j.text)
    /\ \A k \in Replies(p) :
          /\ HasQuestion(s, p.out[k].id)
          /\ p.out[k].kind = "answer" => OfText(s, p.out[k].id, p.out[k].text)
Fits(s, p) == s.pipes => OneOfEach(s, p) /\ Matched(s, p)

CacheOK == OnChange => \A c \in cache : c.text = c.about

IInv ==
    /\ TypeOK
    /\ Bounded(session, recent)
    /\ OpenOK /\ Current(session, psalm, documents, editor \ Untold)
    /\ Fits(session, psalm)
    /\ CacheOK

-----------------------------------------------------------------------------
(* What the parts of a handler do to a world.                              *)

\* A session that may have failed, and is otherwise as it was.
MayHaveFailed(s, t) ==
    /\ t.there = s.there /\ t.ready = s.ready /\ t.pipes = s.pipes
    /\ t.strikes = s.strikes /\ t.age = s.age /\ t.next = s.next
    /\ t.pending = s.pending /\ (t.up => s.up)

SameWork(p, q) == q.jobs = p.jobs /\ q.out = p.out

\* The fields of a world whose session, or whose process, is another one.
LEMMA SessionFields ==
    ASSUME NEW w \in Worlds, NEW s \in Sessions
    PROVE  /\ [w EXCEPT !.session = s] \in Worlds
           /\ [w EXCEPT !.session = s].session = s
           /\ [w EXCEPT !.session = s].psalm = w.psalm
           /\ [w EXCEPT !.session = s].recent = w.recent
  BY DEF Worlds

LEMMA PsalmFields ==
    ASSUME NEW w \in Worlds, NEW p \in Psalms
    PROVE  /\ [w EXCEPT !.psalm = p] \in Worlds
           /\ [w EXCEPT !.psalm = p].session = w.session
           /\ [w EXCEPT !.psalm = p].psalm = p
           /\ [w EXCEPT !.psalm = p].recent = w.recent
  BY DEF Worlds

LEMMA DownFacts ==
    ASSUME NEW w \in Worlds
    PROVE  /\ Down(w) \in Worlds /\ Down(w).psalm = w.psalm /\ Down(w).recent = w.recent
           /\ MayHaveFailed(w.session, Down(w).session) /\ ~ Down(w).session.up
<1>1. w.session \in Sessions
  BY DEF Worlds
<1>2. /\ [w.session EXCEPT !.up = FALSE, !.failed = TRUE] \in Sessions
      /\ MayHaveFailed(w.session, [w.session EXCEPT !.up = FALSE, !.failed = TRUE])
      /\ ~ [w.session EXCEPT !.up = FALSE, !.failed = TRUE].up
  BY <1>1 DEF Sessions, MayHaveFailed
<1>3. Down(w) = [w EXCEPT !.session = [w.session EXCEPT !.up = FALSE, !.failed = TRUE]]
  BY <1>1 DEF Down, Worlds, Sessions
<1>. QED  BY <1>1, <1>2, <1>3 DEF Worlds

\* Telling Psalm of texts sets them, unless it does not listen or is lost.
LEMMA SentFacts ==
    ASSUME NEW w \in Worlds, NEW texts, \A d \in DOMAIN texts : texts[d] \in Nat,
           NEW u \in Sent(w, texts)
    PROVE  /\ u \in Worlds /\ u.recent = w.recent
           /\ MayHaveFailed(w.session, u.session) /\ SameWork(w.psalm, u.psalm)
           /\ Listening(u) => Listening(w) /\ \A d \in Docs :
                u.psalm.text[d] = IF d \in DOMAIN texts THEN texts[d] ELSE w.psalm.text[d]
<1>1. w.session \in Sessions /\ w.psalm \in Psalms
  BY DEF Worlds
<1>2. MayHaveFailed(w.session, w.session) /\ SameWork(w.psalm, w.psalm)
  BY DEF MayHaveFailed, SameWork
<1>3. CASE u = Down(w)
  BY <1>3, <1>2, DownFacts DEF Listening, SameWork
<1>4. CASE u = w /\ ~ Listening(w)
  BY <1>2, <1>4
<1>. DEFINE new == [d \in Docs |-> IF d \in DOMAIN texts THEN texts[d] ELSE w.psalm.text[d]]
            p == [w.psalm EXCEPT !.text = new]
<1>5. CASE Listening(w) /\ u = [w EXCEPT !.psalm = p]
  <2>1. new \in [Docs -> Nat]
    BY <1>1 DEF Psalms
  <2>. HIDE DEF new
  <2>2. p \in Psalms /\ p.text = new /\ SameWork(w.psalm, p)
    BY <1>1, <2>1 DEF Psalms, SameWork
  <2>. HIDE DEF p
  <2>3. /\ u \in Worlds /\ u.session = w.session /\ u.psalm = p /\ u.recent = w.recent
    BY <1>5, <1>1, <2>2, PsalmFields
  <2>. QED  BY <1>2, <1>5, <2>2, <2>3 DEF new
<1>6. [w EXCEPT !.psalm.text =
          [d \in Docs |-> IF d \in DOMAIN texts THEN texts[d] ELSE @[d]]]
        = [w EXCEPT !.psalm = p]
  BY <1>1 DEF Worlds, Psalms
<1>. QED  BY <1>3, <1>4, <1>5, <1>6 DEF Sent

\* Scheduling keeps the session, but for its strikes and the age of the last
\* attempt, or starts another one.
Struck(s, t) ==
    /\ t.there = s.there /\ t.up = s.up /\ t.ready = s.ready /\ t.pipes = s.pipes
    /\ t.next = s.next /\ t.pending = s.pending
    /\ \/ t.strikes = s.strikes /\ t.age = s.age
       \/ Due(s) /\ t.strikes = Cleared(s) /\ t.age = s.age
       \/ ~ s.there /\ t.strikes = Cleared(s) /\ t.age = s.age
       \/ Due(s) /\ t.strikes = Cleared(s) + 1 /\ t.age = 0

LEMMA NewFacts ==
    ASSUME NEW n \in Nat
    PROVE  /\ NewSession(n) \in Sessions /\ NewPsalm \in Psalms
           /\ NewSession(n).there /\ ~ NewSession(n).ready /\ NewSession(n).strikes = n
           /\ NewSession(n).age = 0 /\ NewSession(n).pending = {}
           /\ NewPsalm.jobs = {} /\ NewPsalm.out = <<>>
<1>1. Nowhere \in [Docs -> Nat]
  BY DEF Nowhere, NoText
<1>2. <<>> \in Seq(Messages)
  OBVIOUS
<1>. QED  BY <1>1, <1>2 DEF NewSession, NewPsalm, Sessions, Psalms

LEMMA ScheduledFacts ==
    ASSUME NEW w \in Worlds, NEW u \in Scheduled(w)
    PROVE  /\ u \in Worlds
           /\ \/ /\ u.psalm = w.psalm /\ u.recent = w.recent
                 /\ Struck(w.session, u.session)
              \/ /\ u.session = NewSession(IF w.session.there
                                            THEN Cleared(w.session) + 1 ELSE 0)
                 /\ u.psalm = NewPsalm /\ u.recent = w.recent \cup {0}
                 /\ w.session.there => Due(w.session)
<1>. DEFINE s == w.session
<1>1. s \in Sessions /\ w.psalm \in Psalms /\ w.recent \in SUBSET Nat
  BY DEF Worlds
<1>2. Cleared(s) \in Nat
  BY <1>1 DEF Cleared, Sessions
<1>. HIDE DEF s
<1>3. CASE u = w
  BY <1>3 DEF Struck, s
<1>4. CASE (s.there => Due(s)) /\ u = [w EXCEPT !.session.strikes = Cleared(s)]
  <2>. DEFINE t == [s EXCEPT !.strikes = Cleared(s)]
  <2>1. t \in Sessions /\ (t.strikes = Cleared(s)) /\ t.age = s.age /\ t.there = s.there
        /\ t.up = s.up /\ t.ready = s.ready /\ t.pipes = s.pipes
        /\ t.next = s.next /\ t.pending = s.pending
    BY <1>1, <1>2 DEF Sessions
  <2>2. u = [w EXCEPT !.session = t]
    BY <1>4 DEF s, Worlds
  <2>. HIDE DEF t
  <2>3. u \in Worlds /\ u.session = t /\ u.psalm = w.psalm /\ u.recent = w.recent
    BY <1>1, <2>1, <2>2, SessionFields
  <2>4. Struck(s, t)
    BY <1>4, <2>1 DEF Struck, Due, Sessions
  <2>. QED  BY <2>3, <2>4 DEF s
<1>5. CASE s.there /\ Due(s) /\ u = Unstarted(w)
  <2>. DEFINE n == Cleared(s) + 1
              t == [s EXCEPT !.strikes = n, !.age = 0]
  <2>0. n \in Nat
    BY <1>2
  <2>. HIDE DEF n
  <2>1. t \in Sessions /\ t.strikes = n /\ t.age = 0 /\ t.there = s.there
        /\ t.up = s.up /\ t.ready = s.ready /\ t.pipes = s.pipes
        /\ t.next = s.next /\ t.pending = s.pending
    BY <1>1, <2>0 DEF Sessions
  <2>2. u = [w EXCEPT !.session = t]
    BY <1>5, <1>1 DEF s, n, Worlds, Unstarted, Sessions
  <2>. HIDE DEF t
  <2>3. u \in Worlds /\ u.session = t /\ u.psalm = w.psalm /\ u.recent = w.recent
    BY <1>1, <2>1, <2>2, SessionFields
  <2>4. Struck(s, t)
    BY <1>5, <2>1 DEF Struck, n
  <2>. QED  BY <2>3, <2>4 DEF s
<1>6. CASE (s.there => Due(s)) /\ u = Started(w)
  <2>. DEFINE n == IF s.there THEN Cleared(s) + 1 ELSE 0
  <2>1. n \in Nat
    BY <1>2
  <2>2. NewSession(n) \in Sessions /\ NewPsalm \in Psalms
    BY <2>1, NewFacts
  <2>3. u = [session |-> NewSession(n), psalm |-> NewPsalm, recent |-> w.recent \cup {0}]
    BY <1>6 DEF Started, Worlds, s
  <2>4. u \in Worlds
    BY <1>1, <2>2, <2>3 DEF Worlds
  <2>5. u.session = NewSession(n) /\ u.psalm = NewPsalm /\ u.recent = w.recent \cup {0}
    BY <2>3
  <2>. QED  BY <1>6, <2>4, <2>5 DEF s
<1>7. CASE ~ s.there /\ u = Unstarted(w)
  BY <1>3, <1>7 DEF Unstarted, s
<1>8. Due(s) => s.there
  BY DEF Due
<1>. QED  BY <1>3, <1>4, <1>5, <1>6, <1>7, <1>8 DEF Scheduled, s

-----------------------------------------------------------------------------
(* Restarts.                                                               *)

LEMMA TicksFinite == IsFiniteSet(0 .. Healthy)
<1>1. 0 \in Int /\ Healthy \in Int
  BY TimeAssumption
<1>. QED  BY <1>1, FS_Interval

LEMMA BoundedScheduled ==
    ASSUME NEW w \in Worlds, Bounded(w.session, w.recent), NEW u \in Scheduled(w)
    PROVE  Bounded(u.session, u.recent)
<1>. DEFINE s == w.session  R == w.recent  c == Cleared(s)
<1>1. /\ s \in Sessions /\ R \in SUBSET Nat /\ c \in Nat /\ s.strikes \in Nat
      /\ s.age \in Nat /\ Healthy \in Nat /\ MaxRestarts \in Nat
  BY TimeAssumption DEF Worlds, Sessions, Cleared
<1>2. IsFiniteSet(R) /\ Cardinality(R) \in Nat
  <2>1. IsFiniteSet(0 .. Healthy)
    BY TicksFinite
  <2>2. R \subseteq 0 .. Healthy
    BY DEF Bounded
  <2>. QED  BY <2>1, <2>2, FS_Subset, FS_CardinalityType
<1>3. IsFiniteSet(R \cup {0}) /\ Cardinality(R \cup {0}) \in Nat
      /\ Cardinality(R \cup {0}) <= Cardinality(R) + 1
  <2>1. IsFiniteSet(R \cup {0})
        /\ (Cardinality(R \cup {0}) = Cardinality(R)
            \/ Cardinality(R \cup {0}) = Cardinality(R) + 1)
    BY <1>2, FS_AddElement
  <2>. QED  BY <1>2, <2>1
<1>4. Cardinality(R) <= c + 1 /\ c <= s.strikes /\ (c /= s.strikes => R = {})
  <2>1. CASE s.strikes > 0 /\ s.age > Healthy
    <3>1. c = 0
      BY <2>1 DEF Cleared
    <3>2. R = {}
      <4>1. \A a \in R : a \in 0 .. Healthy /\ s.age <= a
        BY DEF Bounded
      <4>2. \A a \in R : FALSE
        BY <1>1, <2>1, <4>1
      <4>. QED  BY <4>2
    <3>3. Cardinality(R) = 0
      BY <3>2, FS_EmptySet
    <3>. QED  BY <1>1, <3>1, <3>2, <3>3
  <2>2. CASE ~ (s.strikes > 0 /\ s.age > Healthy)
    <3>1. c = s.strikes
      BY <2>2 DEF Cleared
    <3>. QED  BY <1>1, <3>1 DEF Bounded
  <2>. QED  BY <2>1, <2>2
<1>5. Due(s) => s.there /\ c < MaxRestarts
  BY DEF Due
<1>6. /\ R \subseteq 0 .. Healthy /\ R \cup {0} \subseteq 0 .. Healthy
      /\ \A a \in R : s.age <= a /\ a \in Nat
      /\ s.strikes <= MaxRestarts /\ (~ s.there => R = {} /\ s.strikes = 0)
  BY <1>1 DEF Bounded
<1>7. CASE u.recent = R /\ Struck(s, u.session)
  <2>0. /\ u.session.there = s.there
        /\ \/ u.session.strikes = s.strikes
           \/ u.session.strikes = c
           \/ c < MaxRestarts /\ s.there /\ u.session.strikes = c + 1
    BY <1>5, <1>7 DEF Struck
  <2>. HIDE DEF c, s, R
  <2>1. Cardinality(R) <= u.session.strikes + 1
    BY <1>1, <1>2, <1>4, <2>0
  <2>2. u.session.strikes <= MaxRestarts
    BY <1>1, <1>4, <1>6, <2>0
  <2>3. \A a \in R : u.session.age <= a
    BY <1>6, <1>7 DEF Struck
  <2>4. ~ u.session.there => R = {} /\ u.session.strikes = 0
    BY <1>1, <1>4, <1>6, <2>0
  <2>. QED  BY <1>6, <1>7, <2>1, <2>2, <2>3, <2>4 DEF Bounded
<1>8. CASE /\ u.session = NewSession(IF s.there THEN c + 1 ELSE 0)
           /\ u.recent = R \cup {0} /\ (s.there => Due(s))
  <2>. DEFINE n == IF s.there THEN c + 1 ELSE 0
  <2>1. n \in Nat /\ n <= MaxRestarts /\ Cardinality(R \cup {0}) <= n + 1
    <3>1. CASE s.there
      BY <1>1, <1>2, <1>3, <1>4, <1>5, <1>8, <3>1
    <3>2. CASE ~ s.there
      <4>1. R = {} /\ Cardinality({}) = 0
        BY <1>6, <3>2, FS_EmptySet
      <4>. QED  BY <1>1, <1>3, <3>2, <4>1
    <3>. QED  BY <3>1, <3>2
  <2>2. u.session.age = 0 /\ u.session.strikes = n /\ u.session.there
    BY <1>8, <2>1, NewFacts
  <2>3. \A a \in R \cup {0} : u.session.age <= a
    BY <1>6, <2>2
  <2>. HIDE DEF n
  <2>. QED  BY <1>6, <1>8, <2>1, <2>2, <2>3 DEF Bounded
<1>. QED  BY <1>7, <1>8, ScheduledFacts

LEMMA BoundedKept ==
    ASSUME NEW s, NEW t, NEW R, Bounded(s, R), t.strikes = s.strikes, t.age = s.age,
           t.there = s.there
    PROVE  Bounded(t, R)
  BY DEF Bounded

LEMMA BoundedTick ==
    ASSUME TypeOK, Bounded(session, recent), Tick
    PROVE  Bounded(session, recent)'
<1>1. /\ session \in Sessions /\ session.there /\ session.age \in Nat
      /\ Healthy \in Nat /\ session.strikes \in Nat
  BY TimeAssumption DEF TypeOK, Sessions, Tick
<1>2. /\ session'.strikes = session.strikes /\ session'.there = session.there
      /\ session'.age = IF session.age > Healthy THEN session.age ELSE session.age + 1
  BY <1>1 DEF Tick, Sessions
<1>. DEFINE next == {a + 1 : a \in recent}
<1>3. recent' = next \cap 0 .. Healthy
  BY DEF Tick
<1>4. \A a \in recent : a \in 0 .. Healthy /\ session.age <= a
  BY DEF Bounded
<1>5. IsFiniteSet(recent)
  <2>1. IsFiniteSet(0 .. Healthy)
    BY TicksFinite
  <2>. QED  BY <1>4, <2>1, FS_Subset
<1>6. IsFiniteSet(next) /\ Cardinality(next) <= Cardinality(recent)
  <2>. DEFINE f == [a \in recent |-> a + 1]
  <2>1. f \in Surjection(recent, next)
    BY DEF Surjection
  <2>. QED  BY <1>5, <2>1, FS_Surjection
<1>. HIDE DEF next
<1>7. IsFiniteSet(recent') /\ Cardinality(recent') <= Cardinality(next)
  BY <1>3, <1>6, FS_Subset
<1>8. /\ Cardinality(recent') \in Nat /\ Cardinality(next) \in Nat
      /\ Cardinality(recent) \in Nat
  BY <1>5, <1>6, <1>7, FS_CardinalityType
<1>9. Cardinality(recent') <= session'.strikes + 1 /\ session'.strikes <= MaxRestarts
  BY <1>1, <1>2, <1>6, <1>7, <1>8 DEF Bounded
<1>10. \A b \in recent' : session'.age <= b
  BY <1>1, <1>2, <1>3, <1>4 DEF next
<1>. QED  BY <1>1, <1>2, <1>3, <1>9, <1>10 DEF Bounded

-----------------------------------------------------------------------------
(* Worlds in which all is well, with Psalm current on some documents.      *)

Good(w, table, ds) ==
    /\ w \in Worlds /\ Bounded(w.session, w.recent) /\ Fits(w.session, w.psalm)
    /\ Current(w.session, w.psalm, table, ds)

\* The state is a world, and becomes the world that a step leads to.
LEMMA WorldGood ==
    ASSUME IInv
    PROVE  /\ Good(World, documents, editor \ Untold)
           /\ World.session = session /\ World.psalm = psalm /\ World.recent = recent
  BY DEF IInv, TypeOK, Good, World, Worlds

LEMMA BecomeGood ==
    ASSUME NEW w, NEW ds, Good(w, documents', ds), Become(w)
    PROVE  /\ session' \in Sessions /\ psalm' \in Psalms /\ recent' \in SUBSET Nat
           /\ Bounded(session', recent') /\ Fits(session', psalm')
           /\ Current(session', psalm', documents', ds)
  BY DEF Good, Become, Worlds

LEMMA FitsKept ==
    ASSUME NEW s, NEW t, NEW p, NEW q, Fits(s, p), SameWork(p, q),
           t.pipes = s.pipes, t.next = s.next, t.pending = s.pending
    PROVE  Fits(t, q)
  BY DEF Fits, SameWork, OneOfEach, Matched, HasQuestion, OfText, Replies

LEMMA FitsNew ==
    ASSUME NEW n \in Nat
    PROVE  Fits(NewSession(n), NewPsalm)
<1>1. NewSession(n).pending = {} /\ NewPsalm.jobs = {} /\ Replies(NewPsalm) = {}
  BY DEF NewSession, NewPsalm, Replies
<1>. QED  BY <1>1 DEF Fits, OneOfEach, Matched

\* Telling Psalm of texts makes it current on these.
LEMMA GoodSent ==
    ASSUME NEW w, NEW table, NEW ds, Good(w, table, ds),
           NEW texts, \A d \in DOMAIN texts : texts[d] \in Nat,
           NEW u \in Sent(w, texts), NEW es \in SUBSET Docs,
           \A d \in es : IF d \in DOMAIN texts THEN texts[d] = table[d] ELSE d \in ds
    PROVE  Good(u, table, es)
<1>1. w \in Worlds
  BY DEF Good
<1>2. /\ u \in Worlds /\ u.recent = w.recent
      /\ MayHaveFailed(w.session, u.session) /\ SameWork(w.psalm, u.psalm)
      /\ Listening(u) => Listening(w) /\ \A d \in Docs :
           u.psalm.text[d] = IF d \in DOMAIN texts THEN texts[d] ELSE w.psalm.text[d]
  BY <1>1, SentFacts
<1>3. Bounded(u.session, u.recent)
  BY <1>2, BoundedKept DEF Good, MayHaveFailed
<1>4. Fits(u.session, u.psalm)
  BY <1>2, FitsKept DEF Good, MayHaveFailed
<1>5. Current(u.session, u.psalm, table, es)
  BY <1>2 DEF Good, Current, Listening
<1>. QED  BY <1>2, <1>3, <1>4, <1>5 DEF Good

LEMMA GoodScheduled ==
    ASSUME NEW w, NEW table, NEW ds, Good(w, table, ds), NEW u \in Scheduled(w)
    PROVE  Good(u, table, ds)
<1>1. w \in Worlds
  BY DEF Good
<1>2. u \in Worlds
  BY <1>1, ScheduledFacts
<1>3. Bounded(u.session, u.recent)
  BY <1>1, BoundedScheduled DEF Good
<1>4. CASE u.psalm = w.psalm /\ Struck(w.session, u.session)
  <2>1. Fits(u.session, u.psalm)
    BY <1>4, FitsKept DEF Good, Struck, SameWork
  <2>2. Current(u.session, u.psalm, table, ds)
    BY <1>4 DEF Good, Current, Struck
  <2>. QED  BY <1>2, <1>3, <2>1, <2>2 DEF Good
<1>5. CASE u.session = NewSession(IF w.session.there THEN Cleared(w.session) + 1 ELSE 0)
           /\ u.psalm = NewPsalm
  <2>. DEFINE n == IF w.session.there THEN Cleared(w.session) + 1 ELSE 0
  <2>1. n \in Nat
    BY <1>1 DEF Cleared, Worlds, Sessions
  <2>. HIDE DEF n
  <2>2. u.session = NewSession(n) /\ u.psalm = NewPsalm
    BY <1>5 DEF n
  <2>3. Fits(u.session, u.psalm) /\ ~ u.session.ready
    BY <2>1, <2>2, FitsNew, NewFacts
  <2>. QED  BY <1>2, <1>3, <2>3 DEF Good, Current
<1>. QED  BY <1>1, <1>4, <1>5, ScheduledFacts

\* A question about a document on which Psalm is current, under a new id.
LEMMA GoodAsked ==
    ASSUME TypeOK, NEW d \in Docs, NEW ds, d \in ds, NEW w, Good(w, documents, ds),
           NEW u \in Asked(w, d), ds \subseteq Docs
    PROVE  Good(u, documents, ds)
<1>. DEFINE s == w.session
            q == [id |-> s.next, doc |-> d, version |-> version[d],
                  about |-> documents[d], closed |-> FALSE]
            n == s.next + 1
            pend == s.pending \cup {q}
            t == [s EXCEPT !.next = n, !.pending = pend]
            v == [w EXCEPT !.session = t]
            job == [id |-> s.next, doc |-> d, text |-> w.psalm.text[d]]
<1>1. w \in Worlds /\ s \in Sessions /\ w.psalm \in Psalms /\ s.next \in Nat
      /\ documents[d] \in Nat /\ version[d] \in Nat
  BY DEF Good, Worlds, Sessions, TypeOK, StoreOK
<1>2. CASE ~ Listening(w)
  BY <1>2 DEF Asked
<1>3. CASE Listening(w)
  <2>1. q \in Questions /\ job \in Jobs /\ q.id = s.next /\ q.about = documents[d]
        /\ job.id = s.next /\ job.text = w.psalm.text[d]
    BY <1>1 DEF Questions, Jobs, Psalms
  <2>. HIDE DEF q, job
  <2>2. /\ t \in Sessions /\ t.next = s.next + 1 /\ t.pending = s.pending \cup {q}
        /\ t.there = s.there /\ t.up = s.up /\ t.ready = s.ready /\ t.pipes = s.pipes
        /\ t.strikes = s.strikes /\ t.age = s.age
    <3>1. n \in Nat /\ pend \in SUBSET Questions
      BY <1>1, <2>1 DEF Sessions
    <3>. HIDE DEF s
    <3>2. /\ t \in Sessions /\ t.next = n /\ t.pending = pend
          /\ t.there = s.there /\ t.up = s.up /\ t.ready = s.ready /\ t.pipes = s.pipes
          /\ t.strikes = s.strikes /\ t.age = s.age
      <4>. HIDE DEF n, pend
      <4>. QED  BY <1>1, <3>1 DEF Sessions
    <3>. QED  BY <3>2
  <2>. HIDE DEF t
  <2>3. /\ v \in Worlds /\ v.session = t /\ v.psalm = w.psalm /\ v.recent = w.recent
    BY <1>1, <2>2, SessionFields
  <2>4. /\ v = [w EXCEPT !.session.next = @ + 1, !.session.pending = @ \cup
                    {[id |-> w.session.next, doc |-> d, version |-> version[d],
                      about |-> documents[d], closed |-> FALSE]}]
    BY <1>1 DEF t, q, n, pend, Worlds, Sessions
  <2>5. PICK x \in Sent(v, <<>>) :
          u = IF Listening(x) THEN [x EXCEPT !.psalm.jobs = @ \cup {job}] ELSE x
    BY <1>3, <2>4 DEF Asked, job
  <2>. HIDE DEF v, s
  <2>6. Bounded(t, w.recent) /\ Current(t, w.psalm, documents, ds)
    BY <2>2, BoundedKept DEF Good, s, Current
  <2>7. Fits(t, w.psalm)
    <3>. SUFFICES ASSUME t.pipes PROVE OneOfEach(t, w.psalm) /\ Matched(t, w.psalm)
      BY DEF Fits
    <3>1. OneOfEach(s, w.psalm) /\ Matched(s, w.psalm)
      BY <2>2 DEF Good, Fits, s
    <3>2. \A r \in s.pending : r.id \in Nat /\ r.id < s.next
      BY <1>1, <3>1 DEF OneOfEach, Sessions, Questions
    <3>3. \A i : HasQuestion(s, i) => i /= s.next /\ HasQuestion(t, i)
      BY <2>2, <3>2, <1>1 DEF HasQuestion
    <3>4. \A i, a : i /= s.next /\ OfText(s, i, a) => OfText(t, i, a)
      BY <2>1, <2>2 DEF OfText
    <3>5. OneOfEach(t, w.psalm)
      <4>1. \A r \in t.pending : r.id < t.next
        BY <1>1, <2>1, <2>2, <3>2
      <4>2. \A r, r2 \in t.pending : r.id = r2.id => r = r2
        BY <1>1, <2>1, <2>2, <3>1, <3>2 DEF OneOfEach
      <4>. QED  BY <3>1, <4>1, <4>2 DEF OneOfEach
    <3>6. Matched(t, w.psalm)
      BY <3>1, <3>3, <3>4 DEF Matched
    <3>. QED  BY <3>5, <3>6
  <2>8. Good(v, documents, ds)
    BY <2>3, <2>6, <2>7 DEF Good
  <2>9. Good(x, documents, ds)
    <3>1. DOMAIN <<>> = {}
      OBVIOUS
    <3>. QED  BY <2>8, <3>1, GoodSent
  <2>10. /\ x \in Worlds /\ MayHaveFailed(t, x.session) /\ SameWork(w.psalm, x.psalm)
    <3>1. \A e \in DOMAIN <<>> : <<>>[e] \in Nat
      OBVIOUS
    <3>. QED  BY <2>3, <3>1, SentFacts
  <2>11. CASE ~ Listening(x)
    BY <2>5, <2>9, <2>11
  <2>12. CASE Listening(x)
    <3>. DEFINE p == [x.psalm EXCEPT !.jobs = @ \cup {job}]
    <3>1. x.psalm \in Psalms /\ x.session \in Sessions
      BY <2>10 DEF Worlds
    <3>2. p \in Psalms /\ p.jobs = x.psalm.jobs \cup {job} /\ p.out = x.psalm.out
          /\ p.text = x.psalm.text
      BY <2>1, <3>1 DEF Psalms
    <3>3. u = [x EXCEPT !.psalm = p]
      BY <2>5, <2>12, <3>1 DEF Worlds, Psalms
    <3>. HIDE DEF p
    <3>4. u \in Worlds /\ u.session = x.session /\ u.psalm = p /\ u.recent = x.recent
      BY <2>10, <3>1, <3>2, <3>3, PsalmFields
    <3>5. Bounded(u.session, u.recent) /\ Current(u.session, u.psalm, documents, ds)
      BY <2>9, <3>2, <3>4 DEF Good, Current
    <3>6. Fits(x.session, p)
      <4>. SUFFICES ASSUME x.session.pipes
                    PROVE  OneOfEach(x.session, p) /\ Matched(x.session, p)
        BY DEF Fits
      <4>1. OneOfEach(x.session, x.psalm) /\ Matched(x.session, x.psalm)
        BY <2>9 DEF Good, Fits
      <4>2. OneOfEach(s, w.psalm) /\ Matched(s, w.psalm)
        BY <2>2, <2>10 DEF Good, Fits, s, MayHaveFailed
      <4>3. \A i : HasQuestion(s, i) => i /= s.next
        <5>1. \A r \in s.pending : r.id \in Nat /\ r.id < s.next
          BY <1>1, <4>2 DEF OneOfEach, Sessions, Questions
        <5>. QED  BY <1>1, <5>1 DEF HasQuestion
      <4>4. /\ \A j \in x.psalm.jobs : j.id /= s.next
            /\ \A k \in Replies(x.psalm) : x.psalm.out[k].id /= s.next
        BY <2>10, <4>2, <4>3 DEF Matched, SameWork, Replies
      <4>5. Replies(p) = Replies(x.psalm)
        BY <3>2 DEF Replies
      <4>6. OneOfEach(x.session, p)
        BY <2>1, <3>2, <4>1, <4>4, <4>5 DEF OneOfEach
      <4>7. HasQuestion(x.session, s.next) /\ OfText(x.session, s.next, w.psalm.text[d])
        <5>1. x.session.pending = s.pending \cup {q}
          BY <2>2, <2>10 DEF MayHaveFailed
        <5>2. \A r \in s.pending : r.id /= s.next
          BY <4>3 DEF HasQuestion
        <5>3. OnChange => w.psalm.text[d] = documents[d]
          BY <1>3 DEF Good, Current, Listening
        <5>. QED  BY <2>1, <5>1, <5>2, <5>3 DEF HasQuestion, OfText
      <4>8. Matched(x.session, p)
        BY <2>1, <3>2, <4>1, <4>5, <4>7 DEF Matched
      <4>. QED  BY <4>6, <4>8
    <3>. QED  BY <3>4, <3>5, <3>6 DEF Good
  <2>. QED  BY <2>11, <2>12
<1>. QED  BY <1>2, <1>3

-----------------------------------------------------------------------------
(* The steps.                                                              *)

LEMMA InitInv == Init => IInv
<1>. SUFFICES ASSUME Init PROVE IInv
  OBVIOUS
<1>1. NewSession(0) \in Sessions /\ NewPsalm \in Psalms
  BY NewFacts
<1>2. /\ session \in Sessions /\ ~ session.there /\ ~ session.up /\ ~ session.pipes
      /\ session.strikes = 0 /\ session.age = 0
  BY <1>1 DEF Init, NoSession, NewSession, Sessions
<1>3. psalm \in Psalms
  BY <1>1 DEF Init, NoPsalm, NewPsalm, Psalms
<1>4. StoreOK
  BY DEF Init, StoreOK, Nowhere, NoText, NoCall
<1>5. Bounded(session, recent)
  <2>1. Cardinality({}) = 0 /\ MaxRestarts \in Nat
    BY FS_EmptySet, TimeAssumption
  <2>. QED  BY <1>2, <2>1 DEF Init, Bounded
<1>6. OpenOK /\ CacheOK
  BY DEF Init, OpenOK, CacheOK, NoCall
<1>. QED
  BY <1>2, <1>3, <1>4, <1>5, <1>6 DEF IInv, TypeOK, Current, Fits, Init

\* A step that ends in a good world, with the texts and the handler in order.
LEMMA Becomes ==
    ASSUME NEW w, Good(w, documents', (editor \ Untold)'), Become(w),
           StoreOK', OpenOK', CacheOK'
    PROVE  IInv'
<1>1. /\ session' \in Sessions /\ psalm' \in Psalms /\ recent' \in SUBSET Nat
      /\ Bounded(session', recent') /\ Fits(session', psalm')
      /\ Current(session', psalm', documents', (editor \ Untold)')
  BY BecomeGood
<1>. QED  BY <1>1 DEF IInv, TypeOK

\* The store and the handler as they were.
LEMMA StoreKept ==
    ASSUME IInv, UNCHANGED <<store, call>>
    PROVE  /\ StoreOK' /\ OpenOK' /\ CacheOK' /\ documents' = documents
           /\ (editor \ Untold)' = editor \ Untold
  BY DEF IInv, TypeOK, StoreOK, OpenOK, CacheOK, store, Untold

\* A handler begins: it is of the kind and about the documents that it says.
LEMMA BeginFacts ==
    ASSUME NEW op \in {"scan", "open", "change", "save", "complete"},
           NEW ds \in SUBSET Docs, NEW w, Begin(op, ds, w)
    PROVE  /\ Become(w) /\ call'.op = op /\ call'.doc = ds
           /\ call' \in [op : {"none", "scan", "open", "change", "save", "complete"},
                         doc : SUBSET Docs, pump : BOOLEAN, again : BOOLEAN]
  BY DEF Begin

LEMMA IdleFacts ==
    ASSUME Idle
    PROVE  call.doc = {} /\ call.op = "none" /\ Untold = {}
  BY DEF Idle, NoCall, Untold

\* Psalm alone moves: what it has been told stays, and its work fits.
LEMMA PsalmMoves ==
    ASSUME IInv, UNCHANGED Others, psalm' \in Psalms, psalm'.text = psalm.text,
           Fits(session, psalm')
    PROVE  IInv'
<1>1. StoreOK' /\ OpenOK' /\ CacheOK' /\ documents' = documents
      /\ (editor \ Untold)' = editor \ Untold
  BY StoreKept DEF Others
<1>2. session' = session /\ recent' = recent
  BY DEF Others
<1>3. Current(session', psalm', documents', (editor \ Untold)')
  BY <1>1, <1>2 DEF IInv, Current
<1>. QED  BY <1>1, <1>2, <1>3 DEF IInv, TypeOK

LEMMA TickInv == ASSUME IInv, Tick PROVE IInv'
<1>1. StoreOK' /\ OpenOK' /\ CacheOK' /\ documents' = documents
      /\ (editor \ Untold)' = editor \ Untold /\ psalm' = psalm
  BY StoreKept DEF Tick
<1>2. Bounded(session, recent)'
  BY BoundedTick DEF IInv
<1>. DEFINE n == IF session.age > Healthy THEN session.age ELSE session.age + 1
<1>3. session \in Sessions /\ n \in Nat
  BY DEF IInv, TypeOK, Sessions
<1>4. session' = [session EXCEPT !.age = n]
  BY <1>3 DEF Tick, Sessions
<1>. HIDE DEF n
<1>5. /\ session' \in Sessions /\ session'.up = session.up /\ session'.ready = session.ready
      /\ session'.pipes = session.pipes /\ session'.next = session.next
      /\ session'.pending = session.pending
  BY <1>3, <1>4 DEF Sessions
<1>6. Fits(session', psalm')
  BY <1>1, <1>5, FitsKept DEF IInv, SameWork
<1>7. Current(session', psalm', documents', (editor \ Untold)')
  BY <1>1, <1>5 DEF IInv, Current
<1>8. recent' \in SUBSET Nat
  BY TimeAssumption DEF Tick
<1>. QED  BY <1>1, <1>2, <1>5, <1>6, <1>7, <1>8 DEF IInv, TypeOK

LEMMA ReapInv == ASSUME IInv, Reap PROVE IInv'
<1>1. StoreOK' /\ OpenOK' /\ CacheOK' /\ psalm' = psalm /\ recent' = recent
  BY StoreKept DEF Reap
<1>2. /\ session' \in Sessions /\ ~ session'.up /\ ~ session'.pipes
      /\ session'.strikes = session.strikes /\ session'.age = session.age
      /\ session'.there = session.there
  BY DEF Reap, IInv, TypeOK, Sessions
<1>3. Bounded(session', recent')
  BY <1>1, <1>2, BoundedKept DEF IInv
<1>. QED  BY <1>1, <1>2, <1>3 DEF IInv, TypeOK, Fits, Current

LEMMA NoticeClosedInv == ASSUME IInv, NoticeClosed PROVE IInv'
<1>1. /\ StoreOK' /\ OpenOK' /\ CacheOK' /\ documents' = documents
      /\ (editor \ Untold)' = editor \ Untold
  BY StoreKept DEF NoticeClosed
<1>2. Good(World, documents, editor \ Untold)
  BY WorldGood
<1>3. /\ Down(World) \in Worlds /\ Down(World).psalm = World.psalm
      /\ Down(World).recent = World.recent /\ ~ Down(World).session.up
      /\ MayHaveFailed(World.session, Down(World).session)
  BY <1>2, DownFacts DEF Good
<1>4. Bounded(Down(World).session, Down(World).recent)
  BY <1>2, <1>3, BoundedKept DEF Good, MayHaveFailed
<1>5. Fits(Down(World).session, Down(World).psalm)
  BY <1>2, <1>3, FitsKept DEF Good, MayHaveFailed, SameWork
<1>6. Good(Down(World), documents', (editor \ Untold)')
  BY <1>3, <1>4, <1>5 DEF Good, Current
<1>. QED  BY <1>1, <1>6, Becomes DEF NoticeClosed

-----------------------------------------------------------------------------
(* The messages of Psalm.                                                  *)

\* What has been read, and the world that reading leaves.
LEMMA ReadFacts ==
    ASSUME TypeOK, NEW m, Received(m)
    PROVE  /\ m \in Messages /\ Len(psalm.out) \in Nat \ {0} /\ m = psalm.out[1]
           /\ psalm.out \in Seq(Messages) /\ session.pipes
           /\ Read \in Worlds /\ Read.session = session /\ Read.recent = recent
           /\ Read.psalm.text = psalm.text /\ Read.psalm.jobs = psalm.jobs
           /\ Read.psalm.out = Tail(psalm.out)
           /\ Len(Read.psalm.out) = Len(psalm.out) - 1
           /\ \A k \in 1 .. Len(Read.psalm.out) : Read.psalm.out[k] = psalm.out[k + 1]
<1>1. psalm.out \in Seq(Messages) /\ psalm.out /= <<>> /\ m = Head(psalm.out)
      /\ psalm \in Psalms
  BY DEF Received, TypeOK, Psalms
<1>2. m \in Messages /\ Len(psalm.out) \in Nat \ {0} /\ m = psalm.out[1]
  BY <1>1
<1>. DEFINE rest == Tail(psalm.out)
            p == [psalm EXCEPT !.out = rest]
<1>3. rest \in Seq(Messages) /\ Len(rest) = Len(psalm.out) - 1
      /\ \A k \in 1 .. Len(rest) : rest[k] = psalm.out[k + 1]
  BY <1>1
<1>. HIDE DEF rest
<1>4. p \in Psalms /\ p.out = rest /\ p.text = psalm.text /\ p.jobs = psalm.jobs
  BY <1>1, <1>3 DEF Psalms
<1>. HIDE DEF p
<1>5. World \in Worlds /\ World.session = session /\ World.recent = recent
      /\ World.psalm = psalm
  BY DEF World, Worlds, TypeOK
<1>6. Read = [World EXCEPT !.psalm = p]
  BY <1>1 DEF Read, World, p, rest, Psalms
<1>7. Read \in Worlds /\ Read.session = session /\ Read.recent = recent /\ Read.psalm = p
  <2>1. session \in Sessions
    BY DEF TypeOK
  <2>. QED  BY <2>1, <1>4, <1>5, <1>6, PsalmFields
<1>8. session.pipes
  BY DEF Received
<1>. QED  BY <1>1, <1>2, <1>3, <1>4, <1>7, <1>8 DEF rest

\* The work that is left when the head of the pipe is gone, still fits; if it
\* was a reply, nothing that is left has its id.
LEMMA FitsRead ==
    ASSUME IInv, NEW m, Received(m)
    PROVE  /\ Fits(session, Read.psalm)
           /\ IsReply(m) =>
                /\ \A j \in Read.psalm.jobs : j.id /= m.id
                /\ \A k \in Replies(Read.psalm) : Read.psalm.out[k].id /= m.id
<1>. DEFINE p == Read.psalm
<1>1. /\ OneOfEach(session, psalm) /\ Matched(session, psalm)
      /\ p.jobs = psalm.jobs /\ Len(psalm.out) \in Nat \ {0} /\ m = psalm.out[1]
      /\ Len(p.out) = Len(psalm.out) - 1
      /\ \A k \in 1 .. Len(p.out) : p.out[k] = psalm.out[k + 1]
  BY ReadFacts DEF IInv, Fits
<1>. HIDE DEF p
<1>2. \A k \in Replies(p) : k \in Nat /\ k + 1 \in Replies(psalm)
                            /\ p.out[k] = psalm.out[k + 1] /\ k + 1 /= 1
  BY <1>1 DEF Replies
<1>3. OneOfEach(session, p)
  <2>1. \A k, l \in Replies(p) : p.out[k].id = p.out[l].id => k = l
    <3>. SUFFICES ASSUME NEW k \in Replies(p), NEW l \in Replies(p),
                         p.out[k].id = p.out[l].id
                  PROVE  k = l
      OBVIOUS
    <3>1. /\ k \in Nat /\ k + 1 \in Replies(psalm) /\ p.out[k] = psalm.out[k + 1]
          /\ l \in Nat /\ l + 1 \in Replies(psalm) /\ p.out[l] = psalm.out[l + 1]
      BY <1>2
    <3>2. \A i, j \in Replies(psalm) : psalm.out[i].id = psalm.out[j].id => i = j
      BY <1>1 DEF OneOfEach
    <3>3. k + 1 = l + 1
      BY <3>1, <3>2
    <3>. QED  BY <3>1, <3>3
  <2>2. \A j \in p.jobs, k \in Replies(p) : j.id /= p.out[k].id
    BY <1>1, <1>2 DEF OneOfEach
  <2>. QED  BY <1>1, <2>1, <2>2 DEF OneOfEach
<1>4. Matched(session, p)
  BY <1>1, <1>2 DEF Matched
<1>5. ASSUME IsReply(m)
      PROVE  /\ \A j \in p.jobs : j.id /= m.id
             /\ \A k \in Replies(p) : p.out[k].id /= m.id
  <2>1. 1 \in Replies(psalm)
    BY <1>1, <1>5 DEF Replies
  <2>2. \A j \in p.jobs : j.id /= m.id
    BY <1>1, <2>1 DEF OneOfEach
  <2>3. \A k \in Replies(p) : p.out[k].id /= m.id
    BY <1>1, <1>2, <2>1 DEF OneOfEach
  <2>. QED  BY <2>2, <2>3
<1>. QED  BY <1>3, <1>4, <1>5 DEF Fits, p

LEMMA ReadGood ==
    ASSUME IInv, NEW m, Received(m)
    PROVE  Good(Read, documents, editor \ Untold)
  BY ReadFacts, FitsRead DEF IInv, Good, Current

\* A reply settles its question: the question goes with it.
LEMMA SettledGood ==
    ASSUME IInv, NEW m, Received(m), IsReply(m), NEW q \in session.pending, q.id = m.id
    PROVE  Good([Read EXCEPT !.session.pending = @ \ {q}], documents, editor \ Untold)
<1>. DEFINE pend == session.pending \ {q}
            t == [session EXCEPT !.pending = pend]
            p == Read.psalm
            w == [Read EXCEPT !.session = t]
<1>1. /\ Read \in Worlds /\ Read.session = session /\ Read.recent = recent
      /\ session.pipes /\ p.text = psalm.text
  BY ReadFacts DEF IInv
<1>2. session \in Sessions /\ pend \in SUBSET Questions
  BY DEF IInv, TypeOK, Sessions
<1>3. [Read EXCEPT !.session.pending = @ \ {q}] = w
  BY <1>1, <1>2 DEF Worlds, Sessions
<1>. HIDE DEF pend
<1>4. /\ t \in Sessions /\ t.there = session.there /\ t.up = session.up
      /\ t.ready = session.ready /\ t.pipes = session.pipes /\ t.next = session.next
      /\ t.strikes = session.strikes /\ t.age = session.age /\ t.pending = pend
  BY <1>2 DEF Sessions
<1>. HIDE DEF t
<1>5. w \in Worlds /\ w.session = t /\ w.psalm = p /\ w.recent = recent
  <2>1. p \in Psalms
    BY <1>1 DEF Worlds
  <2>. HIDE DEF p
  <2>. QED  BY <2>1, <1>1, <1>4, SessionFields DEF p
<1>6. /\ OneOfEach(session, p) /\ Matched(session, p)
      /\ \A j \in p.jobs : j.id /= q.id
      /\ \A k \in Replies(p) : p.out[k].id /= q.id
  BY <1>1, FitsRead DEF Fits
<1>. HIDE DEF p, w
<1>7. OneOfEach(t, p)
  BY <1>4, <1>6 DEF OneOfEach, pend
<1>8. Matched(t, p)
  <2>1. \A id : id /= q.id /\ HasQuestion(session, id) => HasQuestion(t, id)
    BY <1>4 DEF HasQuestion, pend
  <2>2. \A id, x : OfText(session, id, x) => OfText(t, id, x)
    BY <1>4 DEF OfText, pend
  <2>. QED  BY <1>6, <2>1, <2>2 DEF Matched
<1>9. Bounded(t, recent)
  BY <1>4, BoundedKept DEF IInv
<1>10. Current(t, p, documents, editor \ Untold)
  BY <1>1, <1>4 DEF IInv, Current, p
<1>. QED  BY <1>3, <1>5, <1>7, <1>8, <1>9, <1>10 DEF Good, Fits

LEMMA GreetingInv == ASSUME IInv, HandleGreeting PROVE IInv'
<1>. DEFINE t == [session EXCEPT !.ready = TRUE]
            w == [Read EXCEPT !.session = t]
            es == editor \ Untold
<1>1. Received(Greeting) /\ StoreOK' /\ OpenOK' /\ CacheOK' /\ documents' = documents
      /\ (editor \ Untold)' = es
  BY StoreKept DEF HandleGreeting
<1>2. Good(Read, documents, es) /\ Read.session = session /\ Read \in Worlds
  BY <1>1, ReadGood, ReadFacts DEF IInv
<1>3. /\ t \in Sessions /\ t.there = session.there /\ t.pipes = session.pipes
      /\ t.next = session.next /\ t.strikes = session.strikes /\ t.age = session.age
      /\ t.pending = session.pending
  BY DEF IInv, TypeOK, Sessions
<1>4. [Read EXCEPT !.session.ready = TRUE] = w
  BY <1>2 DEF Worlds
<1>. HIDE DEF t
<1>5. w \in Worlds /\ w.session = t /\ w.psalm = Read.psalm /\ w.recent = Read.recent
  <2>1. Read.psalm \in Psalms
    BY <1>2 DEF Worlds
  <2>. QED  BY <2>1, <1>2, <1>3, SessionFields
<1>. HIDE DEF w
<1>6. Fits(w.session, w.psalm) /\ Bounded(w.session, w.recent)
  BY <1>2, <1>3, <1>5, FitsKept, BoundedKept DEF Good, SameWork
<1>7. Good(w, documents, {})
  BY <1>5, <1>6 DEF Good, Current
<1>8. PICK u \in Sent(w, Opened(documents)) : Become(u)
  BY <1>4 DEF HandleGreeting
<1>9. /\ \A d \in DOMAIN Opened(documents) :
            Opened(documents)[d] \in Nat /\ Opened(documents)[d] = documents[d]
      /\ \A d \in editor : d \in DOMAIN Opened(documents)
      /\ es \in SUBSET Docs
  BY DEF Opened, IInv, TypeOK, StoreOK, OpenOK
<1>10. Good(u, documents, es)
  BY <1>7, <1>9, GoodSent
<1>. QED  BY <1>1, <1>8, <1>10, Becomes

LEMMA AnswerInv == ASSUME IInv, HandleAnswer PROVE IInv'
<1>1. PICK id \in Ids, t \in Texts \cup {NoText}, q \in session.pending :
        /\ Received(Answer(id, t)) /\ q.id = id /\ cache' = Keep(q, t)
        /\ Become([Read EXCEPT !.session.pending = @ \ {q}])
        /\ UNCHANGED <<documents, version, editor, disk, last, call>>
  BY DEF HandleAnswer
<1>. DEFINE m == Answer(id, t)
<1>2. IsReply(m) /\ m.id = id /\ m.kind = "answer" /\ m.text = t
  BY DEF IsReply, Answer
<1>3. Good([Read EXCEPT !.session.pending = @ \ {q}], documents, editor \ Untold)
  BY <1>1, <1>2, SettledGood
<1>4. q \in Questions /\ t \in Nat
  BY LimitAssumption DEF IInv, TypeOK, Sessions, Texts, NoText
<1>5. StoreOK'
  <2>1. [doc |-> q.doc, version |-> q.version, text |-> t,
         about |-> q.about, closed |-> q.closed] \in Entries
    BY <1>4 DEF Questions, Entries
  <2>. QED  BY <1>1, <2>1 DEF IInv, TypeOK, StoreOK, Keep
<1>6. OnChange => q.about = t
  <2>1. Len(psalm.out) \in Nat \ {0} /\ m = psalm.out[1] /\ session.pipes
    BY <1>1, ReadFacts DEF IInv
  <2>2. 1 \in Replies(psalm)
    BY <1>2, <2>1 DEF Replies
  <2>. QED  BY <1>1, <1>2, <2>1, <2>2 DEF IInv, Fits, Matched, OfText
<1>7. CacheOK'
  BY <1>1, <1>6 DEF IInv, CacheOK, Keep
<1>8. OpenOK' /\ (editor \ Untold)' = editor \ Untold
  BY <1>1 DEF IInv, OpenOK, Untold
<1>. QED  BY <1>1, <1>3, <1>5, <1>7, <1>8, Becomes

LEMMA FailureInv == ASSUME IInv, HandleFailure PROVE IInv'
<1>1. PICK id \in Ids, q \in session.pending :
        /\ Received(Failure(id)) /\ q.id = id
        /\ Become([Read EXCEPT !.session.pending = @ \ {q}])
        /\ UNCHANGED <<store, call>>
  BY DEF HandleFailure
<1>2. IsReply(Failure(id)) /\ Failure(id).id = id
  BY DEF IsReply, Failure
<1>3. Good([Read EXCEPT !.session.pending = @ \ {q}], documents, editor \ Untold)
  BY <1>1, <1>2, SettledGood
<1>. QED  BY <1>1, <1>3, StoreKept, Becomes

LEMMA DiagnosticsInv == ASSUME IInv, HandleDiagnostics PROVE IInv'
<1>1. PICK d \in Docs :
        /\ Received(Diagnostics(d))
        /\ documents' = [documents EXCEPT ![d] = IF @ = NoText THEN disk[d] ELSE @]
        /\ \E w \in Scheduled(Read) : Become(w)
        /\ UNCHANGED <<version, editor, disk, last, cache, call>>
  BY DEF HandleDiagnostics
<1>2. PICK w \in Scheduled(Read) : Become(w)
  BY <1>1
<1>. DEFINE es == editor \ Untold
<1>3. \A e \in Docs : documents[e] /= NoText => documents'[e] = documents[e]
  BY <1>1 DEF IInv, TypeOK, StoreOK
<1>4. /\ StoreOK' /\ OpenOK' /\ CacheOK' /\ (editor \ Untold)' = es
  <2>1. documents' \in [Docs -> Nat]
    BY <1>1 DEF IInv, TypeOK, StoreOK
  <2>2. StoreOK'
    BY <1>1, <2>1 DEF IInv, TypeOK, StoreOK
  <2>3. OpenOK'
    BY <1>1, <1>3 DEF IInv, TypeOK, StoreOK, OpenOK
  <2>. QED  BY <1>1, <2>2, <2>3 DEF IInv, CacheOK, Untold
<1>5. Good(Read, documents, es)
  BY <1>1, ReadGood
<1>6. \A e \in es : documents'[e] = documents[e]
  BY <1>3 DEF IInv, TypeOK, StoreOK, OpenOK
<1>7. Good(Read, documents', es)
  BY <1>5, <1>6 DEF Good, Current
<1>8. Good(w, documents', es)
  BY <1>7, GoodScheduled
<1>. QED  BY <1>2, <1>4, <1>8, Becomes

-----------------------------------------------------------------------------
(* The handlers.                                                           *)

\* The cache without some of its entries is as good as it was.
LEMMA EvictedOK ==
    ASSUME IInv, cache' \subseteq cache
    PROVE  CacheOK' /\ cache' \in SUBSET Entries
  BY DEF IInv, CacheOK, TypeOK, StoreOK

\* An idle session, with the world that scheduling it leads to.
LEMMA IdleScheduled ==
    ASSUME IInv, Idle, NEW w \in Scheduled(World)
    PROVE  Good(w, documents, editor)
<1>1. Untold = {}
  BY IdleFacts
<1>2. Good(World, documents, editor)
  BY <1>1, WorldGood
<1>. QED  BY <1>2, GoodScheduled

LEMMA ScanInv == ASSUME IInv, Scan PROVE IInv'
<1>1. PICK w \in Scheduled(World) : Begin("scan", {}, w)
  BY DEF Scan
<1>2. Good(w, documents, editor)
  BY <1>1, IdleScheduled DEF Scan
<1>3. /\ Become(w) /\ call'.op = "scan" /\ call'.doc = {}
      /\ call' \in [op : {"none", "scan", "open", "change", "save", "complete"},
                     doc : SUBSET Docs, pump : BOOLEAN, again : BOOLEAN]
  BY <1>1, BeginFacts
<1>4. UNCHANGED <<documents, version, editor, disk, last, cache>>
  BY DEF Scan, store
<1>5. StoreOK' /\ OpenOK' /\ CacheOK' /\ (editor \ Untold)' = editor
  BY <1>3, <1>4 DEF IInv, TypeOK, StoreOK, OpenOK, CacheOK, Untold
<1>. QED  BY <1>2, <1>3, <1>4, <1>5, Becomes

LEMMA DidOpenInv == ASSUME IInv, NEW d \in Docs, DidOpen(d) PROVE IInv'
<1>1. PICK w \in Scheduled(World) : Begin("open", {d}, w)
  BY DEF DidOpen
<1>2. Good(w, documents, editor)
  BY <1>1, IdleScheduled DEF DidOpen
<1>3. /\ Become(w) /\ call'.op = "open" /\ call'.doc = {d}
      /\ call' \in [op : {"none", "scan", "open", "change", "save", "complete"},
                     doc : SUBSET Docs, pump : BOOLEAN, again : BOOLEAN]
  BY <1>1, BeginFacts
<1>4. /\ d \notin editor /\ editor' = editor \cup {d} /\ cache' \subseteq cache
      /\ documents' = [documents EXCEPT ![d] = disk[d]]
      /\ version' = [version EXCEPT ![d] = 1] /\ UNCHANGED <<disk, last>>
  BY DEF DidOpen, Evicted
<1>5. documents \in [Docs -> Nat] /\ disk \in [Docs -> Nat \ {NoText}]
      /\ version \in [Docs -> Nat] /\ editor \in SUBSET Docs
  BY DEF IInv, TypeOK, StoreOK
<1>6. StoreOK' /\ CacheOK'
  BY <1>3, <1>4, <1>5, EvictedOK DEF IInv, TypeOK, StoreOK
<1>7. OpenOK' /\ (editor \ Untold)' = editor
  BY <1>3, <1>4, <1>5 DEF IInv, OpenOK, Untold
<1>8. \A e \in editor : documents'[e] = documents[e]
  BY <1>4, <1>5
<1>9. Good(w, documents', editor)
  BY <1>2, <1>8 DEF Good, Current
<1>. QED  BY <1>3, <1>6, <1>7, <1>9, Becomes

LEMMA DidChangeInv == ASSUME IInv, NEW d \in Docs, DidChange(d) PROVE IInv'
<1>1. /\ Become(World) /\ call'.op = "change" /\ call'.doc = {d}
      /\ call' \in [op : {"none", "scan", "open", "change", "save", "complete"},
                     doc : SUBSET Docs, pump : BOOLEAN, again : BOOLEAN]
  BY BeginFacts DEF DidChange
<1>2. /\ Idle /\ d \in editor /\ last' = last + 1 /\ cache' \subseteq cache
      /\ documents' = [documents EXCEPT ![d] = last + 1]
      /\ version' = [version EXCEPT ![d] = @ + 1] /\ UNCHANGED <<editor, disk>>
  BY DEF DidChange, Evicted
<1>3. documents \in [Docs -> Nat] /\ version \in [Docs -> Nat] /\ last \in Nat
      /\ editor \in SUBSET Docs
  BY DEF IInv, TypeOK, StoreOK
<1>4. StoreOK' /\ CacheOK'
  BY <1>1, <1>2, <1>3, EvictedOK DEF IInv, TypeOK, StoreOK
<1>5. OpenOK' /\ (editor \ Untold)' = editor \ {d}
  BY <1>1, <1>2, <1>3 DEF IInv, OpenOK, Untold, NoText
<1>6. Good(World, documents, editor)
  BY <1>2, WorldGood, IdleFacts
<1>7. \A e \in editor \ {d} : documents'[e] = documents[e]
  BY <1>2, <1>3
<1>8. Good(World, documents', editor \ {d})
  BY <1>6, <1>7 DEF Good, Current
<1>. QED  BY <1>1, <1>4, <1>5, <1>8, Becomes

LEMMA DidSaveInv == ASSUME IInv, NEW d \in Docs, DidSave(d) PROVE IInv'
<1>1. PICK w \in Scheduled(World) : Begin("save", {d}, w)
  BY DEF DidSave
<1>2. Good(w, documents, editor)
  BY <1>1, IdleScheduled DEF DidSave
<1>3. /\ Become(w) /\ call'.op = "save" /\ call'.doc = {d}
      /\ call' \in [op : {"none", "scan", "open", "change", "save", "complete"},
                     doc : SUBSET Docs, pump : BOOLEAN, again : BOOLEAN]
  BY <1>1, BeginFacts
<1>4. /\ d \in editor /\ disk' = [disk EXCEPT ![d] = documents[d]] /\ cache' \subseteq cache
      /\ UNCHANGED <<documents, version, editor, last>>
  BY DEF DidSave, Evicted
<1>5. StoreOK' /\ CacheOK'
  BY <1>3, <1>4, EvictedOK DEF IInv, TypeOK, StoreOK, OpenOK
<1>6. OpenOK' /\ (editor \ Untold)' = editor
  BY <1>3, <1>4 DEF IInv, OpenOK, Untold
<1>. QED  BY <1>2, <1>3, <1>4, <1>5, <1>6, Becomes

LEMMA CompleteInv == ASSUME IInv, NEW d \in Docs, Complete(d) PROVE IInv'
<1>1. PICK w \in Scheduled(World) : Begin("complete", {d}, w)
  BY DEF Complete
<1>2. Good(w, documents, editor)
  BY <1>1, IdleScheduled DEF Complete
<1>3. /\ Become(w) /\ call'.op = "complete" /\ call'.doc = {d}
      /\ call' \in [op : {"none", "scan", "open", "change", "save", "complete"},
                     doc : SUBSET Docs, pump : BOOLEAN, again : BOOLEAN]
  BY <1>1, BeginFacts
<1>4. d \in editor /\ UNCHANGED <<documents, version, editor, disk, last, cache>>
  BY DEF Complete, store
<1>5. StoreOK' /\ CacheOK'
  BY <1>3, <1>4 DEF IInv, TypeOK, StoreOK, CacheOK
<1>6. OpenOK' /\ (editor \ Untold)' = editor
  BY <1>3, <1>4 DEF IInv, OpenOK, Untold
<1>. QED  BY <1>2, <1>3, <1>4, <1>5, <1>6, Becomes

\* A question about a document that is closed is the same question.
Marked(q, d) == [q EXCEPT !.closed = @ \/ q.doc = d]

LEMMA MarkedFacts ==
    ASSUME NEW q \in Questions, NEW d
    PROVE  /\ Marked(q, d) \in Questions /\ Marked(q, d).id = q.id
           /\ Marked(q, d).doc = q.doc /\ Marked(q, d).version = q.version
           /\ Marked(q, d).about = q.about
           /\ ~ Marked(q, d).closed => ~ q.closed /\ q.doc /= d
<1>. DEFINE b == q.closed \/ q.doc = d
<1>1. Marked(q, d) = [q EXCEPT !.closed = b]
  BY DEF Marked, Questions
<1>2. b \in BOOLEAN
  OBVIOUS
<1>3. ~ b => ~ q.closed /\ q.doc /= d
  OBVIOUS
<1>. HIDE DEF b
<1>. QED  BY <1>1, <1>2, <1>3 DEF Questions

LEMMA LeftFacts ==
    ASSUME NEW w \in Worlds, NEW d
    PROVE  /\ Left(w, d) \in Worlds /\ Left(w, d).psalm = w.psalm
           /\ Left(w, d).recent = w.recent
           /\ Left(w, d).session = [w.session EXCEPT !.pending = {Marked(q, d) : q \in @}]
           /\ Left(w, d).session \in Sessions
<1>. DEFINE pend == {Marked(q, d) : q \in w.session.pending}
            t == [w.session EXCEPT !.pending = pend]
<1>1. w.session \in Sessions
  BY DEF Worlds
<1>2. pend \in SUBSET Questions
  BY <1>1, MarkedFacts DEF Sessions
<1>3. Left(w, d) = [w EXCEPT !.session = t]
  BY <1>1 DEF Left, Marked, Worlds, Sessions
<1>. HIDE DEF pend
<1>4. t \in Sessions
  BY <1>1, <1>2 DEF Sessions
<1>5. t = [w.session EXCEPT !.pending = {Marked(q, d) : q \in @}]
  BY <1>1 DEF pend, Sessions
<1>. HIDE DEF t
<1>. QED  BY <1>3, <1>4, <1>5, SessionFields

LEMMA LeftGood ==
    ASSUME NEW w, NEW d, NEW table, NEW ds, Good(w, table, ds)
    PROVE  Good(Left(w, d), table, ds)
<1>. DEFINE s == w.session  t == Left(w, d).session  p == w.psalm
<1>1. /\ Left(w, d) \in Worlds /\ Left(w, d).psalm = p /\ Left(w, d).recent = w.recent
      /\ s \in Sessions
      /\ t = [s EXCEPT !.pending = {Marked(q, d) : q \in @}]
  BY LeftFacts DEF Good, Worlds
<1>. HIDE DEF s, t, p
<1>2. /\ t.there = s.there /\ t.up = s.up /\ t.ready = s.ready /\ t.pipes = s.pipes
      /\ t.next = s.next /\ t.strikes = s.strikes /\ t.age = s.age
      /\ t.pending = {Marked(q, d) : q \in s.pending}
  BY <1>1 DEF Sessions
<1>3. \A q \in s.pending : /\ Marked(q, d).id = q.id /\ Marked(q, d).about = q.about
                           /\ Marked(q, d) \in t.pending
  BY <1>1, <1>2, MarkedFacts DEF Sessions
<1>4. Bounded(t, w.recent)
  BY <1>2, BoundedKept DEF Good, s
<1>5. Current(t, p, table, ds)
  BY <1>2 DEF Good, Current, s, p
<1>6. ASSUME t.pipes PROVE OneOfEach(t, p) /\ Matched(t, p)
  <2>1. OneOfEach(s, p) /\ Matched(s, p)
    BY <1>2, <1>6 DEF Good, Fits, s, p
  <2>2. \A i : HasQuestion(s, i) => HasQuestion(t, i)
    BY <1>3 DEF HasQuestion
  <2>3. \A i, a : OfText(s, i, a) => OfText(t, i, a)
    BY <1>2, <1>3 DEF OfText
  <2>4. \A q \in t.pending : q.id < t.next
    BY <1>2, <1>3, <2>1 DEF OneOfEach
  <2>5. ASSUME NEW q \in t.pending, NEW r \in t.pending, q.id = r.id PROVE q = r
    <3>1. PICK x \in s.pending : q = Marked(x, d)
      BY <1>2
    <3>2. PICK y \in s.pending : r = Marked(y, d)
      BY <1>2
    <3>3. x = y
      BY <1>3, <2>1, <2>5, <3>1, <3>2 DEF OneOfEach
    <3>. QED  BY <3>1, <3>2, <3>3
  <2>6. OneOfEach(t, p)
    BY <2>1, <2>4, <2>5 DEF OneOfEach
  <2>7. Matched(t, p)
    BY <2>1, <2>2, <2>3 DEF Matched
  <2>. QED  BY <2>6, <2>7
<1>. QED  BY <1>1, <1>4, <1>5, <1>6 DEF Good, Fits, t, p

LEMMA DidCloseInv == ASSUME IInv, NEW d \in Docs, DidClose(d) PROVE IInv'
<1>1. /\ Idle /\ d \in editor /\ editor' = editor \ {d} /\ cache' \subseteq cache
      /\ documents' = [documents EXCEPT ![d] = NoText]
      /\ version' = [version EXCEPT ![d] = 0] /\ UNCHANGED <<disk, last, call>>
  BY DEF DidClose, Evicted
<1>2. PICK w \in Sent(Left(World, d), OnlyOf(d, NoText)) : Become(w)
  BY DEF DidClose
<1>3. documents \in [Docs -> Nat] /\ version \in [Docs -> Nat] /\ editor \in SUBSET Docs
  BY DEF IInv, TypeOK, StoreOK
<1>4. StoreOK' /\ CacheOK'
  BY <1>1, <1>3, EvictedOK DEF IInv, TypeOK, StoreOK, NoText
<1>5. \A e \in editor \ {d} : documents'[e] = documents[e]
  BY <1>1, <1>3
<1>6. OpenOK' /\ (editor \ Untold)' = editor \ {d}
  BY <1>1, <1>3, <1>5, IdleFacts DEF IInv, OpenOK, Untold
<1>7. Good(Left(World, d), documents, editor)
  BY <1>1, WorldGood, IdleFacts, LeftGood
<1>8. Good(Left(World, d), documents', editor \ {d})
  BY <1>5, <1>7 DEF Good, Current
<1>9. DOMAIN OnlyOf(d, NoText) = {d} /\ \A e \in {d} : OnlyOf(d, NoText)[e] \in Nat
  BY DEF OnlyOf, NoText
<1>10. Good(w, documents', editor \ {d})
  BY <1>3, <1>8, <1>9, GoodSent
<1>. QED  BY <1>2, <1>4, <1>6, <1>10, Becomes

\* The end of a handler: what it has left to tell, it tells, and if it asks, it
\* asks about a document of which Psalm has the text.
LEMMA ReplayedGood ==
    ASSUME IInv, NEW w \in Replayed(World)
    PROVE  Good(w, documents, editor \ Untold)
<1>1. Good(World, documents, editor \ Untold)
  BY WorldGood
<1>2. CASE ~ call.again
  BY <1>1, <1>2 DEF Replayed
<1>3. CASE call.again
  <2>1. /\ \A d \in DOMAIN Opened(documents) :
              Opened(documents)[d] \in Nat /\ Opened(documents)[d] = documents[d]
        /\ \A d \in editor : d \in DOMAIN Opened(documents)
        /\ editor \ Untold \in SUBSET Docs
    BY DEF Opened, IInv, TypeOK, StoreOK, OpenOK
  <2>2. w \in Sent(World, Opened(documents))
    BY <1>3 DEF Replayed
  <2>. QED  BY <1>1, <2>1, <2>2, GoodSent
<1>. QED  BY <1>2, <1>3

LEMMA ToldGood ==
    ASSUME IInv, NEW w, Good(w, documents, editor \ Untold),
           NEW d \in call.doc, NEW v \in Told(w, d)
    PROVE  Good(v, documents, editor)
<1>1. /\ d \in editor /\ editor \in SUBSET Docs /\ documents \in [Docs -> Nat]
      /\ call.doc = {d} /\ call.op \in {"open", "save", "change", "complete"}
  BY DEF IInv, TypeOK, StoreOK, OpenOK
<1>2. /\ DOMAIN OnlyOf(d, documents[d]) = {d} /\ OnlyOf(d, documents[d])[d] = documents[d]
      /\ documents[d] \in Nat
  BY <1>1 DEF OnlyOf
<1>3. CASE v \in Sent(w, OnlyOf(d, documents[d]))
  <2>1. \A e \in editor : IF e \in DOMAIN OnlyOf(d, documents[d])
                            THEN OnlyOf(d, documents[d])[e] = documents[e]
                            ELSE e \in editor \ Untold
    BY <1>1, <1>2 DEF Untold
  <2>2. \A e \in DOMAIN OnlyOf(d, documents[d]) : OnlyOf(d, documents[d])[e] \in Nat
    BY <1>2
  <2>. QED  BY <1>1, <1>3, <2>1, <2>2, GoodSent
<1>4. CASE call.op = "change" /\ ~ OnChange /\ v = w
  BY <1>4 DEF Good, Current
<1>5. CASE call.op = "complete" /\ v \in Asked(w, d)
  <2>1. editor \ Untold = editor
    BY <1>5 DEF Untold
  <2>. QED  BY <1>1, <1>5, <2>1, GoodAsked DEF IInv
<1>. QED  BY <1>1, <1>3, <1>4, <1>5 DEF Told

LEMMA FinishInv == ASSUME IInv, Finish PROVE IInv'
<1>1. PICK w \in Replayed(World) :
         \/ call.op = "scan" /\ Become(w)
         \/ \E d \in call.doc : \E v \in Told(w, d) :
              \/ call.op \in {"complete", "change"} /\ Become(v)
              \/ call.op /= "complete" /\ \E u \in Scheduled(v) : Become(u)
  BY DEF Finish
<1>2. call' = NoCall /\ UNCHANGED <<documents, version, editor, disk, last, cache>>
  BY DEF Finish, store
<1>3. NoCall.op = "none" /\ NoCall.doc = {} /\ NoCall.pump = FALSE /\ NoCall.again = FALSE
      /\ NoCall \in [op : {"none", "scan", "open", "change", "save", "complete"},
                      doc : SUBSET Docs, pump : BOOLEAN, again : BOOLEAN]
  BY DEF NoCall
<1>4. StoreOK' /\ OpenOK' /\ CacheOK' /\ (editor \ Untold)' = editor
  BY <1>2, <1>3 DEF IInv, TypeOK, StoreOK, OpenOK, CacheOK, Untold
<1>5. Good(w, documents, editor \ Untold)
  BY ReplayedGood
<1>6. CASE call.op = "scan" /\ Become(w)
  <2>1. Untold = {}
    BY <1>6 DEF Untold
  <2>. QED  BY <1>2, <1>4, <1>5, <1>6, <2>1, Becomes
<1>7. ASSUME NEW d \in call.doc, NEW v \in Told(w, d),
             \/ Become(v)
             \/ \E u \in Scheduled(v) : Become(u)
      PROVE  IInv'
  <2>1. Good(v, documents, editor)
    BY <1>5, ToldGood
  <2>2. CASE Become(v)
    BY <1>2, <1>4, <2>1, <2>2, Becomes
  <2>3. ASSUME NEW u \in Scheduled(v), Become(u) PROVE IInv'
    <3>1. Good(u, documents, editor)
      BY <2>1, GoodScheduled
    <3>. QED  BY <1>2, <1>4, <2>3, <3>1, Becomes
  <2>. QED  BY <1>7, <2>2, <2>3
<1>. QED  BY <1>1, <1>6, <1>7

-----------------------------------------------------------------------------
(* Psalm.                                                                  *)

\* One message more in the pipe.
LEMMA Appended ==
    ASSUME NEW out \in Seq(Messages), NEW m \in Messages
    PROVE  /\ Append(out, m) \in Seq(Messages) /\ Len(Append(out, m)) = Len(out) + 1
           /\ Len(out) \in Nat
           /\ \A k \in 1 .. Len(out) : Append(out, m)[k] = out[k] /\ k /= Len(out) + 1
           /\ Append(out, m)[Len(out) + 1] = m
  OBVIOUS

\* A message that is not a reply leaves the work as it is.
LEMMA FitsOther ==
    ASSUME IInv, NEW m \in Messages, ~ IsReply(m), NEW p,
           p.out = Append(psalm.out, m), p.jobs = psalm.jobs
    PROVE  Fits(session, p)
<1>1. psalm.out \in Seq(Messages)
  BY DEF IInv, TypeOK, Psalms
<1>2. /\ Len(p.out) = Len(psalm.out) + 1 /\ Len(psalm.out) \in Nat
      /\ \A k \in 1 .. Len(psalm.out) : p.out[k] = psalm.out[k]
      /\ p.out[Len(psalm.out) + 1] = m
  BY <1>1, Appended
<1>3. Replies(p) = Replies(psalm) /\ \A k \in Replies(p) : p.out[k] = psalm.out[k]
  BY <1>2 DEF Replies
<1>. SUFFICES ASSUME session.pipes PROVE OneOfEach(session, p) /\ Matched(session, p)
  BY DEF Fits
<1>4. OneOfEach(session, psalm) /\ Matched(session, psalm)
  BY DEF IInv, Fits
<1>5. OneOfEach(session, p)
  <2>1. \A k, l \in Replies(p) : p.out[k].id = p.out[l].id => k = l
    <3>. SUFFICES ASSUME NEW k \in Replies(p), NEW l \in Replies(p),
                         p.out[k].id = p.out[l].id
                  PROVE  k = l
      OBVIOUS
    <3>1. /\ k \in Replies(psalm) /\ l \in Replies(psalm)
          /\ psalm.out[k].id = psalm.out[l].id
      BY <1>3
    <3>. QED  BY <1>4, <3>1 DEF OneOfEach
  <2>2. \A j \in p.jobs, k \in Replies(p) : j.id /= p.out[k].id
    <3>. SUFFICES ASSUME NEW j \in p.jobs, NEW k \in Replies(p)
                  PROVE  j.id /= p.out[k].id
      OBVIOUS
    <3>1. k \in Replies(psalm) /\ p.out[k] = psalm.out[k]
      BY <1>3
    <3>. QED  BY <1>4, <3>1 DEF OneOfEach
  <2>. QED  BY <1>4, <2>1, <2>2 DEF OneOfEach
<1>6. Matched(session, p)
  BY <1>3, <1>4 DEF Matched
<1>. QED  BY <1>5, <1>6

LEMMA GreetsInv == ASSUME IInv, PsalmGreets PROVE IInv'
<1>. DEFINE out == Append(psalm.out, Greeting)
<1>1. Greeting \in Messages /\ ~ IsReply(Greeting)
  BY DEF Greeting, Messages, IsReply
<1>2. psalm \in Psalms /\ psalm.out \in Seq(Messages)
  BY DEF IInv, TypeOK, Psalms
<1>3. out \in Seq(Messages)
  BY <1>1, <1>2
<1>4. psalm' = [psalm EXCEPT !.greeted = TRUE, !.out = out]
  BY <1>2 DEF PsalmGreets, Psalms
<1>5. psalm' \in Psalms /\ psalm'.text = psalm.text /\ psalm'.jobs = psalm.jobs
      /\ psalm'.out = out
  <2>. HIDE DEF out
  <2>. QED  BY <1>2, <1>3, <1>4 DEF Psalms
<1>6. Fits(session, psalm')
  BY <1>1, <1>5, FitsOther
<1>. QED  BY <1>5, <1>6, PsalmMoves DEF PsalmGreets

LEMMA ReportsInv == ASSUME IInv, NEW d \in Docs, PsalmReports(d) PROVE IInv'
<1>. DEFINE out == Append(psalm.out, Diagnostics(d))
<1>1. Diagnostics(d) \in Messages /\ ~ IsReply(Diagnostics(d))
  BY DEF Diagnostics, Messages, IsReply
<1>2. psalm \in Psalms /\ psalm.out \in Seq(Messages)
  BY DEF IInv, TypeOK, Psalms
<1>3. out \in Seq(Messages)
  BY <1>1, <1>2
<1>4. psalm' = [psalm EXCEPT !.out = out]
  BY <1>2 DEF PsalmReports, Psalms
<1>5. psalm' \in Psalms /\ psalm'.text = psalm.text /\ psalm'.jobs = psalm.jobs
      /\ psalm'.out = out
  <2>. HIDE DEF out
  <2>. QED  BY <1>2, <1>3, <1>4 DEF Psalms
<1>6. Fits(session, psalm')
  BY <1>1, <1>5, FitsOther
<1>. QED  BY <1>5, <1>6, PsalmMoves DEF PsalmReports

\* A job becomes the answer to its question.
LEMMA AnswersInv == ASSUME IInv, NEW id \in Ids, PsalmAnswers(id) PROVE IInv'
<1>0. PICK j \in psalm.jobs : j.id = id /\ \E m \in {Answer(id, j.text), Failure(id)} :
              psalm' = [psalm EXCEPT !.out = Append(@, m), !.jobs = @ \ {j}]
  BY DEF PsalmAnswers
<1>1. PICK m \in {Answer(id, j.text), Failure(id)} :
        j.id = id /\ psalm' = [psalm EXCEPT !.out = Append(@, m), !.jobs = @ \ {j}]
  BY <1>0
<1>. DEFINE out == Append(psalm.out, m)
            jobs == psalm.jobs \ {j}
            n == Len(psalm.out) + 1
<1>2. psalm \in Psalms /\ psalm.out \in Seq(Messages) /\ j \in Jobs
  BY DEF IInv, TypeOK, Psalms
<1>3. /\ m \in Messages /\ IsReply(m) /\ m.id = id
      /\ m.kind = "answer" => m.text = j.text
  BY <1>1, <1>2 DEF Answer, Failure, Messages, IsReply, Jobs
<1>4. /\ out \in Seq(Messages) /\ Len(out) = n /\ n \in Nat
      /\ \A k \in 1 .. Len(psalm.out) : out[k] = psalm.out[k] /\ k /= n
      /\ out[n] = m
  BY <1>2, <1>3, Appended
<1>5. psalm' = [psalm EXCEPT !.out = out, !.jobs = jobs] /\ jobs \in SUBSET Jobs
  BY <1>1, <1>2 DEF Psalms
<1>. HIDE DEF out, jobs
<1>6. psalm' \in Psalms /\ psalm'.text = psalm.text /\ psalm'.jobs = jobs
      /\ psalm'.out = out
  BY <1>2, <1>4, <1>5 DEF Psalms
<1>7. Fits(session, psalm')
  <2>. SUFFICES ASSUME session.pipes
                PROVE  OneOfEach(session, psalm') /\ Matched(session, psalm')
    BY DEF Fits
  <2>1. OneOfEach(session, psalm) /\ Matched(session, psalm)
    BY DEF IInv, Fits
  <2>2. \A k \in Replies(psalm') : k = n \/ (k \in Replies(psalm) /\ out[k] = psalm.out[k])
    <3>1. Len(psalm.out) \in Nat
      BY <1>2
    <3>. QED  BY <1>4, <1>6, <3>1 DEF Replies
  <2>3. /\ \A i \in jobs : i \in psalm.jobs /\ i.id /= id
        /\ \A k \in Replies(psalm) : psalm.out[k].id /= id
    BY <1>1, <2>1 DEF OneOfEach, jobs
  <2>4. OneOfEach(session, psalm')
    <3>0. \A k \in Replies(psalm') :
            \/ k = n /\ out[k].id = id
            \/ k \in Replies(psalm) /\ out[k].id = psalm.out[k].id /\ out[k].id /= id
      BY <1>3, <1>4, <2>2, <2>3
    <3>1. \A k, l \in Replies(psalm') : out[k].id = out[l].id => k = l
      <4>1. \A k, l \in Replies(psalm) : psalm.out[k].id = psalm.out[l].id => k = l
        BY <2>1 DEF OneOfEach
      <4>. QED  BY <3>0, <4>1
    <3>2. \A i \in jobs, k \in Replies(psalm') : i.id /= out[k].id
      <4>1. \A i \in psalm.jobs, k \in Replies(psalm) : i.id /= psalm.out[k].id
        BY <2>1 DEF OneOfEach
      <4>. QED  BY <2>3, <3>0, <4>1
    <3>. QED  BY <1>6, <2>1, <2>3, <3>1, <3>2 DEF OneOfEach
  <2>5. Matched(session, psalm')
    <3>1. \A i \in jobs : HasQuestion(session, i.id) /\ OfText(session, i.id, i.text)
      BY <2>1, <2>3 DEF Matched
    <3>2. \A k \in Replies(psalm') :
            /\ HasQuestion(session, out[k].id)
            /\ out[k].kind = "answer" => OfText(session, out[k].id, out[k].text)
      <4>1. HasQuestion(session, id) /\ OfText(session, id, j.text)
        BY <1>1, <2>1 DEF Matched
      <4>. QED  BY <1>3, <1>4, <2>1, <2>2, <4>1 DEF Matched
    <3>. QED  BY <1>6, <3>1, <3>2 DEF Matched
  <2>. QED  BY <2>4, <2>5
<1>. QED  BY <1>6, <1>7, PsalmMoves DEF PsalmAnswers

LEMMA DiesInv == ASSUME IInv, PsalmDies PROVE IInv'
<1>1. psalm' \in Psalms /\ psalm'.text = psalm.text /\ psalm'.jobs = {} /\ psalm'.out = <<>>
  <2>1. psalm \in Psalms /\ {} \in SUBSET Jobs /\ <<>> \in Seq(Messages)
    BY DEF IInv, TypeOK
  <2>2. psalm' = [psalm EXCEPT !.state = "closing", !.jobs = {}, !.out = <<>>]
    BY DEF PsalmDies
  <2>. QED  BY <2>1, <2>2 DEF Psalms
<1>2. Replies(psalm') = {}
  BY <1>1 DEF Replies
<1>3. Fits(session, psalm')
  BY <1>1, <1>2 DEF IInv, Fits, OneOfEach, Matched
<1>. QED  BY <1>1, <1>3, PsalmMoves DEF PsalmDies

LEMMA ExitsInv == ASSUME IInv, PsalmExits PROVE IInv'
<1>1. psalm' \in Psalms /\ psalm'.text = psalm.text /\ SameWork(psalm, psalm')
  BY DEF PsalmExits, IInv, TypeOK, Psalms, SameWork
<1>2. Fits(session, psalm')
  BY <1>1, FitsKept DEF IInv
<1>. QED  BY <1>1, <1>2, PsalmMoves DEF PsalmExits

LEMMA StutterInv == ASSUME IInv, UNCHANGED vars PROVE IInv'
  BY DEF vars, IInv, TypeOK, StoreOK, OpenOK, CacheOK, Untold

LEMMA NextInv == ASSUME IInv, [Next]_vars PROVE IInv'
<1>1. CASE Client
  BY <1>1, ScanInv, DidOpenInv, DidChangeInv, DidSaveInv, CompleteInv, DidCloseInv DEF Client
<1>2. CASE Finish
  BY <1>2, FinishInv
<1>3. CASE Pump
  BY <1>3, ReapInv, NoticeClosedInv, GreetingInv, AnswerInv, FailureInv, DiagnosticsInv
     DEF Pump
<1>4. CASE Psalm
  BY <1>4, GreetsInv, AnswersInv, ReportsInv, DiesInv, ExitsInv DEF Psalm
<1>5. CASE Tick
  BY <1>5, TickInv
<1>. QED  BY <1>1, <1>2, <1>3, <1>4, <1>5, StutterInv DEF Next

LEMMA Invariance == Spec => []IInv
  BY InitInv, NextInv, PTL DEF Spec

-----------------------------------------------------------------------------
(* Questions and answers in time: unless the document was closed since, it *)
(* is open, its version is not an older one, and of that version the text  *)
(* is the one that the question is about.                                  *)

Timely(x) ==
    ~ x.closed => /\ x.doc \in editor
                  /\ x.version <= version[x.doc]
                  /\ x.version = version[x.doc] => x.about = documents[x.doc]
TimelyInv == \A x \in session.pending \cup cache : Timely(x)

Parts == \A x \in session.pending \cup cache :
            x.doc \in Docs /\ x.version \in Nat
\* Questions and answers have a document and a version.
LEMMA PartsFacts == IInv => Parts
  BY DEF IInv, TypeOK, StoreOK, Sessions, Questions, Entries, Parts

\* Nothing new is asked or answered, and the documents are as they were.
LEMMA TimelyKept ==
    ASSUME TimelyInv, UNCHANGED <<documents, version, editor>>,
           session'.pending \subseteq session.pending, cache' \subseteq cache
    PROVE  TimelyInv'
  BY DEF TimelyInv, Timely

\* A step that leads to a world with no other questions.
LEMMA TimelyBecomes ==
    ASSUME TimelyInv, UNCHANGED <<documents, version, editor>>, cache' \subseteq cache,
           NEW w, w.session.pending \subseteq session.pending, Become(w)
    PROVE  TimelyInv'
  BY TimelyKept DEF Become

\* Neither messages to Psalm nor scheduling add questions.
LEMMA SentAsksNothing ==
    ASSUME NEW w \in Worlds, NEW texts, \A d \in DOMAIN texts : texts[d] \in Nat,
           NEW u \in Sent(w, texts)
    PROVE  u \in Worlds /\ u.session.pending = w.session.pending
  BY SentFacts DEF MayHaveFailed

LEMMA ScheduledAsksNothing ==
    ASSUME NEW w \in Worlds, NEW u \in Scheduled(w)
    PROVE  u \in Worlds /\ u.session.pending \subseteq w.session.pending
<1>1. CASE Struck(w.session, u.session)
  BY <1>1, ScheduledFacts DEF Struck
<1>2. CASE u.session = NewSession(IF w.session.there THEN Cleared(w.session) + 1 ELSE 0)
  BY <1>2, ScheduledFacts DEF NewSession
<1>. QED  BY <1>1, <1>2, ScheduledFacts

LEMMA WorldFacts ==
    ASSUME IInv
    PROVE  World \in Worlds /\ World.session = session /\ World.psalm = psalm
  BY DEF World, Worlds, IInv, TypeOK

LEMMA OpenedFacts ==
    ASSUME IInv
    PROVE  \A d \in DOMAIN Opened(documents) : Opened(documents)[d] \in Nat
  BY DEF Opened, IInv, TypeOK, StoreOK

LEMMA TimelyGreeting == ASSUME IInv, TimelyInv, HandleGreeting PROVE TimelyInv'
<1>. DEFINE t == [session EXCEPT !.ready = TRUE]
<1>1. Read \in Worlds /\ Read.session = session
  BY ReadFacts DEF HandleGreeting, IInv
<1>2. t \in Sessions /\ t.pending = session.pending
  BY DEF IInv, TypeOK, Sessions
<1>3. [Read EXCEPT !.session.ready = TRUE] = [Read EXCEPT !.session = t]
  BY <1>1 DEF Worlds
<1>. HIDE DEF t
<1>4. PICK u \in Sent([Read EXCEPT !.session = t], Opened(documents)) : Become(u)
  BY <1>3 DEF HandleGreeting
<1>5. [Read EXCEPT !.session = t] \in Worlds /\ [Read EXCEPT !.session = t].session = t
  BY <1>1, <1>2, SessionFields
<1>6. u.session.pending = session.pending
  BY <1>2, <1>4, <1>5, OpenedFacts, SentAsksNothing
<1>. QED  BY <1>4, <1>6, TimelyBecomes DEF HandleGreeting, store

\* A question that is settled is no longer pending.
LEMMA SettledPending ==
    ASSUME IInv, NEW m, Received(m), NEW q,
           Become([Read EXCEPT !.session.pending = @ \ {q}])
    PROVE  session'.pending \subseteq session.pending
<1>1. Read \in Worlds /\ Read.session = session
  BY ReadFacts DEF IInv
<1>. QED  BY <1>1 DEF Become, Worlds, IInv, TypeOK, Sessions

LEMMA TimelyAnswer == ASSUME IInv, TimelyInv, HandleAnswer PROVE TimelyInv'
<1>1. PICK id \in Ids, t \in Texts \cup {NoText}, q \in session.pending :
        /\ Received(Answer(id, t)) /\ q.id = id /\ cache' = Keep(q, t)
        /\ Become([Read EXCEPT !.session.pending = @ \ {q}])
        /\ UNCHANGED <<documents, version, editor, disk, last, call>>
  BY DEF HandleAnswer
<1>. DEFINE e == [doc |-> q.doc, version |-> q.version, text |-> t,
                  about |-> q.about, closed |-> q.closed]
<1>2. session'.pending \subseteq session.pending
  BY <1>1, SettledPending
<1>3. /\ cache' \subseteq cache \cup {e} /\ e.doc = q.doc /\ e.version = q.version
      /\ e.about = q.about /\ e.closed = q.closed
  BY <1>1 DEF Keep
<1>. HIDE DEF e
<1>4. Timely(e)
  BY <1>3 DEF TimelyInv, Timely
<1>5. \A x \in session'.pending \cup cache' : Timely(x)
  BY <1>2, <1>3, <1>4 DEF TimelyInv
<1>. QED  BY <1>1, <1>5 DEF TimelyInv, Timely

LEMMA TimelyFailure == ASSUME IInv, TimelyInv, HandleFailure PROVE TimelyInv'
<1>1. PICK id \in Ids, q \in session.pending :
        /\ Received(Failure(id)) /\ q.id = id
        /\ Become([Read EXCEPT !.session.pending = @ \ {q}])
        /\ UNCHANGED <<store, call>>
  BY DEF HandleFailure
<1>2. session'.pending \subseteq session.pending
  BY <1>1, SettledPending
<1>. QED  BY <1>1, <1>2, TimelyKept DEF store

\* Diagnostics fill in texts only of documents that are not open.
LEMMA TimelyDiagnostics == ASSUME IInv, TimelyInv, HandleDiagnostics PROVE TimelyInv'
<1>1. PICK d \in Docs :
        /\ Received(Diagnostics(d))
        /\ documents' = [documents EXCEPT ![d] = IF @ = NoText THEN disk[d] ELSE @]
        /\ \E w \in Scheduled(Read) : Become(w)
        /\ UNCHANGED <<version, editor, disk, last, cache, call>>
  BY DEF HandleDiagnostics
<1>2. PICK w \in Scheduled(Read) : Become(w)
  BY <1>1
<1>3. Read \in Worlds /\ Read.session = session
  BY <1>1, ReadFacts DEF IInv
<1>4. session'.pending \subseteq session.pending
  BY <1>2, <1>3, ScheduledAsksNothing DEF Become
<1>5. \A e \in editor : documents'[e] = documents[e]
  BY <1>1 DEF IInv, TypeOK, StoreOK, OpenOK
<1>. QED  BY <1>1, <1>4, <1>5 DEF TimelyInv, Timely

\* A handler that begins in the world that scheduling leads to.
LEMMA BeginAsksNothing ==
    ASSUME IInv, NEW w \in Scheduled(World), NEW op, NEW ds, Begin(op, ds, w)
    PROVE  session'.pending \subseteq session.pending
  BY WorldFacts, ScheduledAsksNothing DEF Begin, Become

\* A document that is opened was not open: nothing is about it but what was
\* asked before it was closed.
LEMMA TimelyOpen == ASSUME IInv, TimelyInv, NEW d \in Docs, DidOpen(d) PROVE TimelyInv'
<1>1. PICK w \in Scheduled(World) : Begin("open", {d}, w)
  BY DEF DidOpen
<1>2. session'.pending \subseteq session.pending
  BY <1>1, BeginAsksNothing
<1>3. /\ d \notin editor /\ editor' = editor \cup {d} /\ cache' \subseteq cache
      /\ documents' = [documents EXCEPT ![d] = disk[d]]
      /\ version' = [version EXCEPT ![d] = 1]
  BY DEF DidOpen, Evicted
<1>4. \A e \in editor : documents'[e] = documents[e] /\ version'[e] = version[e]
  BY <1>3 DEF IInv, TypeOK, StoreOK
<1>. QED  BY <1>2, <1>3, <1>4 DEF TimelyInv, Timely

\* A change raises the version above that of every question and answer.
LEMMA TimelyChange == ASSUME IInv, TimelyInv, NEW d \in Docs, DidChange(d) PROVE TimelyInv'
<1>1. /\ editor' = editor /\ cache' \subseteq cache
      /\ documents' = [documents EXCEPT ![d] = last + 1]
      /\ version' = [version EXCEPT ![d] = @ + 1] /\ Become(World)
  BY DEF DidChange, Evicted, Begin
<1>2. session'.pending = session.pending
  BY <1>1, WorldFacts DEF Become
<1>3. /\ documents \in [Docs -> Nat] /\ version \in [Docs -> Nat] /\ editor \in SUBSET Docs
  BY DEF IInv, TypeOK, StoreOK
<1>4. Parts
  BY PartsFacts
<1>. SUFFICES ASSUME NEW x \in session'.pending \cup cache', ~ x.closed
              PROVE  /\ x.doc \in editor'
                     /\ x.version <= version'[x.doc]
                     /\ x.version = version'[x.doc] => x.about = documents'[x.doc]
  BY DEF TimelyInv, Timely
<1>5. /\ x.doc \in editor /\ x.version <= version[x.doc]
      /\ x.version = version[x.doc] => x.about = documents[x.doc]
      /\ x.doc \in Docs /\ x.version \in Nat
  BY <1>1, <1>2, <1>4 DEF TimelyInv, Timely, Parts
<1>6. CASE x.doc = d
  BY <1>1, <1>3, <1>5, <1>6
<1>7. CASE x.doc /= d
  BY <1>1, <1>3, <1>5, <1>7
<1>. QED  BY <1>6, <1>7

LEMMA TimelySave == ASSUME IInv, TimelyInv, NEW d \in Docs, DidSave(d) PROVE TimelyInv'
<1>1. PICK w \in Scheduled(World) : Begin("save", {d}, w)
  BY DEF DidSave
<1>2. session'.pending \subseteq session.pending
  BY <1>1, BeginAsksNothing
<1>. QED  BY <1>2, TimelyKept DEF DidSave, Evicted

LEMMA TimelyComplete ==
    ASSUME IInv, TimelyInv, NEW d \in Docs, Complete(d)
    PROVE  TimelyInv'
<1>1. PICK w \in Scheduled(World) : Begin("complete", {d}, w)
  BY DEF Complete
<1>2. session'.pending \subseteq session.pending
  BY <1>1, BeginAsksNothing
<1>. QED  BY <1>2, TimelyKept DEF Complete, store

LEMMA TimelyScan == ASSUME IInv, TimelyInv, Scan PROVE TimelyInv'
<1>1. PICK w \in Scheduled(World) : Begin("scan", {}, w)
  BY DEF Scan
<1>2. session'.pending \subseteq session.pending
  BY <1>1, BeginAsksNothing
<1>. QED  BY <1>2, TimelyKept DEF Scan, store

\* A close evicts the answers about the document; of the questions about it,
\* it is remembered that it was closed.
LEMMA TimelyClose == ASSUME IInv, TimelyInv, NEW d \in Docs, DidClose(d) PROVE TimelyInv'
<1>1. /\ editor' = editor \ {d} /\ cache' = Evicted(d)
      /\ documents' = [documents EXCEPT ![d] = NoText]
      /\ version' = [version EXCEPT ![d] = 0]
  BY DEF DidClose
<1>2. PICK w \in Sent(Left(World, d), OnlyOf(d, NoText)) : Become(w)
  BY DEF DidClose
<1>3. /\ World \in Worlds /\ World.session = session /\ session \in Sessions
  BY WorldFacts DEF IInv, TypeOK
<1>4. Left(World, d) \in Worlds
      /\ Left(World, d).session = [session EXCEPT !.pending = {Marked(q, d) : q \in @}]
  BY <1>3, LeftFacts
<1>5. Left(World, d).session.pending = {Marked(q, d) : q \in session.pending}
  BY <1>3, <1>4 DEF Sessions
<1>6. \A e \in DOMAIN OnlyOf(d, NoText) : OnlyOf(d, NoText)[e] \in Nat
  BY DEF OnlyOf, NoText
<1>7. session'.pending = {Marked(q, d) : q \in session.pending}
  BY <1>2, <1>4, <1>5, <1>6, SentAsksNothing DEF Become
<1>8. /\ documents \in [Docs -> Nat] /\ version \in [Docs -> Nat] /\ editor \in SUBSET Docs
  BY DEF IInv, TypeOK, StoreOK
<1>9. \A e \in editor : e /= d => documents'[e] = documents[e] /\ version'[e] = version[e]
  BY <1>1, <1>8
<1>10. ASSUME NEW x \in session.pending \cup cache, ~ x.closed, x.doc /= d
       PROVE  /\ x.doc \in editor'
              /\ x.version <= version'[x.doc]
              /\ x.version = version'[x.doc] => x.about = documents'[x.doc]
  BY <1>1, <1>9, <1>10 DEF TimelyInv, Timely
<1>11. ASSUME NEW x \in cache' PROVE Timely(x)'
  <2>1. x \in cache /\ x.doc /= d
    BY <1>1, <1>11 DEF Evicted
  <2>. QED  BY <1>10, <2>1 DEF Timely
<1>12. ASSUME NEW x \in session'.pending PROVE Timely(x)'
  <2>1. PICK q \in session.pending : x = Marked(q, d)
    BY <1>7
  <2>2. /\ x.doc = q.doc /\ x.version = q.version /\ x.about = q.about
        /\ ~ x.closed => ~ q.closed /\ q.doc /= d
    BY <1>3, <2>1, MarkedFacts DEF Sessions
  <2>. QED  BY <1>10, <2>2 DEF Timely
<1>. QED  BY <1>11, <1>12 DEF TimelyInv

\* The question that is asked is about the text of now.
LEMMA AskedOne ==
    ASSUME IInv, NEW w \in Worlds, NEW d \in Docs, NEW u \in Asked(w, d)
    PROVE  \A x \in u.session.pending :
             \/ x \in w.session.pending
             \/ x.doc = d /\ x.version = version[d] /\ x.about = documents[d]
<1>. DEFINE s == w.session
            q == [id |-> s.next, doc |-> d, version |-> version[d],
                  about |-> documents[d], closed |-> FALSE]
            n == s.next + 1
            pend == s.pending \cup {q}
            t == [s EXCEPT !.next = n, !.pending = pend]
            v == [w EXCEPT !.session = t]
            job == [id |-> s.next, doc |-> d, text |-> w.psalm.text[d]]
<1>1. CASE ~ Listening(w)
  BY <1>1 DEF Asked
<1>2. CASE Listening(w)
  <2>1. s \in Sessions /\ s.next \in Nat /\ documents[d] \in Nat /\ version[d] \in Nat
    BY DEF Worlds, Sessions, IInv, TypeOK, StoreOK
  <2>2. q \in Questions /\ q.doc = d /\ q.version = version[d] /\ q.about = documents[d]
    BY <2>1 DEF Questions
  <2>3. [w EXCEPT !.session.next = @ + 1, !.session.pending = @ \cup
            {[id |-> w.session.next, doc |-> d, version |-> version[d],
              about |-> documents[d], closed |-> FALSE]}] = v
    BY <2>1 DEF Worlds, Sessions
  <2>4. PICK x \in Sent(v, <<>>) :
          u = IF Listening(x) THEN [x EXCEPT !.psalm.jobs = @ \cup {job}] ELSE x
    BY <1>2, <2>3 DEF Asked
  <2>. HIDE DEF q, job
  <2>5. t \in Sessions /\ t.pending = pend
    <3>1. n \in Nat /\ pend \in SUBSET Questions
      BY <2>1, <2>2 DEF Sessions
    <3>. HIDE DEF n, pend, s
    <3>. QED  BY <2>1, <3>1 DEF Sessions
  <2>. HIDE DEF t
  <2>6. v \in Worlds /\ v.session = t
    BY <2>5, SessionFields
  <2>7. \A e \in DOMAIN <<>> : <<>>[e] \in Nat
    OBVIOUS
  <2>. HIDE DEF v
  <2>8. x \in Worlds /\ x.session.pending = pend
    BY <2>4, <2>5, <2>6, <2>7, SentAsksNothing
  <2>9. u.session = x.session
    BY <2>4, <2>8 DEF Worlds
  <2>. QED  BY <2>2, <2>8, <2>9
<1>. QED  BY <1>1, <1>2

LEMMA TimelyFinish == ASSUME IInv, TimelyInv, Finish PROVE TimelyInv'
<1>1. PICK w \in Replayed(World) :
         \/ call.op = "scan" /\ Become(w)
         \/ \E d \in call.doc : \E v \in Told(w, d) :
              \/ call.op \in {"complete", "change"} /\ Become(v)
              \/ call.op /= "complete" /\ \E u \in Scheduled(v) : Become(u)
  BY DEF Finish
<1>2. UNCHANGED <<documents, version, editor, cache>>
  BY DEF Finish, store
<1>3. w \in Worlds /\ w.session.pending = session.pending
  <2>1. CASE w = World
    BY <2>1, WorldFacts
  <2>2. CASE w \in Sent(World, Opened(documents))
    BY <2>2, WorldFacts, OpenedFacts, SentAsksNothing
  <2>. QED  BY <2>1, <2>2 DEF Replayed
<1>4. CASE Become(w)
  BY <1>2, <1>3, <1>4, TimelyBecomes
<1>5. ASSUME NEW d \in call.doc, NEW v \in Told(w, d),
             \/ Become(v)
             \/ \E u \in Scheduled(v) : Become(u)
      PROVE  TimelyInv'
  <2>1. /\ d \in editor /\ d \in Docs /\ documents[d] \in Nat /\ version[d] \in Nat
        /\ call.op \in {"open", "save", "change", "complete"}
    BY DEF IInv, TypeOK, StoreOK, OpenOK
  <2>2. v \in Worlds /\ \A x \in v.session.pending :
          \/ x \in session.pending
          \/ x.doc = d /\ x.version = version[d] /\ x.about = documents[d]
    <3>1. CASE v \in Sent(w, OnlyOf(d, documents[d]))
      <4>1. \A e \in DOMAIN OnlyOf(d, documents[d]) : OnlyOf(d, documents[d])[e] \in Nat
        BY <2>1 DEF OnlyOf
      <4>. QED  BY <1>3, <3>1, <4>1, SentAsksNothing
    <3>2. CASE v = w
      BY <1>3, <3>2
    <3>3. CASE call.op = "complete" /\ v \in Asked(w, d)
      <4>1. Good(v, documents, editor)
        BY <1>5, ReplayedGood, ToldGood
      <4>. QED  BY <1>3, <2>1, <3>3, <4>1, AskedOne DEF Good
    <3>. QED  BY <2>1, <3>1, <3>2, <3>3 DEF Told
  <2>3. \A x \in v.session.pending : Timely(x)
    BY <2>1, <2>2 DEF TimelyInv, Timely
  <2>4. session'.pending \subseteq v.session.pending
    BY <1>5, <2>2, ScheduledAsksNothing DEF Become
  <2>. QED  BY <1>2, <2>3, <2>4 DEF TimelyInv, Timely
<1>. QED  BY <1>1, <1>4, <1>5

LEMMA TimelyNext == ASSUME IInv, TimelyInv, [Next]_vars PROVE TimelyInv'
<1>1. CASE Client
  BY <1>1, TimelyScan, TimelyOpen, TimelyChange, TimelySave, TimelyComplete, TimelyClose
     DEF Client
<1>2. CASE Finish
  BY <1>2, TimelyFinish
<1>3. CASE Pump
  <2>1. CASE Reap
    <3>1. session'.pending = session.pending
      BY <2>1 DEF Reap, IInv, TypeOK, Sessions
    <3>. QED  BY <2>1, <3>1, TimelyKept DEF Reap, store
  <2>2. CASE NoticeClosed
    <3>1. Down(World).session.pending = session.pending
      BY WorldFacts, DownFacts DEF MayHaveFailed
    <3>. QED  BY <2>2, <3>1, TimelyBecomes DEF NoticeClosed, store
  <2>. QED  BY <1>3, <2>1, <2>2, TimelyGreeting, TimelyAnswer, TimelyFailure,
               TimelyDiagnostics DEF Pump
<1>4. CASE Psalm
  <2>1. UNCHANGED Others
    BY <1>4 DEF Psalm, PsalmGreets, PsalmAnswers, PsalmReports, PsalmDies, PsalmExits
  <2>. QED  BY <2>1, TimelyKept DEF Others, store
<1>5. CASE Tick
  <2>1. session'.pending = session.pending
    BY <1>5 DEF Tick, IInv, TypeOK, Sessions
  <2>. QED  BY <1>5, <2>1, TimelyKept DEF Tick, store
<1>6. CASE UNCHANGED vars
  BY <1>6, TimelyKept DEF vars
<1>. QED  BY <1>1, <1>2, <1>3, <1>4, <1>5, <1>6 DEF Next

LEMMA InTime == Spec => []TimelyInv
<1>1. Init => TimelyInv
  BY DEF Init, TimelyInv, NoSession, NewSession
<1>. QED  BY <1>1, TimelyNext, Invariance, PTL DEF Spec

-----------------------------------------------------------------------------
(* The properties.                                                         *)

\* Psalm is started at most once more than the strikes allow in any stretch of
\* Healthy ticks: every start but the first costs a strike, and strikes are
\* forgotten only when the last attempt, and with it every start that is
\* remembered, is older than that (lsp_psalm_ls_schedule_project).
THEOREM StartsBounded == Spec => []BurstsBounded
<1>1. IInv => BurstsBounded
  <2>. SUFFICES ASSUME IInv PROVE BurstsBounded
    OBVIOUS
  <2>1. Bounded(session, recent) /\ session.strikes \in Nat /\ MaxRestarts \in Nat
    BY TimeAssumption DEF IInv, TypeOK, Sessions
  <2>2. IsFiniteSet(recent)
    <3>1. IsFiniteSet(0 .. Healthy)
      BY TicksFinite
    <3>. QED  BY <2>1, <3>1, FS_Subset DEF Bounded
  <2>3. Cardinality(recent) \in Nat
    BY <2>2, FS_CardinalityType
  <2>. QED  BY <2>1, <2>3 DEF BurstsBounded, Bounded
<1>. QED  BY <1>1, Invariance, PTL

\* When no handler is under way, a Psalm that listens has the texts of the
\* editor: of the one document that a handler has stored and not yet passed on,
\* Psalm hears before the handler ends; what it missed while it was starting,
\* it is told when it greets.
THEOREM PsalmInSync == Spec => []InSync
<1>1. IInv => InSync
  <2>. SUFFICES ASSUME IInv, Idle, OnChange, Listening(World), NEW d \in editor
                PROVE  psalm.text[d] = documents[d]
    BY DEF InSync
  <2>1. d \in editor \ Untold
    BY IdleFacts
  <2>2. session.up /\ session.ready
    BY DEF Listening, World
  <2>. QED  BY <2>1, <2>2 DEF IInv, Current
<1>. QED  BY <1>1, Invariance, PTL

\* Every question under way has exactly one entry among the pending ones, the
\* answers in the cache are about the text that they were asked about, and the
\* one that the key of now finds is about the text of now, if the document was
\* not closed while it was under way.
THEOREM AnswersFound == Spec => []AnswersFit
<1>1. IInv /\ TimelyInv => AnswersFit
  <2>. SUFFICES ASSUME IInv, TimelyInv PROVE AnswersFit
    OBVIOUS
  <2>1. ASSUME session.pipes, NEW id \in UnderWay
        PROVE  Cardinality({q \in session.pending : q.id = id}) = 1
    <3>1. OneOfEach(session, psalm) /\ Matched(session, psalm)
      BY <2>1 DEF IInv, Fits
    <3>2. HasQuestion(session, id)
      BY <2>1, <3>1 DEF UnderWay, Matched, Replies, IsReply
    <3>3. PICK q \in session.pending : q.id = id
      BY <3>2 DEF HasQuestion
    <3>4. {r \in session.pending : r.id = id} = {q}
      BY <3>1, <3>3 DEF OneOfEach
    <3>. QED  BY <3>4, FS_Singleton
  <2>2. ASSUME OnChange, NEW c \in cache
        PROVE  /\ c.text = c.about
               /\ ~ c.closed /\ c.version = version[c.doc] => c.text = documents[c.doc]
    <3>1. c.text = c.about
      BY <2>2 DEF IInv, CacheOK
    <3>2. Timely(c)
      BY DEF TimelyInv
    <3>. QED  BY <3>1, <3>2 DEF Timely
  <2>. QED  BY <2>1, <2>2 DEF AnswersFit
<1>. QED  BY <1>1, Invariance, InTime, PTL
=============================================================================
