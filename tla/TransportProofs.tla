--------------------------- MODULE TransportProofs ---------------------------
(***************************************************************************)
(* What holds of Transport for any ids, documents, kinds of messages and   *)
(* batching: the server answers in order and once, it refuses what was     *)
(* cancelled, and a publication that it skips is made up for in time.      *)
(*                                                                         *)
(* The queue holds messages of the stream in the order they were sent, and *)
(* what was answered lies before it.  So the request at its head is the    *)
(* next one to be answered, whatever was dropped or taken out in between.  *)
(***************************************************************************)
EXTENDS Transport, FiniteSetTheorems, SequenceTheorems, TLAPS

-----------------------------------------------------------------------------
\* The least of some numbers.
LEMMA Least ==
    ASSUME NEW S \in SUBSET Nat, S /= {}
    PROVE  \E m \in S : \A k \in S : m <= k
<1>1. PICK m \in S : \A k \in S : <<k, m>> \notin OpToRel(<, Nat)
  BY NatLessThanWellFounded, WFMin
<1>2. \A k \in S : ~ (k < m)
  BY <1>1 DEF OpToRel
<1>. QED  BY <1>2

-----------------------------------------------------------------------------
(* The numbers of a finite set in increasing order.                        *)

Below(I, i) == {j \in I : j < i}

LEMMA BelowFinite ==
    ASSUME NEW I \in SUBSET Nat, IsFiniteSet(I), NEW i \in Nat
    PROVE  /\ IsFiniteSet(Below(I, i)) /\ Cardinality(Below(I, i)) \in Nat
           /\ Cardinality(I) \in Nat
           /\ i \in I => Cardinality(Below(I, i)) < Cardinality(I)
<1>1. Below(I, i) \subseteq I
  BY DEF Below
<1>2. /\ IsFiniteSet(Below(I, i))
      /\ Cardinality(Below(I, i)) <= Cardinality(I)
      /\ Cardinality(Below(I, i)) = Cardinality(I) => Below(I, i) = I
  BY <1>1, FS_Subset
<1>3. Cardinality(Below(I, i)) \in Nat /\ Cardinality(I) \in Nat
  BY <1>2, FS_CardinalityType
<1>4. i \notin Below(I, i)
  BY DEF Below
<1>. QED  BY <1>2, <1>3, <1>4

\* A greater number has more numbers below it.
LEMMA BelowMonotone ==
    ASSUME NEW I \in SUBSET Nat, IsFiniteSet(I), NEW i \in I, NEW j \in I, i < j
    PROVE  Cardinality(Below(I, i)) < Cardinality(Below(I, j))
<1>1. Below(I, i) \subseteq Below(I, j) /\ i \in Below(I, j) /\ i \notin Below(I, i)
  <2>1. \A x \in I : x < i => x < j
    OBVIOUS
  <2>2. i \in Nat /\ ~ (i < i)
    OBVIOUS
  <2>. QED  BY <2>1, <2>2 DEF Below
<1>2. IsFiniteSet(Below(I, j)) /\ Cardinality(Below(I, j)) \in Nat
      /\ Cardinality(Below(I, i)) \in Nat
  BY BelowFinite
<1>3. /\ Cardinality(Below(I, i)) <= Cardinality(Below(I, j))
      /\ Cardinality(Below(I, i)) = Cardinality(Below(I, j)) => Below(I, i) = Below(I, j)
  BY <1>1, <1>2, FS_Subset
<1>. QED  BY <1>1, <1>2, <1>3

\* For each count smaller than the size there is one number with that many
\* below it.
LEMMA Counted ==
    ASSUME NEW I \in SUBSET Nat, IsFiniteSet(I), NEW k \in 0 .. Cardinality(I) - 1
    PROVE  \E i \in I : Cardinality(Below(I, i)) = k
<1>. DEFINE n == Cardinality(I)
            f == [i \in I |-> Cardinality(Below(I, i))]
            R == {f[i] : i \in I}
<1>1. n \in Nat
  BY FS_CardinalityType
<1>2. \A i \in I : f[i] \in 0 .. n - 1
  BY BelowFinite, <1>1
<1>3. \A i, j \in I : f[i] = f[j] => i = j
  <2>1. \A i, j \in I : i < j => f[i] < f[j]
    BY BelowMonotone
  <2>. QED  BY <2>1, <1>2
<1>4. f \in Injection(I, R) /\ f \in Surjection(I, R)
  BY <1>3 DEF Injection, Surjection, IsInjective
<1>5. IsFiniteSet(R) /\ Cardinality(R) = n
  BY <1>4, FS_Surjection
<1>6. IsFiniteSet(0 .. n - 1) /\ Cardinality(0 .. n - 1) = n
  BY <1>1, FS_Interval
<1>7. R \subseteq 0 .. n - 1
  BY <1>2
<1>8. R = 0 .. n - 1
  BY <1>5, <1>6, <1>7, FS_Subset
<1>. QED  BY <1>8

\* InOrder lists a set: the k-th number listed has k - 1 numbers below it, the
\* list increases, and every number of the set is listed.
LEMMA Listed ==
    ASSUME NEW I \in SUBSET Nat, IsFiniteSet(I)
    PROVE  /\ InOrder(I) \in Seq(I) /\ Len(InOrder(I)) = Cardinality(I)
           /\ \A k \in 1 .. Cardinality(I) :
                InOrder(I)[k] \in I /\ Cardinality(Below(I, InOrder(I)[k])) = k - 1
           /\ \A j, k \in 1 .. Cardinality(I) : j < k => InOrder(I)[j] < InOrder(I)[k]
           /\ \A i \in I : Cardinality(Below(I, i)) + 1 \in 1 .. Cardinality(I)
                           /\ InOrder(I)[Cardinality(Below(I, i)) + 1] = i
<1>. DEFINE n == Cardinality(I)  s == InOrder(I)
<1>1. n \in Nat
  BY FS_CardinalityType
<1>2. s = [k \in 1 .. n |-> CHOOSE i \in I : Cardinality(Below(I, i)) = k - 1]
  BY DEF InOrder, Below
<1>3. \A k \in 1 .. n : s[k] \in I /\ Cardinality(Below(I, s[k])) = k - 1
  <2>. SUFFICES ASSUME NEW k \in 1 .. n
                PROVE  s[k] \in I /\ Cardinality(Below(I, s[k])) = k - 1
    OBVIOUS
  <2>1. k - 1 \in 0 .. n - 1
    BY <1>1
  <2>2. \E i \in I : Cardinality(Below(I, i)) = k - 1
    BY <2>1, Counted
  <2>. QED  BY <1>2, <2>2
<1>4. s \in Seq(I) /\ Len(s) = n
  BY <1>1, <1>2, <1>3
<1>5. \A i \in I : Cardinality(Below(I, i)) \in 0 .. n - 1
  BY BelowFinite, <1>1
<1>6. \A i, j \in I : i < j => Cardinality(Below(I, i)) < Cardinality(Below(I, j))
  BY BelowMonotone
<1>7. \A i, j \in I : Cardinality(Below(I, i)) = Cardinality(Below(I, j)) => i = j
  BY <1>5, <1>6
<1>8. \A i, j \in I : Cardinality(Below(I, i)) < Cardinality(Below(I, j)) => i < j
  BY <1>5, <1>6, <1>7
<1>9. \A j, k \in 1 .. n : j < k => s[j] < s[k]
  <2>. SUFFICES ASSUME NEW j \in 1 .. n, NEW k \in 1 .. n, j < k
                PROVE  s[j] < s[k]
    OBVIOUS
  <2>1. /\ s[j] \in I /\ Cardinality(Below(I, s[j])) = j - 1
        /\ s[k] \in I /\ Cardinality(Below(I, s[k])) = k - 1
    BY <1>3
  <2>2. j - 1 < k - 1
    BY <1>1
  <2>. QED  BY <2>1, <2>2, <1>8
<1>10. ASSUME NEW i \in I
       PROVE  Cardinality(Below(I, i)) + 1 \in 1 .. n /\ s[Cardinality(Below(I, i)) + 1] = i
  <2>. DEFINE k == Cardinality(Below(I, i)) + 1
  <2>1. k \in 1 .. n
    BY <1>5, <1>1
  <2>2. s[k] \in I /\ Cardinality(Below(I, s[k])) = Cardinality(Below(I, i))
    BY <1>3, <1>5, <2>1
  <2>. QED  BY <1>7, <2>1, <2>2
<1>. QED  BY <1>3, <1>4, <1>9, <1>10

\* A greater number comes last.
LEMMA ListedAppended ==
    ASSUME NEW I \in SUBSET Nat, IsFiniteSet(I), NEW m \in Nat, \A i \in I : i < m
    PROVE  /\ IsFiniteSet(I \cup {m}) /\ Cardinality(I \cup {m}) = Cardinality(I) + 1
           /\ InOrder(I \cup {m}) = Append(InOrder(I), m)
<1>. DEFINE J == I \cup {m}  n == Cardinality(I)
<1>1. IsFiniteSet(J) /\ Cardinality(J) = n + 1 /\ n \in Nat /\ J \in SUBSET Nat
  BY FS_AddElement, FS_CardinalityType
<1>2. \A i \in I : Below(J, i) = Below(I, i)
  BY DEF Below
<1>3. Below(J, m) = I
  <2>1. \A j \in I : j < m /\ j \in Nat
    OBVIOUS
  <2>2. ~ (m < m)
    OBVIOUS
  <2>. QED  BY <2>1, <2>2 DEF Below
<1>4. /\ InOrder(I) \in Seq(I) /\ Len(InOrder(I)) = n
      /\ \A k \in 1 .. n : InOrder(I)[k] \in I /\ Cardinality(Below(I, InOrder(I)[k])) = k - 1
  BY Listed
<1>5. /\ InOrder(J) \in Seq(J) /\ Len(InOrder(J)) = n + 1
      /\ \A i \in J : InOrder(J)[Cardinality(Below(J, i)) + 1] = i
  BY <1>1, Listed
<1>6. InOrder(J)[n + 1] = m
  BY <1>3, <1>5
<1>7. \A k \in 1 .. n : InOrder(J)[k] = InOrder(I)[k]
  <2>. SUFFICES ASSUME NEW k \in 1 .. n
                PROVE  InOrder(J)[k] = InOrder(I)[k]
    OBVIOUS
  <2>1. InOrder(I)[k] \in I /\ Cardinality(Below(J, InOrder(I)[k])) = k - 1
    BY <1>2, <1>4
  <2>2. InOrder(J)[(k - 1) + 1] = InOrder(I)[k]
    BY <1>5, <2>1
  <2>. QED  BY <2>2
<1>8. Append(InOrder(I), m) \in Seq(J) /\ Len(Append(InOrder(I), m)) = n + 1
      /\ Append(InOrder(I), m)[n + 1] = m
      /\ \A k \in 1 .. n : Append(InOrder(I), m)[k] = InOrder(I)[k]
  <2>1. InOrder(I) \in Seq(J)
    BY <1>4, SeqMonotonic
  <2>. QED  BY <2>1, <1>1, <1>4
<1>9. ASSUME NEW k \in 1 .. n + 1
      PROVE  InOrder(J)[k] = Append(InOrder(I), m)[k]
  <2>1. k = n + 1 \/ k \in 1 .. n
    BY <1>1
  <2>. QED  BY <2>1, <1>6, <1>7, <1>8
<1>. QED  BY <1>1, <1>5, <1>8, <1>9, SeqEqual

-----------------------------------------------------------------------------
(* Taking a message out of a queue.                                        *)

\* r is q without its message c.
Without(r, q, c) ==
    /\ r \in Seq(Messages) /\ c \in 1 .. Len(q) /\ Len(r) = Len(q) - 1
    /\ \A k \in 1 .. Len(r) : r[k] = IF k < c THEN q[k] ELSE q[k + 1]

LEMMA TailWithout ==
    ASSUME NEW q \in Seq(Messages), q /= <<>>
    PROVE  Without(Tail(q), q, 1)
  BY HeadTailProperties DEF Without

LEMMA RemovedWithout ==
    ASSUME NEW q \in Seq(Messages), NEW c \in 1 .. Len(q)
    PROVE  Without(RemoveAt(q, c), q, c)
<1>. DEFINE a == SubSeq(q, 1, c - 1)  b == SubSeq(q, c + 1, Len(q))
<1>1. /\ a \in Seq(Messages) /\ Len(a) = c - 1
      /\ \A k \in 1 .. c - 1 : a[k] = q[k]
  <2>1. \A k \in 1 .. c - 1 : q[k] \in Messages
    OBVIOUS
  <2>2. /\ a \in Seq(Messages) /\ Len(a) = IF 1 <= c - 1 THEN (c - 1) - 1 + 1 ELSE 0
        /\ \A k \in 1 .. (c - 1) - 1 + 1 : a[k] = q[1 + k - 1]
    BY <2>1, SubSeqProperties
  <2>. QED  BY <2>2
<1>2. /\ b \in Seq(Messages) /\ Len(b) = Len(q) - c
      /\ \A k \in 1 .. Len(q) - c : b[k] = q[c + k]
  <2>1. \A k \in c + 1 .. Len(q) : q[k] \in Messages
    OBVIOUS
  <2>2. /\ b \in Seq(Messages)
        /\ Len(b) = IF c + 1 <= Len(q) THEN Len(q) - (c + 1) + 1 ELSE 0
        /\ \A k \in 1 .. Len(q) - (c + 1) + 1 : b[k] = q[(c + 1) + k - 1]
    BY <2>1, SubSeqProperties
  <2>. QED  BY <2>2
<1>. HIDE DEF a, b
<1>3. RemoveAt(q, c) = a \o b
  BY DEF RemoveAt, a, b
<1>4. /\ a \o b \in Seq(Messages) /\ Len(a \o b) = Len(q) - 1
      /\ \A k \in 1 .. Len(q) - 1 :
           (a \o b)[k] = IF k <= c - 1 THEN a[k] ELSE b[k - (c - 1)]
  <2>1. /\ a \o b \in Seq(Messages) /\ Len(a \o b) = Len(a) + Len(b)
        /\ \A k \in 1 .. Len(a) + Len(b) :
             (a \o b)[k] = IF k <= Len(a) THEN a[k] ELSE b[k - Len(a)]
    BY <1>1, <1>2, ConcatProperties
  <2>. QED  BY <2>1, <1>1, <1>2
<1>5. ASSUME NEW k \in 1 .. Len(q) - 1
      PROVE  (a \o b)[k] = IF k < c THEN q[k] ELSE q[k + 1]
  <2>1. CASE k < c
    BY <2>1, <1>1, <1>4
  <2>2. CASE ~ (k < c)
    <3>1. k - (c - 1) \in 1 .. Len(q) - c /\ c + (k - (c - 1)) = k + 1
      BY <2>2
    <3>. QED  BY <2>2, <3>1, <1>2, <1>4
  <2>. QED  BY <2>1, <2>2
<1>. QED  BY <1>3, <1>4, <1>5 DEF Without

\* The cancellation a request finds in the queue is one.
LEMMA Found ==
    ASSUME NEW q \in Seq(Messages), NEW id, QueuedCancellation(id, q) /= 0
    PROVE  /\ QueuedCancellation(id, q) \in 1 .. Len(q)
           /\ q[QueuedCancellation(id, q)].kind = "cancel"
           /\ q[QueuedCancellation(id, q)].id = id
<1>. DEFINE I == {i \in 1 .. Len(q) : q[i].kind = "cancel" /\ q[i].id = id}
<1>1. QueuedCancellation(id, q) = IF I /= {} THEN Min(I) ELSE 0
  BY DEF QueuedCancellation, SelectInSeq
<1>2. I /= {} => Min(I) \in I
  <2>1. I \in SUBSET Nat
    OBVIOUS
  <2>. HIDE DEF I
  <2>2. I /= {} => \E m \in I : \A k \in I : m <= k
    BY <2>1, Least
  <2>. QED  BY <2>2 DEF Min
<1>. QED  BY <1>1, <1>2

\* A message waits in a queue.
Waits(q, i) == \E k \in 1 .. Len(q) : q[k].place = i

\* A queue holds messages of the stream that were read, in the order they were
\* sent.
Ordered(q) ==
    /\ q \in Seq(Messages)
    /\ \A k \in 1 .. Len(q) : q[k].place \in 1 .. taken /\ q[k] = sent[q[k].place]
    /\ \A j, k \in 1 .. Len(q) : j < k => q[j].place < q[k].place

LEMMA WithoutOrdered ==
    ASSUME taken \in Nat, NEW q, Ordered(q), NEW c, NEW r, Without(r, q, c)
    PROVE  /\ Ordered(r)
           /\ \A i : Waits(r, i) <=> Waits(q, i) /\ i /= q[c].place
<1>. DEFINE from(k) == IF k < c THEN k ELSE k + 1
<1>1. /\ q \in Seq(Messages) /\ r \in Seq(Messages)
      /\ c \in 1 .. Len(q) /\ Len(r) = Len(q) - 1
  BY DEF Without, Ordered
<1>2. \A k \in 1 .. Len(r) : from(k) \in 1 .. Len(q) /\ from(k) /= c /\ r[k] = q[from(k)]
  BY <1>1 DEF Without
<1>3. \A j, k \in 1 .. Len(r) : j < k => from(j) < from(k)
  BY <1>1
<1>4. \A k \in 1 .. Len(q) : k /= c => \E j \in 1 .. Len(r) : from(j) = k
  <2>. SUFFICES ASSUME NEW k \in 1 .. Len(q), k /= c
                PROVE  \E j \in 1 .. Len(r) : from(j) = k
    OBVIOUS
  <2>1. CASE k < c
    BY <2>1, <1>1
  <2>2. CASE k > c
    <3>1. k - 1 \in 1 .. Len(r) /\ from(k - 1) = k
      BY <2>2, <1>1
    <3>. QED  BY <3>1
  <2>. QED  BY <2>1, <2>2, <1>1
<1>. HIDE DEF from
<1>5. Ordered(r)
  BY <1>1, <1>2, <1>3 DEF Ordered
<1>6. \A j, k \in 1 .. Len(q) : q[j].place = q[k].place => j = k
  <2>1. \A k \in 1 .. Len(q) : q[k].place \in Nat
    BY DEF Ordered
  <2>. QED  BY <1>1, <2>1 DEF Ordered
<1>7. ASSUME NEW i
      PROVE  Waits(r, i) <=> Waits(q, i) /\ i /= q[c].place
  <2>1. Waits(r, i) => Waits(q, i) /\ i /= q[c].place
    BY <1>1, <1>2, <1>6 DEF Waits
  <2>2. Waits(q, i) /\ i /= q[c].place => Waits(r, i)
    <3>. SUFFICES ASSUME NEW k \in 1 .. Len(q), q[k].place = i, i /= q[c].place
                  PROVE  Waits(r, i)
      BY DEF Waits
    <3>1. PICK j \in 1 .. Len(r) : from(j) = k
      BY <1>4
    <3>. QED  BY <3>1, <1>2 DEF Waits
  <2>. QED  BY <2>1, <2>2
<1>. QED  BY <1>5, <1>7

-----------------------------------------------------------------------------
(* The inductive invariant.  While the loop runs, what was read is either   *)
(* answered or waits, and what was answered comes before what waits.        *)

StreamInv ==
    /\ sent \in Seq(Messages) /\ \A i \in DOMAIN sent : sent[i].place = i
    /\ taken \in 0 .. Len(sent)

QueueInv == Ordered(queue) /\ (pc \in {"topoll", "poll"} => queue = <<>>)

\* The answer k is to the request that has k - 1 requests before it.
InTurn(k) ==
    /\ answers[k].place \in Requests /\ answers[k].place <= taken
    /\ Cardinality(Below(Requests, answers[k].place)) = k - 1

Outcomes == {"result", "InvalidRequest", "RequestCancelled", "MethodNotFound",
             "InternalError"}

AnswersInv ==
    /\ answers \in Seq([place : Nat, outcome : Outcomes])
    /\ \A k \in 1 .. Len(answers) :
          InTurn(k) /\ \A i : Waits(queue, i) => answers[k].place < i
    /\ pc /= "done" =>
          \A i \in Requests : i <= taken => Waits(queue, i) \/ Answered(i)

IInv == StreamInv /\ QueueInv /\ AnswersInv

-----------------------------------------------------------------------------
\* What the client may send is a message, numbered by its place.
LEMMA SentFacts ==
    ASSUME StreamInv, NEW m \in NextMessages
    PROVE  m \in Messages /\ m.place = Len(sent) + 1
<1>1. Len(sent) + 1 \in Nat
  BY DEF StreamInv
<1>. QED  BY <1>1 DEF NextMessages, Messages, Place

LEMMA RequestsFacts ==
    ASSUME StreamInv
    PROVE  /\ Requests \in SUBSET Nat /\ IsFiniteSet(Requests)
           /\ \A i \in Requests : i \in 1 .. Len(sent) /\ sent[i].place = i
<1>1. DOMAIN sent = 1 .. Len(sent) /\ Len(sent) \in Nat
  BY DEF StreamInv
<1>2. IsFiniteSet(1 .. Len(sent))
  BY <1>1, FS_Interval
<1>3. Requests \subseteq 1 .. Len(sent)
  BY <1>1 DEF Requests
<1>4. IsFiniteSet(Requests)
  BY <1>2, <1>3, FS_Subset
<1>. QED  BY <1>1, <1>3, <1>4 DEF StreamInv

\* A turn of the loop takes the head of the queue and answers it if it is a
\* request; what else it takes is a cancellation.
LEMMA HandledFacts ==
    ASSUME StreamInv, QueueInv, HandleNext
    PROVE  LET m == Head(queue)
           IN  /\ m.place \in 1 .. taken /\ m = sent[m.place] /\ m = queue[1]
               /\ Waits(queue, m.place)
               /\ Ordered(queue')
               /\ \A i : Waits(queue', i) => Waits(queue, i) /\ m.place < i
               /\ \A i \in Requests : Waits(queue, i) => i = m.place \/ Waits(queue', i)
               /\ \/ ~ HasId(m) /\ answers' = answers /\ queue' = Tail(queue)
                  \/ HasId(m) /\ \E o \in Outcomes :
                       answers' = Append(answers, [place |-> m.place, outcome |-> o])
<1>. DEFINE m == Head(queue)  q == Tail(queue)
<1>1. queue \in Seq(Messages) /\ queue /= <<>> /\ Ordered(queue) /\ taken \in Nat
  BY DEF QueueInv, Ordered, HandleNext, StreamInv
<1>2. m = queue[1] /\ 1 \in 1 .. Len(queue)
  BY <1>1
<1>3. m.place \in 1 .. taken /\ m = sent[m.place] /\ Waits(queue, m.place)
  BY <1>1, <1>2 DEF Ordered, Waits
<1>4. Without(q, queue, 1)
  BY <1>1, TailWithout
<1>5. Ordered(q) /\ \A i : Waits(q, i) <=> Waits(queue, i) /\ i /= m.place
  BY <1>1, <1>2, <1>4, WithoutOrdered
<1>6. \A i : Waits(q, i) => m.place < i
  <2>1. ASSUME NEW k \in 1 .. Len(q)
        PROVE  m.place < q[k].place
    <3>1. q[k] = queue[k + 1] /\ k + 1 \in 1 .. Len(queue)
      BY <1>4 DEF Without
    <3>. QED  BY <3>1, <1>1, <1>2 DEF Ordered
  <2>. QED  BY <2>1 DEF Waits
<1>7. \/ queue' = q
      \/ HasId(m) /\ QueuedCancellation(m.id, q) /= 0
         /\ queue' = RemoveAt(q, QueuedCancellation(m.id, q))
  BY DEF HandleNext, HandleInvalid, HandleCancelled, HandleAfterShutdown, HandleRequest,
         HandleCancel, HandleChange, HandleClose, HandleNote, HandleExit, IsCancelled
<1>8. \/ ~ HasId(m) /\ answers' = answers /\ queue' = q
      \/ HasId(m) /\ \E o \in Outcomes :
                        answers' = Append(answers, [place |-> m.place, outcome |-> o])
  <2>1. CASE HandleInvalid(m, q)
    BY <2>1 DEF HandleInvalid, Respond, HasId, RequestKinds, Outcomes
  <2>2. CASE HandleCancelled(m, q)
    BY <2>2 DEF HandleCancelled, Respond, HasId, Outcomes
  <2>3. CASE HandleAfterShutdown(m, q)
    BY <2>3 DEF HandleAfterShutdown, Respond, HasId, Outcomes
  <2>4. CASE HandleRequest(m, q)
    <3>. DEFINE o == CASE m.kind = "unknown" -> "MethodNotFound"
                       [] m.kind = "throws"  -> "InternalError"
                       [] OTHER              -> "result"
    <3>1. o \in Outcomes
      BY DEF Outcomes
    <3>2. HasId(m) /\ answers' = Append(answers, [place |-> m.place, outcome |-> o])
      BY <2>4 DEF HandleRequest, Respond
    <3>. HIDE DEF o
    <3>. QED  BY <3>1, <3>2
  <2>5. CASE HandleCancel(m, q) \/ HandleChange(m, q) \/ HandleClose(m, q)
             \/ HandleNote(m, q) \/ HandleExit(m, q)
    BY <2>5 DEF HandleCancel, HandleChange, HandleClose, HandleNote, HandleExit, HasId,
                RequestKinds
  <2>. QED  BY <2>1, <2>2, <2>3, <2>4, <2>5 DEF HandleNext
<1>9. CASE queue' = q
  BY <1>2, <1>3, <1>5, <1>6, <1>8, <1>9
<1>10. CASE /\ QueuedCancellation(m.id, q) /= 0
            /\ queue' = RemoveAt(q, QueuedCancellation(m.id, q))
  <2>. DEFINE c == QueuedCancellation(m.id, q)
  <2>1. q \in Seq(Messages)
    BY <1>5 DEF Ordered
  <2>2. c \in 1 .. Len(q) /\ q[c].kind = "cancel"
    BY <1>10, <2>1, Found
  <2>3. Without(queue', q, c)
    BY <1>10, <2>1, <2>2, RemovedWithout
  <2>4. /\ Ordered(queue')
        /\ \A i : Waits(queue', i) <=> Waits(q, i) /\ i /= q[c].place
    BY <1>1, <1>5, <2>3, WithoutOrdered
  <2>5. \A i \in Requests : i /= q[c].place
    <3>1. q[c] = sent[q[c].place]
      BY <1>5, <2>2 DEF Ordered
    <3>. QED  BY <2>2, <3>1 DEF Requests, HasId, RequestKinds
  <2>. QED  BY <1>2, <1>3, <1>5, <1>6, <1>8, <2>4, <2>5
<1>. QED  BY <1>7, <1>9, <1>10

\* The request at the head of the queue has as many requests before it as there
\* are answers: it is its turn.
LEMMA HeadInTurn ==
    ASSUME IInv, pc /= "done", queue /= <<>>, HasId(Head(queue))
    PROVE  /\ Head(queue).place \in Requests
           /\ Cardinality(Below(Requests, Head(queue).place)) = Len(answers)
<1>. DEFINE p == Head(queue).place
            rank(i) == Cardinality(Below(Requests, i))
            n == Len(answers)
<1>1. /\ Requests \in SUBSET Nat /\ IsFiniteSet(Requests) /\ n \in Nat
      /\ \A i \in Requests : rank(i) \in Nat /\ rank(i) < Cardinality(Requests)
      /\ Cardinality(Requests) \in Nat
  <2>1. Requests \in SUBSET Nat /\ IsFiniteSet(Requests)
    BY RequestsFacts DEF IInv
  <2>2. \A i \in Requests : rank(i) \in Nat /\ rank(i) < Cardinality(Requests)
    BY <2>1, BelowFinite
  <2>3. n \in Nat
    BY DEF IInv, AnswersInv
  <2>. QED  BY <2>1, <2>2, <2>3, FS_CardinalityType
<1>2. /\ queue \in Seq(Messages) /\ Head(queue) = queue[1] /\ 1 \in 1 .. Len(queue)
      /\ p \in 1 .. taken /\ queue[1] = sent[p]
      /\ \A k \in 1 .. Len(queue) : k /= 1 => p < queue[k].place
  BY DEF IInv, QueueInv, Ordered
<1>3. p \in Requests /\ Waits(queue, p)
  BY <1>2 DEF IInv, StreamInv, Requests, Waits
<1>4. \A i, j \in Requests : i < j => rank(i) < rank(j)
  BY <1>1, BelowMonotone
<1>5. \A k \in 1 .. n : /\ answers[k].place \in Requests
                        /\ rank(answers[k].place) = k - 1 /\ answers[k].place < p
  BY <1>3 DEF IInv, AnswersInv, InTurn
<1>6. \A i \in Requests : i < p => \E k \in 1 .. n : answers[k].place = i
  <2>. SUFFICES ASSUME NEW i \in Requests, i < p
                PROVE  \E k \in 1 .. n : answers[k].place = i
    OBVIOUS
  <2>1. i \in Nat /\ p \in Nat /\ taken \in Nat /\ p <= taken
    BY <1>1, <1>2 DEF IInv, StreamInv
  <2>2. ~ Waits(queue, i)
    BY <1>2, <2>1 DEF Waits
  <2>3. Answered(i)
    BY <2>1, <2>2 DEF IInv, AnswersInv
  <2>. QED  BY <2>3 DEF Answered, IInv, AnswersInv
<1>. HIDE DEF rank, n, p
<1>7. ASSUME rank(p) < n
      PROVE  FALSE
  <2>1. rank(p) + 1 \in 1 .. n /\ rank(p) \in Nat
    BY <1>1, <1>3, <1>7
  <2>2. /\ answers[rank(p) + 1].place \in Requests
        /\ rank(answers[rank(p) + 1].place) = (rank(p) + 1) - 1
        /\ answers[rank(p) + 1].place < p
    BY <1>5, <2>1
  <2>3. rank(answers[rank(p) + 1].place) < rank(p)
    BY <1>3, <1>4, <2>2
  <2>. QED  BY <2>1, <2>2, <2>3
<1>8. ASSUME rank(p) > n
      PROVE  FALSE
  <2>1. n \in 0 .. Cardinality(Requests) - 1 /\ rank(p) \in Nat
    BY <1>1, <1>3, <1>8
  <2>2. PICK i \in Requests : rank(i) = n
    BY <1>1, <2>1, Counted DEF rank
  <2>3. i < p
    <3>1. i \in Nat /\ p \in Nat /\ rank(i) < rank(p)
      BY <1>1, <1>2, <1>8, <2>1, <2>2
    <3>2. ~ (p < i)
      BY <1>3, <1>4, <2>1, <2>2, <3>1
    <3>. QED  BY <2>1, <2>2, <3>1, <3>2
  <2>4. PICK k \in 1 .. n : answers[k].place = i
    BY <1>6, <2>3
  <2>5. rank(i) = k - 1
    BY <1>5, <2>4
  <2>. QED  BY <1>1, <2>2, <2>4, <2>5
<1>9. rank(p) = n
  BY <1>1, <1>3, <1>7, <1>8
<1>. QED  BY <1>3, <1>9 DEF rank, n, p

-----------------------------------------------------------------------------
LEMMA InitInv == Init => IInv
<1>. SUFFICES ASSUME Init PROVE IInv
  OBVIOUS
<1>1. StreamInv
  BY DEF Init, StreamInv
<1>2. QueueInv
  BY DEF Init, QueueInv, Ordered
<1>3. AnswersInv
  BY DEF Init, AnswersInv, Requests
<1>. QED  BY <1>1, <1>2, <1>3 DEF IInv

\* What the client sends comes after all it sent before.
LEMMA SendFacts ==
    ASSUME StreamInv, Send
    PROVE  /\ StreamInv' /\ Len(sent') = Len(sent) + 1
           /\ \A i \in 1 .. Len(sent) : sent'[i] = sent[i]
           /\ Requests' = Requests \/ Requests' = Requests \cup {Len(sent) + 1}
           /\ \A i \in Requests : i < Len(sent) + 1
<1>1. PICK m \in NextMessages : sent' = Append(sent, m)
  BY DEF Send
<1>2. m \in Messages /\ m.place = Len(sent) + 1
  BY <1>1, SentFacts
<1>3. sent \in Seq(Messages) /\ taken \in 0 .. Len(sent) /\ taken' = taken
  BY DEF StreamInv, Send
<1>4. /\ sent' \in Seq(Messages) /\ Len(sent') = Len(sent) + 1
      /\ \A i \in 1 .. Len(sent) : sent'[i] = sent[i]
      /\ sent'[Len(sent) + 1] = m
  BY <1>1, <1>2, <1>3
<1>5. DOMAIN sent = 1 .. Len(sent) /\ DOMAIN sent' = 1 .. Len(sent) + 1
  BY <1>3, <1>4
<1>6. \A i \in DOMAIN sent' : sent'[i].place = i
  BY <1>2, <1>4, <1>5 DEF StreamInv
<1>7. StreamInv'
  BY <1>3, <1>4, <1>6 DEF StreamInv
<1>8. Requests' = {i \in 1 .. Len(sent) + 1 : HasId(sent'[i])}
  BY <1>5 DEF Requests, HasId
<1>9. Requests = {i \in 1 .. Len(sent) : HasId(sent'[i])}
  BY <1>4, <1>5 DEF Requests
<1>10. Requests' = Requests \/ Requests' = Requests \cup {Len(sent) + 1}
  BY <1>3, <1>8, <1>9
<1>11. \A i \in Requests : i < Len(sent) + 1
  BY <1>3, <1>9
<1>. QED  BY <1>4, <1>7, <1>10, <1>11

\* Steps that leave the stream, the queue and the answers alone.
LEMMA QuietInv ==
    ASSUME IInv, UNCHANGED <<sent, taken, queue, answers>>,
           pc' = "done" => pc = "done" \/ queue = <<>>,
           pc = "done" => pc' = "done",
           pc' \in {"topoll", "poll"} => queue = <<>>
    PROVE  IInv'
<1>1. StreamInv'
  BY DEF IInv, StreamInv
<1>2. QueueInv'
  BY DEF IInv, QueueInv, Ordered
<1>3. AnswersInv'
  <2>1. Requests' = Requests /\ \A i : Waits(queue', i) <=> Waits(queue, i)
    BY DEF Requests, Waits
  <2>2. \A i : Answered(i)' <=> Answered(i)
    BY DEF Answered
  <2>3. \A k : InTurn(k)' <=> InTurn(k)
    BY <2>1 DEF InTurn, Below
  <2>. QED  BY <2>1, <2>2, <2>3 DEF IInv, AnswersInv
<1>. QED  BY <1>1, <1>2, <1>3 DEF IInv

LEMMA SendInv == ASSUME IInv, Send PROVE IInv'
<1>1. /\ StreamInv' /\ Len(sent') = Len(sent) + 1 /\ Len(sent) \in Nat
      /\ taken \in 0 .. Len(sent) /\ sent \in Seq(Messages)
      /\ \A i \in 1 .. Len(sent) : sent'[i] = sent[i]
      /\ Requests' = Requests \/ Requests' = Requests \cup {Len(sent) + 1}
      /\ \A i \in Requests : i < Len(sent) + 1
  BY SendFacts DEF IInv, StreamInv
<1>2. UNCHANGED <<taken, queue, answers, pc>>
  BY DEF Send
<1>3. QueueInv'
  <2>1. \A k \in 1 .. Len(queue) :
          queue[k].place \in 1 .. taken /\ queue[k] = sent'[queue[k].place]
    <3>1. \A k \in 1 .. Len(queue) :
            queue[k].place \in 1 .. taken /\ queue[k] = sent[queue[k].place]
      BY DEF IInv, QueueInv, Ordered
    <3>2. \A i \in 1 .. taken : i \in 1 .. Len(sent)
      BY <1>1
    <3>. QED  BY <1>1, <3>1, <3>2
  <2>. QED  BY <1>2, <2>1 DEF IInv, QueueInv, Ordered
<1>4. ASSUME NEW k \in 1 .. Len(answers)
      PROVE  InTurn(k)' /\ \A i : Waits(queue', i) => answers'[k].place < i
  <2>1. InTurn(k) /\ \A i : Waits(queue, i) => answers[k].place < i
    BY DEF IInv, AnswersInv
  <2>2. answers[k].place \in Requests' /\ answers[k].place <= taken'
    BY <1>1, <1>2, <2>1 DEF InTurn
  <2>3. Below(Requests', answers[k].place) = Below(Requests, answers[k].place)
    <3>1. answers[k].place \in Nat /\ answers[k].place < Len(sent) + 1
      BY <1>1, <2>1, RequestsFacts DEF InTurn, IInv
    <3>2. ~ (Len(sent) + 1 < answers[k].place)
      BY <1>1, <3>1
    <3>. QED  BY <1>1, <3>2 DEF Below
  <2>. QED  BY <1>2, <2>1, <2>2, <2>3 DEF InTurn, Waits, Below
<1>5. pc' /= "done" =>
        \A i \in Requests' : i <= taken' => Waits(queue', i) \/ Answered(i)'
  <2>1. ~ (Len(sent) + 1 <= taken)
    BY <1>1
  <2>. QED  BY <1>1, <1>2, <2>1 DEF IInv, AnswersInv, Waits, Answered
<1>6. AnswersInv'
  BY <1>2, <1>4, <1>5 DEF IInv, AnswersInv, Waits
<1>. QED  BY <1>1, <1>3, <1>6 DEF IInv

LEMMA HandleNextInv == ASSUME IInv, HandleNext PROVE IInv'
<1>. DEFINE m == Head(queue)  n == Len(answers)
<1>1. /\ m.place \in 1 .. taken /\ Ordered(queue')
      /\ \A i : Waits(queue', i) => Waits(queue, i) /\ m.place < i
      /\ \A i \in Requests : Waits(queue, i) => i = m.place \/ Waits(queue', i)
      /\ \/ ~ HasId(m) /\ answers' = answers
         \/ HasId(m) /\ \E o \in Outcomes :
              answers' = Append(answers, [place |-> m.place, outcome |-> o])
  BY HandledFacts DEF IInv
<1>2. UNCHANGED <<sent, taken>> /\ pc = "loop" /\ queue /= <<>> /\ taken \in Nat
      /\ pc' \in {"loop", "done"}
  BY DEF HandleNext, client, IInv, StreamInv, HandleInvalid, HandleCancelled,
         HandleAfterShutdown, HandleRequest, HandleCancel, HandleChange, HandleClose,
         HandleNote, HandleExit
<1>3. StreamInv'
  BY <1>2 DEF IInv, StreamInv
<1>4. QueueInv'
  BY <1>1, <1>2 DEF QueueInv, Ordered
<1>5. Requests' = Requests /\ m.place \in Nat
  BY <1>1, <1>2 DEF Requests
<1>6. answers \in Seq([place : Nat, outcome : Outcomes])
  BY DEF IInv, AnswersInv
<1>7. \A k \in 1 .. n :
        InTurn(k) /\ \A i : Waits(queue, i) => answers[k].place < i
  BY DEF IInv, AnswersInv
<1>8. \A i \in Requests : i <= taken => Waits(queue, i) \/ Answered(i)
  BY <1>2 DEF IInv, AnswersInv
<1>9. CASE ~ HasId(m) /\ answers' = answers
  <2>1. \A k \in 1 .. n :
          InTurn(k)' /\ \A i : Waits(queue', i) => answers[k].place < i
    BY <1>1, <1>2, <1>5, <1>7, <1>9 DEF InTurn, Below
  <2>2. \A i \in Requests : i <= taken => Waits(queue', i) \/ Answered(i)
    <3>1. m.place \notin Requests
      BY <1>9, HandledFacts DEF Requests, IInv
    <3>. QED  BY <1>1, <1>8, <3>1
  <2>3. AnswersInv'
    BY <1>2, <1>5, <1>6, <1>9, <2>1, <2>2 DEF AnswersInv, Answered, Waits
  <2>. QED  BY <1>3, <1>4, <2>3 DEF IInv
<1>10. CASE HasId(m) /\ \E o \in Outcomes :
              answers' = Append(answers, [place |-> m.place, outcome |-> o])
  <2>1. PICK o \in Outcomes : answers' = Append(answers, [place |-> m.place, outcome |-> o])
    BY <1>10
  <2>2. /\ answers' \in Seq([place : Nat, outcome : Outcomes])
        /\ n \in Nat /\ Len(answers') = n + 1 /\ answers'[n + 1].place = m.place
        /\ \A k \in 1 .. n : answers'[k] = answers[k]
        /\ DOMAIN answers' = 1 .. n + 1 /\ DOMAIN answers = 1 .. n
    BY <1>5, <1>6, <2>1
  <2>3. m.place \in Requests /\ Cardinality(Below(Requests, m.place)) = n
    BY <1>2, <1>10, HeadInTurn
  <2>4. ASSUME NEW k \in 1 .. n + 1
        PROVE  InTurn(k)' /\ \A i : Waits(queue', i) => answers'[k].place < i
    <3>1. CASE k \in 1 .. n
      BY <1>1, <1>2, <1>5, <1>7, <2>2, <3>1 DEF InTurn, Below
    <3>2. CASE k = n + 1
      <4>1. InTurn(k)'
        <5>1. answers'[k].place = m.place /\ n = k - 1
          BY <2>2, <3>2
        <5>. QED  BY <1>1, <1>2, <1>5, <2>3, <5>1 DEF InTurn, Below
      <4>. QED  BY <1>1, <2>2, <3>2, <4>1
    <3>. QED  BY <2>2, <3>1, <3>2
  <2>5. \A i \in Requests : i <= taken => Waits(queue', i) \/ Answered(i)'
    <3>1. \A i : i = m.place \/ Answered(i) => Answered(i)'
      <4>1. n + 1 \in DOMAIN answers' /\ answers'[n + 1].place = m.place
        BY <2>2
      <4>2. \A k \in DOMAIN answers : k \in DOMAIN answers' /\ answers'[k] = answers[k]
        BY <2>2
      <4>. HIDE DEF m, n
      <4>. QED  BY <4>1, <4>2 DEF Answered
    <3>. HIDE DEF m, n
    <3>. QED  BY <1>1, <1>8, <3>1
  <2>6. AnswersInv'
    BY <1>2, <1>5, <2>2, <2>4, <2>5 DEF AnswersInv, Waits
  <2>. QED  BY <1>3, <1>4, <2>6 DEF IInv
<1>. QED  BY <1>1, <1>9, <1>10

\* What is read follows what was read before, in order and without garbage.
LEMMA ReadInv == ASSUME IInv, Read PROVE IInv'
<1>1. PICK n \in taken + 1 .. Len(sent) :
        /\ taken' = n
        /\ LET good == {i \in taken + 1 .. n : sent[i].kind /= "garbage"}
           IN  queue' = [k \in 1 .. Cardinality(good) |-> sent[InOrder(good)[k]]]
  BY DEF Read
<1>. DEFINE good == {i \in taken + 1 .. n : sent[i].kind /= "garbage"}
            c == Cardinality(good)
<1>2. /\ UNCHANGED <<sent, answers>> /\ pc = "poll" /\ pc' = "loop" /\ queue = <<>>
      /\ sent \in Seq(Messages) /\ taken \in Nat /\ n \in Nat /\ taken < n
      /\ n \in 1 .. Len(sent) /\ Len(sent) \in Nat
  BY DEF Read, client, IInv, StreamInv, QueueInv
<1>3. good \in SUBSET Nat /\ IsFiniteSet(good) /\ c \in Nat
      /\ \A i \in good : i \in 1 .. n /\ i \in 1 .. Len(sent) /\ taken < i
  <2>1. IsFiniteSet(taken + 1 .. n)
    BY <1>2, FS_Interval
  <2>2. IsFiniteSet(good)
    BY <2>1, FS_Subset
  <2>. QED  BY <1>2, <2>2, FS_CardinalityType
<1>4. queue' = [k \in 1 .. c |-> sent[InOrder(good)[k]]]
  BY <1>1
<1>. HIDE DEF good, c
<1>5. /\ \A k \in 1 .. c : InOrder(good)[k] \in good
      /\ \A j, k \in 1 .. c : j < k => InOrder(good)[j] < InOrder(good)[k]
      /\ \A i \in good : \E k \in 1 .. c : InOrder(good)[k] = i
  BY <1>3, Listed DEF c
<1>6. StreamInv'
  BY <1>1, <1>2 DEF IInv, StreamInv
<1>7. queue' \in Seq(Messages) /\ Len(queue') = c
  <2>1. \A k \in 1 .. c : sent[InOrder(good)[k]] \in Messages
    <3>1. \A i \in good : sent[i] \in Messages
      BY <1>2, <1>3
    <3>. QED  BY <1>5, <3>1
  <2>. QED  BY <1>3, <1>4, <2>1
<1>8. \A k \in 1 .. c :
        queue'[k].place = InOrder(good)[k] /\ queue'[k] = sent[InOrder(good)[k]]
  <2>1. \A i \in good : sent[i].place = i
    BY <1>2, <1>3 DEF IInv, StreamInv
  <2>. QED  BY <1>4, <1>5, <2>1
<1>9. QueueInv'
  <2>1. ASSUME NEW k \in 1 .. c
        PROVE  queue'[k].place \in 1 .. taken' /\ queue'[k] = sent'[queue'[k].place]
    BY <1>1, <1>2, <1>3, <1>5, <1>8
  <2>2. ASSUME NEW j \in 1 .. c, NEW k \in 1 .. c, j < k
        PROVE  queue'[j].place < queue'[k].place
    BY <1>5, <1>8, <2>2
  <2>. QED  BY <1>2, <1>7, <2>1, <2>2 DEF QueueInv, Ordered
<1>10. \A i : Waits(queue', i) <=> i \in good
  BY <1>5, <1>7, <1>8 DEF Waits
<1>11. Requests' = Requests
  BY <1>2 DEF Requests
<1>12. \A k \in 1 .. Len(answers) :
         InTurn(k) /\ answers[k].place \in Nat /\ answers[k].place <= taken
  BY RequestsFacts DEF IInv, AnswersInv, InTurn
<1>13. \A k \in 1 .. Len(answers) :
         InTurn(k)' /\ \A i : Waits(queue', i) => answers'[k].place < i
  <2>. SUFFICES ASSUME NEW k \in 1 .. Len(answers)
                PROVE  InTurn(k)' /\ \A i : Waits(queue', i) => answers'[k].place < i
    OBVIOUS
  <2>1. /\ answers[k].place \in Requests /\ answers[k].place \in Nat
        /\ answers[k].place <= taken
        /\ Cardinality(Below(Requests, answers[k].place)) = k - 1
    BY <1>12 DEF InTurn
  <2>2. answers'[k].place = answers[k].place /\ answers[k].place <= taken'
    BY <1>1, <1>2, <2>1
  <2>3. InTurn(k)'
    BY <1>11, <2>1, <2>2 DEF InTurn, Below
  <2>4. ASSUME NEW i \in good
        PROVE  answers[k].place < i
    <3>1. i \in Nat /\ taken < i
      BY <1>2, <1>3
    <3>. QED  BY <1>2, <2>1, <3>1
  <2>. QED  BY <1>10, <2>2, <2>3, <2>4
<1>14. \A i \in Requests : i <= n => i \in good \/ Answered(i)
  <2>. SUFFICES ASSUME NEW i \in Requests, i <= n
                PROVE  i \in good \/ Answered(i)
    OBVIOUS
  <2>1. i \in Nat /\ HasId(sent[i])
    BY RequestsFacts DEF IInv, Requests
  <2>2. CASE i <= taken
    BY <1>2, <2>2 DEF IInv, AnswersInv, Waits
  <2>3. CASE ~ (i <= taken)
    BY <1>2, <2>1, <2>3 DEF good, HasId, RequestKinds
  <2>. QED  BY <2>2, <2>3
<1>15. AnswersInv'
  BY <1>1, <1>2, <1>10, <1>11, <1>13, <1>14 DEF IInv, AnswersInv, Answered
<1>. QED  BY <1>6, <1>9, <1>15 DEF IInv

LEMMA StepInv == IInv /\ [Next]_vars => IInv'
<1>. SUFFICES ASSUME IInv, [Next]_vars PROVE IInv'
  OBVIOUS
<1>1. CASE Send
  BY <1>1, SendInv
<1>2. CASE CloseInput \/ UNCHANGED vars
  <2>1. UNCHANGED <<sent, taken, queue, answers, pc>>
    BY <1>2 DEF CloseInput, vars
  <2>2. pc \in {"topoll", "poll"} => queue = <<>>
    BY DEF IInv, QueueInv
  <2>. QED  BY <2>1, <2>2, QuietInv
<1>3. CASE Sigterm
  <2>1. UNCHANGED <<sent, taken, queue, answers>> /\ pc /= "done"
        /\ (pc' = pc \/ pc' = "loop")
    BY <1>3 DEF Sigterm
  <2>2. pc \in {"topoll", "poll"} => queue = <<>>
    BY DEF IInv, QueueInv
  <2>. QED  BY <2>1, <2>2, QuietInv
<1>4. CASE HandleNext
  BY <1>4, HandleNextInv
<1>5. CASE Stop \/ ChooseTimeout \/ EnterPoll
  <2>1. UNCHANGED <<sent, taken, queue, answers>> /\ pc /= "done" /\ queue = <<>>
    BY <1>5 DEF Stop, ChooseTimeout, EnterPoll, client, IInv, QueueInv
  <2>. QED  BY <2>1, QuietInv
<1>6. CASE ReadEof \/ Tick
  <2>1. UNCHANGED <<sent, taken, queue, answers>> /\ pc /= "done" /\ pc' = "loop"
    BY <1>6 DEF ReadEof, Tick, client
  <2>. QED  BY <2>1, QuietInv
<1>7. CASE Read
  BY <1>7, ReadInv
<1>. QED  BY <1>1, <1>2, <1>3, <1>4, <1>5, <1>6, <1>7 DEF Next, Server

LEMMA Invariant == Spec => []IInv
<1>. QED  BY InitInv, StepInv, PTL DEF Spec

-----------------------------------------------------------------------------
(* The refinement.                                                         *)

\* The places that are answered, as the client sees them.
LEMMA PlacesAnswered ==
    ASSUME NEW a \in Seq([place : Nat, outcome : Outcomes])
    PROVE  /\ Len(a) \in Nat /\ \A k \in 1 .. Len(a) : a[k].place \in Nat
           /\ [k \in DOMAIN a |-> a[k].place] \in Seq(Nat)
           /\ Len([k \in DOMAIN a |-> a[k].place]) = Len(a)
<1>1. Len(a) \in Nat /\ DOMAIN a = 1 .. Len(a)
  OBVIOUS
<1>2. ASSUME NEW k \in 1 .. Len(a)
      PROVE  a[k].place \in Nat
  <2>1. a[k] \in [place : Nat, outcome : Outcomes]
    BY ElementOfSeq
  <2>. QED  BY <2>1
<1>. QED  BY <1>1, <1>2

\* Every step is one of the service a client expects.
LEMMA StepRefines ==
    ASSUME IInv, [Next]_vars
    PROVE  [Rpc!Next]_<<InOrder(Requests), [k \in DOMAIN answers |-> answers[k].place]>>
<1>. DEFINE asked    == InOrder(Requests)
            answered == [k \in DOMAIN answers |-> answers[k].place]
            n        == Len(answers)
<1>1. /\ Requests \in SUBSET Nat /\ IsFiniteSet(Requests)
      /\ answers \in Seq([place : Nat, outcome : Outcomes]) /\ n \in Nat
      /\ DOMAIN answers = 1 .. n
  BY RequestsFacts DEF IInv, AnswersInv
<1>2. /\ asked \in Seq(Nat) /\ Len(asked) = Cardinality(Requests)
      /\ Cardinality(Requests) \in Nat
      /\ \A i \in Requests : Cardinality(Below(Requests, i)) + 1 \in 1 .. Len(asked)
                             /\ asked[Cardinality(Below(Requests, i)) + 1] = i
  <2>1. Cardinality(Requests) \in Nat
    BY <1>1, FS_CardinalityType
  <2>2. /\ asked \in Seq(Requests) /\ Len(asked) = Cardinality(Requests)
        /\ \A i \in Requests : Cardinality(Below(Requests, i)) + 1 \in 1 .. Cardinality(Requests)
                               /\ asked[Cardinality(Below(Requests, i)) + 1] = i
    BY <1>1, Listed
  <2>3. asked \in Seq(Nat)
    BY <1>1, <2>2, SeqMonotonic
  <2>. HIDE DEF asked
  <2>. QED  BY <2>1, <2>2, <2>3
<1>3. answered \in Seq(Nat) /\ Len(answered) = n
  BY <1>1, PlacesAnswered
<1>4. ASSUME sent' = sent, answers' = answers
      PROVE  UNCHANGED <<asked, answered>>
  BY <1>4 DEF Requests
<1>5. CASE Send
  <2>1. answers' = answers
    BY <1>5 DEF Send
  <2>2. /\ Requests' = Requests \/ Requests' = Requests \cup {Len(sent) + 1}
        /\ \A i \in Requests : i < Len(sent) + 1
        /\ Len(sent) + 1 \in Nat
    BY <1>5, SendFacts DEF IInv, StreamInv
  <2>3. CASE Requests' = Requests
    BY <2>1, <2>3
  <2>4. CASE Requests' = Requests \cup {Len(sent) + 1}
    <3>1. asked' = Append(asked, Len(sent) + 1)
      BY <1>1, <2>2, <2>4, ListedAppended
    <3>. HIDE DEF asked
    <3>2. asked' \in Seq(Nat) /\ Len(asked') = Len(asked) + 1
          /\ \A k \in 1 .. Len(asked) : asked'[k] = asked[k]
      BY <1>2, <2>2, <3>1
    <3>3. SubSeq(asked, 1, Len(asked)) = SubSeq(asked', 1, Len(asked))
      <4>. DEFINE a == SubSeq(asked, 1, Len(asked))  b == SubSeq(asked', 1, Len(asked))
      <4>0. Len(asked) \in Nat
        BY <1>2
      <4>1. /\ \A k \in 1 .. Len(asked) : asked[k] \in Nat
            /\ \A k \in 1 .. Len(asked) : asked'[k] \in Nat
        BY <1>2, <3>2
      <4>2. /\ a \in Seq(Nat) /\ Len(a) = IF 1 <= Len(asked) THEN Len(asked) - 1 + 1 ELSE 0
            /\ \A k \in 1 .. Len(asked) - 1 + 1 : a[k] = asked[1 + k - 1]
        BY <4>0, <4>1, SubSeqProperties
      <4>3. /\ b \in Seq(Nat) /\ Len(b) = IF 1 <= Len(asked) THEN Len(asked) - 1 + 1 ELSE 0
            /\ \A k \in 1 .. Len(asked) - 1 + 1 : b[k] = asked'[1 + k - 1]
        BY <4>0, <4>1, SubSeqProperties
      <4>. HIDE DEF a, b
      <4>4. Len(a) = Len(asked) /\ Len(b) = Len(asked)
            /\ \A k \in 1 .. Len(asked) : a[k] = b[k]
        BY <3>2, <4>0, <4>2, <4>3
      <4>5. a = b
        BY <4>2, <4>3, <4>4, SeqEqual
      <4>. QED  BY <4>5 DEF a, b
    <3>4. Rpc!IsPrefix(asked, asked')
      BY <1>2, <3>2, <3>3 DEF Rpc!IsPrefix
    <3>5. answered' = answered
      BY <2>1
    <3>. QED  BY <3>2, <3>4, <3>5 DEF Rpc!Next, Rpc!Ask, asked
  <2>. QED  BY <2>2, <2>3, <2>4
<1>6. CASE HandleNext
  <2>. DEFINE m == Head(queue)
  <2>1. sent' = sent /\ pc /= "done" /\ queue /= <<>>
    BY <1>6 DEF HandleNext, client
  <2>2. \/ answers' = answers
        \/ HasId(m) /\ \E o \in Outcomes :
             answers' = Append(answers, [place |-> m.place, outcome |-> o])
    BY <1>6, HandledFacts DEF IInv
  <2>3. CASE answers' = answers
    BY <1>4, <2>1, <2>3
  <2>4. CASE HasId(m) /\ \E o \in Outcomes :
               answers' = Append(answers, [place |-> m.place, outcome |-> o])
    <3>1. PICK o \in Outcomes :
            answers' = Append(answers, [place |-> m.place, outcome |-> o])
      BY <2>4
    <3>2. m.place \in Requests /\ Cardinality(Below(Requests, m.place)) = n
      BY <2>1, <2>4, HeadInTurn
    <3>3. n + 1 \in 1 .. Len(asked) /\ asked[n + 1] = m.place
      BY <1>2, <3>2
    <3>4. answered' = Append(answered, m.place)
      <4>. DEFINE a == Append(answers, [place |-> m.place, outcome |-> o])
      <4>0. m.place \in Nat
        BY <1>1, <3>2
      <4>1. /\ a \in Seq([place : Nat, outcome : Outcomes]) /\ Len(a) = n + 1
            /\ DOMAIN a = 1 .. n + 1 /\ a[n + 1].place = m.place
            /\ \A k \in 1 .. n : a[k] = answers[k]
        BY <1>1, <4>0
      <4>. HIDE DEF a
      <4>2. answered' = [k \in 1 .. n + 1 |-> a[k].place]
        BY <3>1, <4>1 DEF a
      <4>3. Append(answered, m.place) \in Seq(Nat) /\ Len(Append(answered, m.place)) = n + 1
            /\ Append(answered, m.place)[n + 1] = m.place
            /\ \A k \in 1 .. n : Append(answered, m.place)[k] = answered[k]
        BY <1>3, <4>0
      <4>4. \A k \in 1 .. n : answered[k] = answers[k].place
        BY <1>1
      <4>5. answered' \in Seq(Nat) /\ Len(answered') = n + 1
            /\ \A k \in 1 .. n + 1 : answered'[k] = a[k].place
        <5>1. \A k \in 1 .. n + 1 : a[k].place \in Nat
          BY <4>1, PlacesAnswered
        <5>. QED  BY <1>1, <4>2, <5>1
      <4>. HIDE DEF answered, m
      <4>6. ASSUME NEW k \in 1 .. n + 1
            PROVE  answered'[k] = Append(answered, m.place)[k]
        <5>1. k \in 1 .. n \/ k = n + 1
          BY <1>1
        <5>. QED  BY <4>1, <4>3, <4>4, <4>5, <5>1
      <4>. QED  BY <4>3, <4>5, <4>6, SeqEqual
    <3>5. asked' = asked
      BY <2>1 DEF Requests
    <3>6. Len(answered) < Len(asked) /\ asked[Len(answered) + 1] = m.place
      BY <1>2, <1>3, <3>3
    <3>. HIDE DEF asked, answered, m
    <3>7. Len(answered) < Len(asked) /\ answered' = Append(answered, asked[Len(answered) + 1])
          /\ asked' = asked
      BY <3>4, <3>5, <3>6
    <3>. QED  BY <3>7 DEF Rpc!Next, Rpc!Answer, asked, answered
  <2>. QED  BY <2>2, <2>3, <2>4
<1>7. CASE ~ Send /\ ~ HandleNext
  <2>1. sent' = sent /\ answers' = answers
    BY <1>7 DEF Next, vars, Server, CloseInput, Sigterm, Stop, ChooseTimeout, EnterPoll,
                Read, ReadEof, Tick, client
  <2>. QED  BY <1>4, <2>1
<1>. QED  BY <1>5, <1>6, <1>7

\* The server answers the requests in the order they were sent, each once, for
\* any ids and kinds of messages, any batching and whatever is cancelled,
\* skipped or refused: it implements the service a JSON-RPC client expects.
THEOREM AnswersInOrder == Spec => ImplementsRpc
<1>1. Init => Rpc!Init
  <2>. SUFFICES ASSUME Init PROVE Rpc!Init
    OBVIOUS
  <2>1. Requests = {} /\ answers = <<>>
    BY DEF Init, Requests
  <2>2. Cardinality({}) = 0
    BY FS_EmptySet
  <2>3. InOrder(Requests) = <<>>
    BY <2>1, <2>2 DEF InOrder
  <2>4. [k \in DOMAIN answers |-> answers[k].place] = <<>>
    BY <2>1
  <2>. QED  BY <2>3, <2>4 DEF Rpc!Init
<1>2. IInv /\ [Next]_vars
        => [Rpc!Next]_<<InOrder(Requests), [k \in DOMAIN answers |-> answers[k].place]>>
  BY StepRefines
<1>. QED  BY <1>1, <1>2, Invariant, PTL DEF Spec, ImplementsRpc, Rpc!Spec

-----------------------------------------------------------------------------
(* Refusals.  A client that uses an id for one request only, and cancels    *)
(* what it has asked for, meets its own cancellations and no others.        *)

IsCancel(j, id) == sent[j].kind = "cancel" /\ sent[j].id = id

IdsInv ==
    /\ \A i, j \in Requests : sent[i].id = sent[j].id => i = j
    /\ \A j \in 1 .. Len(sent) : sent[j].kind = "cancel" =>
          \E i \in Requests : i < j /\ sent[i].id = sent[j].id

RefusalsInv ==
    /\ \A id \in cancelled : \E j \in 1 .. Len(sent) : IsCancel(j, id)
    /\ \A k \in 1 .. Len(answers) : answers[k].outcome = "RequestCancelled" =>
          \E j \in 1 .. Len(sent) : IsCancel(j, sent[answers[k].place].id)

LEMMA SendIds ==
    ASSUME ~ ReuseIds, StreamInv, IdsInv, Send
    PROVE  IdsInv'
<1>1. PICK m \in NextMessages : sent' = Append(sent, m)
  BY DEF Send
<1>2. /\ sent \in Seq(Messages) /\ m \in Messages /\ Len(sent) \in Nat
      /\ DOMAIN sent = 1 .. Len(sent)
  BY SentFacts DEF StreamInv
<1>. DEFINE n == Len(sent)
<1>3. /\ Len(sent') = n + 1 /\ sent'[n + 1] = m /\ DOMAIN sent' = 1 .. n + 1
      /\ \A i \in 1 .. n : sent'[i] = sent[i]
  BY <1>1, <1>2
<1>4. HasId(m) => FreeId(m.id)
  BY DEF NextMessages, HasId, RequestKinds, NoteKinds
<1>5. m.kind = "cancel" => Used(m.id)
  BY DEF NextMessages, RequestKinds
<1>6. \A i \in Requests' : i \in Requests \/ (i = n + 1 /\ HasId(m))
  BY <1>2, <1>3 DEF Requests, HasId
<1>7. \A i \in Requests : i \in Requests' /\ sent'[i] = sent[i] /\ i \in 1 .. n
  BY <1>2, <1>3 DEF Requests, HasId
<1>8. HasId(m) => \A i \in Requests : sent[i].id /= m.id
  BY <1>4 DEF FreeId, Requests
<1>9. \A i, j \in Requests' : sent'[i].id = sent'[j].id => i = j
  BY <1>3, <1>6, <1>7, <1>8 DEF IdsInv
<1>10. ASSUME NEW j \in 1 .. n + 1, sent'[j].kind = "cancel"
       PROVE  \E i \in Requests' : i < j /\ sent'[i].id = sent'[j].id
  <2>1. CASE j \in 1 .. n
    <3>1. PICK i \in Requests : i < j /\ sent[i].id = sent[j].id
      BY <1>3, <1>10, <2>1 DEF IdsInv
    <3>. QED  BY <1>3, <1>7, <2>1, <3>1
  <2>2. CASE j = n + 1
    <3>1. PICK i \in Requests : sent[i].id = m.id
      BY <1>3, <1>5, <1>10, <2>2 DEF Used, Requests
    <3>2. i < n + 1 /\ i \in Requests' /\ sent'[i].id = sent'[j].id
      BY <1>2, <1>3, <1>7, <2>2, <3>1
    <3>. QED  BY <2>2, <3>2
  <2>. QED  BY <1>2, <2>1, <2>2
<1>. QED  BY <1>3, <1>9, <1>10 DEF IdsInv

LEMMA RefusalsStep ==
    ASSUME IInv, RefusalsInv, [Next]_vars
    PROVE  RefusalsInv'
<1>1. sent \in Seq(Messages) /\ Len(sent) \in Nat
      /\ answers \in Seq([place : Nat, outcome : Outcomes]) /\ Len(answers) \in Nat
  BY DEF IInv, StreamInv, AnswersInv
<1>2. \A k \in 1 .. Len(answers) : answers[k].place \in 1 .. Len(sent)
  BY RequestsFacts DEF IInv, AnswersInv, InTurn
<1>3. CASE Send
  <2>1. /\ Len(sent') = Len(sent) + 1 /\ UNCHANGED <<cancelled, answers>>
        /\ \A i \in 1 .. Len(sent) : sent'[i] = sent[i] /\ i \in 1 .. Len(sent')
    BY <1>1, <1>3, SendFacts DEF Send, IInv
  <2>2. \A j \in 1 .. Len(sent) : \A id :
          IsCancel(j, id) => j \in 1 .. Len(sent') /\ IsCancel(j, id)'
    BY <2>1 DEF IsCancel
  <2>3. \A id \in cancelled' : \E j \in 1 .. Len(sent') : IsCancel(j, id)'
    BY <2>1, <2>2 DEF RefusalsInv
  <2>4. ASSUME NEW k \in 1 .. Len(answers), answers[k].outcome = "RequestCancelled"
        PROVE  \E j \in 1 .. Len(sent') :
                 sent'[j].kind = "cancel" /\ sent'[j].id = sent'[answers'[k].place].id
    <3>1. PICK j \in 1 .. Len(sent) : IsCancel(j, sent[answers[k].place].id)
      BY <2>4 DEF RefusalsInv
    <3>2. sent'[answers[k].place] = sent[answers[k].place] /\ sent'[j] = sent[j]
          /\ j \in 1 .. Len(sent')
      BY <1>2, <2>1
    <3>3. sent'[j].kind = "cancel" /\ sent'[j].id = sent'[answers[k].place].id
      BY <3>1, <3>2 DEF IsCancel
    <3>. QED  BY <2>1, <3>2, <3>3
  <2>. QED  BY <2>1, <2>3, <2>4 DEF RefusalsInv, IsCancel
<1>4. CASE HandleNext
  <2>. DEFINE m == Head(queue)  q == Tail(queue)
  <2>1. m.place \in 1 .. taken /\ m = sent[m.place] /\ sent' = sent
        /\ taken \in 0 .. Len(sent) /\ queue \in Seq(Messages) /\ queue /= <<>>
    BY <1>4, HandledFacts DEF IInv, StreamInv, QueueInv, Ordered, HandleNext, client
  <2>2. m.place \in 1 .. Len(sent)
    BY <1>1, <2>1
  <2>3. \A id \in cancelled' : id \in cancelled \/ (m.kind = "cancel" /\ id = m.id)
    BY <1>4 DEF HandleNext, HandleInvalid, HandleCancelled, HandleAfterShutdown,
                HandleRequest, HandleCancel, HandleChange, HandleClose, HandleNote, HandleExit
  <2>4. \A id \in cancelled' : \E j \in 1 .. Len(sent) : IsCancel(j, id)
    BY <2>1, <2>2, <2>3 DEF RefusalsInv, IsCancel
  <2>5. \/ answers' = answers
        \/ \E o \in Outcomes :
             /\ answers' = Append(answers, [place |-> m.place, outcome |-> o])
             /\ o = "RequestCancelled" => IsCancelled(m, q)
    <3>1. CASE HandleInvalid(m, q)
      BY <3>1 DEF HandleInvalid, Respond, Outcomes
    <3>2. CASE HandleCancelled(m, q)
      BY <3>2 DEF HandleCancelled, Respond, Outcomes
    <3>3. CASE HandleAfterShutdown(m, q)
      BY <3>3 DEF HandleAfterShutdown, Respond, Outcomes
    <3>4. CASE HandleRequest(m, q)
      <4>. DEFINE o == CASE m.kind = "unknown" -> "MethodNotFound"
                         [] m.kind = "throws"  -> "InternalError"
                         [] OTHER              -> "result"
      <4>1. o \in Outcomes /\ o /= "RequestCancelled"
        BY DEF Outcomes
      <4>2. answers' = Append(answers, [place |-> m.place, outcome |-> o])
        BY <3>4 DEF HandleRequest, Respond
      <4>. HIDE DEF o
      <4>. QED  BY <4>1, <4>2
    <3>5. CASE HandleCancel(m, q) \/ HandleChange(m, q) \/ HandleClose(m, q)
               \/ HandleNote(m, q) \/ HandleExit(m, q)
      BY <3>5 DEF HandleCancel, HandleChange, HandleClose, HandleNote, HandleExit
    <3>. QED  BY <1>4, <3>1, <3>2, <3>3, <3>4, <3>5 DEF HandleNext
  <2>6. IsCancelled(m, q) => \E j \in 1 .. Len(sent) : IsCancel(j, m.id)
    <3>1. CASE m.id \in cancelled
      BY <3>1 DEF RefusalsInv
    <3>2. CASE QueuedCancellation(m.id, q) /= 0
      <4>. DEFINE c == QueuedCancellation(m.id, q)
      <4>1. Without(q, queue, 1) /\ q \in Seq(Messages)
        BY <2>1, TailWithout DEF Without
      <4>2. c \in 1 .. Len(q) /\ q[c].kind = "cancel" /\ q[c].id = m.id
        BY <3>2, <4>1, Found
      <4>. HIDE DEF c
      <4>3. q[c] = queue[c + 1] /\ c + 1 \in 1 .. Len(queue)
        BY <2>1, <4>1, <4>2 DEF Without
      <4>4. queue[c + 1].place \in 1 .. taken /\ q[c] = sent[queue[c + 1].place]
        BY <4>3 DEF IInv, QueueInv, Ordered
      <4>5. queue[c + 1].place \in 1 .. Len(sent)
        BY <1>1, <2>1, <4>4
      <4>. QED  BY <4>2, <4>4, <4>5 DEF IsCancel
    <3>. QED  BY <3>1, <3>2 DEF IsCancelled
  <2>7. ASSUME NEW k \in 1 .. Len(answers'), answers'[k].outcome = "RequestCancelled"
        PROVE  \E j \in 1 .. Len(sent) : IsCancel(j, sent[answers'[k].place].id)
    <3>1. CASE answers' = answers
      BY <2>7, <3>1 DEF RefusalsInv
    <3>2. ASSUME NEW o \in Outcomes,
                 answers' = Append(answers, [place |-> m.place, outcome |-> o]),
                 o = "RequestCancelled" => IsCancelled(m, q)
          PROVE  \E j \in 1 .. Len(sent) : IsCancel(j, sent[answers'[k].place].id)
      <4>1. m.place \in Nat
        BY <2>1
      <4>2. /\ Len(answers') = Len(answers) + 1
            /\ answers'[Len(answers) + 1].place = m.place
            /\ answers'[Len(answers) + 1].outcome = o
            /\ \A i \in 1 .. Len(answers) : answers'[i] = answers[i]
        BY <1>1, <3>2, <4>1
      <4>3. CASE k \in 1 .. Len(answers)
        BY <2>7, <4>2, <4>3 DEF RefusalsInv
      <4>4. CASE k = Len(answers) + 1
        BY <2>1, <2>6, <2>7, <3>2, <4>2, <4>4
      <4>5. k \in 1 .. Len(answers) \/ k = Len(answers) + 1
        BY <1>1, <4>2
      <4>. QED  BY <4>3, <4>4, <4>5
    <3>. QED  BY <2>5, <3>1, <3>2
  <2>. QED  BY <2>1, <2>4, <2>7 DEF RefusalsInv, IsCancel
<1>5. CASE ~ Send /\ ~ HandleNext
  <2>1. UNCHANGED <<sent, answers, cancelled>>
    BY <1>5 DEF Next, vars, Server, CloseInput, Sigterm, Stop, ChooseTimeout, EnterPoll,
                Read, ReadEof, Tick, client
  <2>. QED  BY <2>1 DEF RefusalsInv, IsCancel
<1>. QED  BY <1>3, <1>4, <1>5

\* A request is refused as cancelled only if the client cancelled that very
\* request, after it was sent: whether the cancellation waits in the queue or
\* was remembered when it passed.  A client that uses an id again loses this
\* (README, observations).
THEOREM CancelsRefuse ==
    ASSUME ~ ReuseIds
    PROVE  Spec => []RefusedWasCancelled
<1>. DEFINE Inv == IdsInv /\ RefusalsInv
<1>1. Init => Inv
  BY DEF Init, IdsInv, RefusalsInv, Requests
<1>2. IInv /\ Inv /\ [Next]_vars => Inv'
  <2>. SUFFICES ASSUME IInv, Inv, [Next]_vars PROVE Inv'
    OBVIOUS
  <2>1. RefusalsInv'
    BY RefusalsStep
  <2>2. CASE Send
    BY <2>1, <2>2, SendIds DEF IInv
  <2>3. CASE ~ Send
    <3>1. sent' = sent
      BY <2>3 DEF Next, vars, Server, CloseInput, Sigterm, HandleNext, Stop, ChooseTimeout,
                  EnterPoll, Read, ReadEof, Tick, client
    <3>. QED  BY <2>1, <3>1 DEF IdsInv, Requests
  <2>. QED  BY <2>2, <2>3
<1>3. IInv /\ Inv => RefusedWasCancelled
  <2>. SUFFICES ASSUME IInv, Inv, NEW k \in DOMAIN answers,
                       answers[k].outcome = "RequestCancelled"
                PROVE  \E j \in answers[k].place + 1 .. Len(sent) :
                         sent[j].kind = "cancel" /\ sent[j].id = sent[answers[k].place].id
    BY DEF RefusedWasCancelled
  <2>1. k \in 1 .. Len(answers) /\ answers[k].place \in Requests
    BY DEF IInv, AnswersInv, InTurn
  <2>2. PICK j \in 1 .. Len(sent) : IsCancel(j, sent[answers[k].place].id)
    BY <2>1 DEF RefusalsInv
  <2>3. PICK i \in Requests : i < j /\ sent[i].id = sent[j].id
    BY <2>2 DEF IdsInv, IsCancel
  <2>4. i = answers[k].place
    BY <2>1, <2>2, <2>3 DEF IdsInv, IsCancel
  <2>5. i \in Nat
    BY RequestsFacts DEF IInv
  <2>6. j \in i + 1 .. Len(sent)
    BY <2>3, <2>5
  <2>. QED  BY <2>2, <2>4, <2>6 DEF IsCancel
<1>. QED  BY <1>1, <1>2, <1>3, Invariant, PTL DEF Spec

-----------------------------------------------------------------------------
(* Publications.  A document whose diagnostics are behind its text has a    *)
(* change or a close in the queue, ahead of any request.                    *)

Late(u) == shown[u] /= text[u] /\ ~ Ignored(u)

PublishInv ==
    /\ text \in [Uris -> Nat] /\ shown \in [Uris -> Nat]
    /\ \A u \in Uris : Late(u) => Supersedes(u, queue)
    /\ sawShutdown => UpToDate

\* An ignored change stays one.
LEMMA IgnoredStays ==
    ASSUME IInv, [Next]_vars, NEW u, Ignored(u)
    PROVE  Ignored(u)'
<1>1. CASE Send
  <2>1. /\ Len(sent') = Len(sent) + 1 /\ sent \in Seq(Messages) /\ sent' \in Seq(Messages)
        /\ \A i \in 1 .. Len(sent) : sent'[i] = sent[i]
    BY <1>1, SendFacts DEF IInv, StreamInv
  <2>2. \A i \in DOMAIN sent : i \in DOMAIN sent' /\ sent'[i] = sent[i]
    BY <2>1
  <2>. QED  BY <2>2 DEF Ignored
<1>2. CASE ~ Send
  <2>1. sent' = sent
    BY <1>2 DEF Next, vars, Server, CloseInput, Sigterm, HandleNext, Stop, ChooseTimeout,
                EnterPoll, Read, ReadEof, Tick, client
  <2>. QED  BY <2>1 DEF Ignored
<1>. QED  BY <1>1, <1>2

\* With a request at its head, or nothing in it, the queue supersedes nothing.
LEMMA RequestFirst ==
    ASSUME queue = <<>> \/ (queue \in Seq(Messages) /\ queue /= <<>> /\ HasId(Head(queue))),
           PublishInv
    PROVE  UpToDate
<1>1. \A u : ~ Supersedes(u, queue)
  <2>1. CASE queue = <<>>
    BY <2>1 DEF Supersedes
  <2>2. CASE queue \in Seq(Messages) /\ queue /= <<>> /\ HasId(Head(queue))
    <3>1. Head(queue) = queue[1] /\ DOMAIN queue = 1 .. Len(queue)
      BY <2>2
    <3>. QED  BY <2>2, <3>1 DEF Supersedes
  <2>. QED  BY <2>1, <2>2
<1>. QED  BY <1>1 DEF PublishInv, Late, UpToDate

\* What supersedes a change is still there when another message was handled.
LEMMA SupersedesStays ==
    ASSUME queue \in Seq(Messages), queue /= <<>>, NEW u, Supersedes(u, queue),
           ~ (Head(queue).kind \in {"change", "close"} /\ Head(queue).uri = u)
    PROVE  Supersedes(u, Tail(queue))
<1>1. PICK i \in DOMAIN queue : /\ queue[i].kind \in {"change", "close"} /\ queue[i].uri = u
                               /\ \A j \in 1 .. i : ~ HasId(queue[j])
  BY DEF Supersedes
<1>2. Without(Tail(queue), queue, 1) /\ Head(queue) = queue[1] /\ i \in 1 .. Len(queue)
      /\ Len(queue) \in Nat
  BY TailWithout
<1>3. \A k \in 1 .. Len(queue) - 1 : Tail(queue)[k] = queue[k + 1]
      /\ k \in DOMAIN Tail(queue)
  BY <1>2 DEF Without
<1>4. i /= 1
  BY <1>1, <1>2
<1>5. i - 1 \in 1 .. Len(queue) - 1 /\ (i - 1) + 1 = i
  BY <1>2, <1>4
<1>6. Tail(queue)[i - 1] = queue[i] /\ i - 1 \in DOMAIN Tail(queue)
  BY <1>3, <1>5
<1>7. \A j \in 1 .. i - 1 : ~ HasId(Tail(queue)[j])
  <2>1. \A j \in 1 .. i - 1 : j \in 1 .. Len(queue) - 1 /\ j + 1 \in 1 .. i
    BY <1>2, <1>5
  <2>. QED  BY <1>1, <1>3, <2>1
<1>. QED  BY <1>1, <1>6, <1>7 DEF Supersedes

LEMMA PublishHandled ==
    ASSUME IInv, PublishInv, HandleNext
    PROVE  PublishInv'
<1>. DEFINE m == Head(queue)  q == Tail(queue)
<1>1. /\ queue \in Seq(Messages) /\ queue /= <<>> /\ m \in Messages
      /\ m.place \in 1 .. taken /\ m = sent[m.place] /\ sent' = sent
      /\ taken \in 0 .. Len(sent) /\ DOMAIN sent = 1 .. Len(sent)
  BY HandledFacts DEF IInv, StreamInv, QueueInv, Ordered, HandleNext, client
<1>2. \A u : Ignored(u)' <=> Ignored(u)
  BY <1>1 DEF Ignored
<1>3. CASE HasId(m)
  <2>1. UpToDate
    BY <1>1, <1>3, RequestFirst
  <2>2. UNCHANGED docs
    BY <1>3 DEF HandleNext, HandleInvalid, HandleCancelled, HandleAfterShutdown,
                HandleRequest, HandleCancel, HandleChange, HandleClose, HandleNote,
                HandleExit, HasId, RequestKinds
  <2>. QED  BY <1>2, <2>1, <2>2 DEF UpToDate, PublishInv, Late, docs
<1>4. CASE ~ HasId(m) /\ sawShutdown
  <2>1. UNCHANGED docs /\ UpToDate
    BY <1>4 DEF HandleNext, HandleInvalid, HandleCancelled, HandleAfterShutdown,
                HandleRequest, HandleCancel, HandleChange, HandleClose, HandleNote,
                HandleExit, PublishInv
  <2>. QED  BY <1>2, <2>1 DEF UpToDate, PublishInv, Late, docs
<1>5. CASE ~ HasId(m) /\ ~ sawShutdown
  <2>1. queue' = q /\ sawShutdown' = sawShutdown
    <3>1. m.kind /= "invalid"
      BY <1>5 DEF HasId, RequestKinds
    <3>. QED  BY <1>5, <3>1 DEF HandleNext, HandleInvalid, HandleCancelled, HandleAfterShutdown,
                HandleRequest, HandleCancel, HandleChange, HandleClose, HandleNote, HandleExit
  <2>2. \A u \in Uris : Supersedes(u, queue) =>
          (m.kind \in {"change", "close"} /\ m.uri = u) \/ Supersedes(u, queue')
    BY <1>1, <2>1, SupersedesStays
  <2>3. CASE m.kind \notin {"change", "close"}
    <3>1. UNCHANGED docs
      BY <1>5, <2>3 DEF HandleNext, HandleInvalid, HandleCancelled, HandleAfterShutdown,
                HandleRequest, HandleCancel, HandleChange, HandleClose, HandleNote, HandleExit
    <3>. QED  BY <1>2, <1>5, <2>1, <2>2, <2>3, <3>1 DEF PublishInv, Late, docs
  <2>4. CASE m.kind \in {"change", "close"}
    <3>1. HandleChange(m, q) \/ HandleClose(m, q)
      BY <1>5, <2>4 DEF HandleNext, HandleInvalid, HandleCancelled, HandleAfterShutdown,
                HandleRequest, HandleCancel, HandleNote, HandleExit, HasId, RequestKinds
    <3>2. /\ text' \in [Uris -> Nat] /\ shown' \in [Uris -> Nat]
          /\ \A u \in Uris : u /= m.uri => text'[u] = text[u] /\ shown'[u] = shown[u]
      <4>1. m.place \in Nat
        BY <1>1
      <4>2. text \in [Uris -> Nat] /\ shown \in [Uris -> Nat]
        BY DEF PublishInv
      <4>. HIDE DEF m, q
      <4>3. CASE HandleChange(m, q) /\ m.ranged
        BY <4>2, <4>3 DEF HandleChange, docs
      <4>4. CASE HandleChange(m, q) /\ ~ m.ranged
        BY <4>1, <4>2, <4>4 DEF HandleChange
      <4>5. CASE HandleClose(m, q)
        BY <4>2, <4>5 DEF HandleClose
      <4>. QED  BY <3>1, <4>3, <4>4, <4>5
    <3>3. ASSUME NEW u \in Uris, u = m.uri
          PROVE  ~ Late(u)' \/ Supersedes(u, q)
      <4>1. CASE HandleClose(m, q)
        BY <3>3, <4>1 DEF HandleClose, Late, PublishInv
      <4>2. CASE HandleChange(m, q) /\ m.ranged
        <5>1. m.place \in DOMAIN sent
          BY <1>1
        <5>2. Ignored(u)
          BY <1>1, <3>3, <4>2, <5>1 DEF Ignored, HandleChange
        <5>. QED  BY <1>2, <5>2 DEF Late
      <4>3. CASE HandleChange(m, q) /\ ~ m.ranged
        BY <3>3, <4>3 DEF HandleChange, Late, PublishInv
      <4>. QED  BY <3>1, <4>1, <4>2, <4>3
    <3>4. ASSUME NEW u \in Uris, Late(u)'
          PROVE  Supersedes(u, queue')
      <4>1. CASE u = m.uri
        BY <2>1, <3>3, <3>4, <4>1
      <4>2. CASE u /= m.uri
        BY <1>2, <2>2, <3>2, <3>4, <4>2 DEF PublishInv, Late
      <4>. QED  BY <4>1, <4>2
    <3>5. PublishInv' <=> /\ text' \in [Uris -> Nat] /\ shown' \in [Uris -> Nat]
                          /\ \A u \in Uris : Late(u)' => Supersedes(u, queue')
                          /\ sawShutdown' => UpToDate'
      BY DEF PublishInv, Supersedes, HasId
    <3>. QED  BY <1>5, <2>1, <3>2, <3>4, <3>5
  <2>. QED  BY <2>3, <2>4
<1>. QED  BY <1>3, <1>4, <1>5

LEMMA PublishStep ==
    ASSUME IInv, PublishInv, [Next]_vars
    PROVE  PublishInv'
<1>1. CASE HandleNext
  BY <1>1, PublishHandled
<1>2. CASE ~ HandleNext /\ ~ Read
  <2>1. UNCHANGED <<queue, text, shown, sawShutdown>>
    BY <1>2 DEF Next, vars, docs, Server, Send, CloseInput, Sigterm, Stop, ChooseTimeout,
                EnterPoll, ReadEof, Tick, client
  <2>. QED  BY <2>1, IgnoredStays DEF PublishInv, Late, UpToDate, Supersedes
<1>3. CASE Read
  <2>1. UNCHANGED <<text, shown, sawShutdown>> /\ queue = <<>>
    BY <1>3 DEF Read, docs, IInv, QueueInv
  <2>2. UpToDate
    BY <2>1, RequestFirst
  <2>. QED  BY <2>1, <2>2, IgnoredStays DEF PublishInv, Late, UpToDate
<1>. QED  BY <1>1, <1>2, <1>3

\* When a request is answered, and when nothing is left to handle, the
\* diagnostics shown are those of the last changes: lsp_did_change skips a
\* publication only when another follows in time, whatever the queue holds.
THEOREM PublishesInTime == Spec => PublishedInTime
<1>1. Init => PublishInv
  BY DEF Init, PublishInv, Late, UpToDate
<1>2. IInv /\ PublishInv /\ [Next]_vars => PublishInv'
  BY PublishStep
<1>3. IInv /\ PublishInv /\ [Next]_vars
        => [answers' /= answers \/ queue = <<>> => UpToDate]_vars
  <2>. SUFFICES ASSUME IInv, PublishInv, [Next]_vars, answers' /= answers \/ queue = <<>>
                PROVE  UpToDate
    OBVIOUS
  <2>1. CASE queue = <<>>
    BY <2>1, RequestFirst
  <2>2. CASE answers' /= answers
    <3>1. HandleNext
      BY <2>2 DEF Next, vars, Server, Send, CloseInput, Sigterm, Stop, ChooseTimeout,
                  EnterPoll, Read, ReadEof, Tick
    <3>2. queue \in Seq(Messages) /\ queue /= <<>> /\ HasId(Head(queue))
      BY <2>2, <3>1, HandledFacts DEF IInv, QueueInv, Ordered, HandleNext
    <3>. QED  BY <3>2, RequestFirst
  <2>. QED  BY <2>1, <2>2
<1>. QED  BY <1>1, <1>2, <1>3, Invariant, PTL DEF Spec, PublishedInTime
=============================================================================
