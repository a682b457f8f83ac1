------------------------- MODULE ProjectIndexProofs -------------------------
(***************************************************************************)
(* The index of the server, those of its workers and the one that a cache  *)
(* file yields stay in step with their records, for any files, texts and   *)
(* capacity, and however builds, refreshes, restarts and failures follow   *)
(* each other.                                                             *)
(***************************************************************************)
EXTENDS ProjectIndex, FiniteSetTheorems, TLAPS

-----------------------------------------------------------------------------
(* The operations of the arena keep the keys and the table in step with    *)
(* its records.                                                            *)

\* The types of an arena and of what is derived from it.
KeyMaps == UNION {[S -> Nat] : S \in SUBSET Symbols}
Tables  == [valid : BOOLEAN, entries : SUBSET Nat, deleted : SUBSET Nat]
Regions == [records : Seq(Records), keys : KeyMaps, table : Tables]

\* A region that has its type and whose parts agree.
Good(r) == r \in Regions /\ InSync(r)

-----------------------------------------------------------------------------
\* A record that was just written is no tombstone.
LEMMA RecordIsLive ==
    ASSUME NEW s \in Symbols, NEW f \in Files
    PROVE  /\ Record(s, f) \in Records /\ Record(s, f) /= Tombstone
           /\ Record(s, f).sym = s
<1>1. "path" \in DOMAIN Record(s, f) /\ "path" \notin DOMAIN Tombstone
  BY DEF Record, Tombstone
<1>2. QED  BY <1>1 DEF Record, Records

\* c is a followed by b, sequences over S.
Chained(S, a, b, c) ==
    /\ c \in Seq(S) /\ Len(c) = Len(a) + Len(b)
    /\ \A k \in 1 .. Len(a) : c[k] = a[k]
    /\ \A i \in 1 .. Len(b) : c[Len(a) + i] = b[i]

LEMMA Concatenated ==
    ASSUME NEW S, NEW a \in Seq(S), NEW b \in Seq(S)
    PROVE  Chained(S, a, b, a \o b)
  BY DEF Chained

\* What SetToSeq makes of a finite set: each of its members once.
LEMMA SetToSeqListed ==
    ASSUME NEW S, IsFiniteSet(S)
    PROVE  /\ SetToSeq(S) \in [1 .. Cardinality(S) -> S]
           /\ \A i, j \in 1 .. Cardinality(S) : SetToSeq(S)[i] = SetToSeq(S)[j] => i = j
           /\ Cardinality(S) \in Nat
<1>1. Cardinality(S) \in Nat /\ ExistsBijection(1 .. Cardinality(S), S)
  BY FS_CardinalityType
<1>2. PICK q \in [1 .. Cardinality(S) -> S] : IsInjective(q)
  BY <1>1 DEF ExistsBijection, Bijection, Injection, IsInjective
<1>3. SetToSeq(S) \in [1 .. Cardinality(S) -> S] /\ IsInjective(SetToSeq(S))
  BY <1>2 DEF SetToSeq
<1>4. QED  BY <1>1, <1>3 DEF IsInjective

\* Members of a set, each at most once.
Distinct(q, S) ==
    /\ q \in Seq(S)
    /\ \A i, j \in 1 .. Len(q) : q[i] = q[j] => i = j

LEMMA SetToSeqDistinct ==
    ASSUME NEW S, IsFiniteSet(S)
    PROVE  Distinct(SetToSeq(S), S)
<1> DEFINE q == SetToSeq(S)
           n == Cardinality(S)
<1>1. q \in [1 .. n -> S] /\ n \in Nat /\ \A i, j \in 1 .. n : q[i] = q[j] => i = j
  BY SetToSeqListed
<1> HIDE DEF q, n
<1>2. q \in Seq(S) /\ Len(q) = n
  BY <1>1
<1>3. Distinct(q, S)
  BY <1>1, <1>2 DEF Distinct
<1>4. QED  BY <1>3 DEF q

LEMMA DistinctPrefix ==
    ASSUME NEW S, NEW q, Distinct(q, S), NEW n \in Nat, n <= Len(q)
    PROVE  Distinct(SubSeq(q, 1, n), S) /\ Len(SubSeq(q, 1, n)) = n
<1>1. q \in Seq(S)
  BY DEF Distinct
<1>2. /\ SubSeq(q, 1, n) \in Seq(S) /\ Len(SubSeq(q, 1, n)) = n
      /\ \A i \in 1 .. n : SubSeq(q, 1, n)[i] = q[i]
  BY <1>1
<1>3. QED  BY <1>1, <1>2 DEF Distinct

\* What is appended for a file: symbols that it declares, new ones, each once,
\* and no more than there is room for.
LEMMA AcceptedDistinct ==
    ASSUME NEW r \in Regions, Len(r.records) <= Capacity,
           NEW declared \in SUBSET Symbols
    PROVE  /\ Distinct(Accepted(r, declared), declared \ DOMAIN r.keys)
           /\ Len(r.records) + Len(Accepted(r, declared)) <= Capacity
<1> DEFINE fresh == declared \ DOMAIN r.keys
           all   == SetToSeq(fresh)
           room  == Capacity - Len(r.records)
<1>1. IsFiniteSet(fresh)
  BY SymbolsAssumption, FS_Subset
<1>2. Distinct(all, fresh) /\ Len(all) \in Nat
  <2>1. Distinct(all, fresh)
    BY <1>1, SetToSeqDistinct
  <2> HIDE DEF all, fresh
  <2>2. QED  BY <2>1 DEF Distinct
<1>3. Len(r.records) \in Nat /\ room \in Nat
  BY CapacityAssumption DEF Regions
<1>4. Accepted(r, declared) = IF Len(all) <= room THEN all ELSE SubSeq(all, 1, room)
  BY DEF Accepted
<1> HIDE DEF all, fresh
<1>5. ASSUME NEW q, q = Accepted(r, declared), Distinct(q, fresh), Len(q) <= room,
             Len(q) \in Nat
      PROVE  /\ Distinct(Accepted(r, declared), declared \ DOMAIN r.keys)
             /\ Len(r.records) + Len(Accepted(r, declared)) <= Capacity
  <2>1. Distinct(Accepted(r, declared), declared \ DOMAIN r.keys)
    BY <1>5 DEF fresh
  <2>2. Len(r.records) + Len(q) <= Capacity
    BY <1>3, <1>5, CapacityAssumption
  <2>3. QED  BY <1>5, <2>1, <2>2
<1>6. CASE Len(all) <= room
  <2>1. all = Accepted(r, declared)
    BY <1>4, <1>6
  <2>2. QED  BY <1>2, <1>5, <1>6, <2>1
<1>7. CASE ~ (Len(all) <= room)
  <2> DEFINE part == SubSeq(all, 1, room)
  <2>1. Distinct(part, fresh) /\ Len(part) = room
    BY <1>2, <1>3, <1>7, DistinctPrefix
  <2>2. part = Accepted(r, declared)
    BY <1>4, <1>7
  <2> HIDE DEF part
  <2>3. Len(part) <= room /\ Len(part) \in Nat
    <3> HIDE DEF room
    <3>1. QED  BY <1>3, <2>1
  <2>4. QED  BY <1>5, <2>1, <2>2, <2>3
<1>8. QED  BY <1>6, <1>7

\* The two halves of Added.
Appended(records, q, f) == records \o [i \in DOMAIN q |-> Record(q[i], f)]
Indexed(keys, start, q) ==
    [s \in DOMAIN keys \cup {q[i] : i \in DOMAIN q} |->
        IF s \in DOMAIN keys THEN keys[s] ELSE start + CHOOSE i \in DOMAIN q : q[i] = s]

\* Appending records of new symbols keeps the keys in step.
LEMMA AppendKeys ==
    ASSUME NEW records \in Seq(Records), NEW keys \in KeyMaps, NEW f \in Files,
           NEW q, Distinct(q, Symbols \ DOMAIN keys),
           KeysMatch([records |-> records, keys |-> keys, table |-> NoTable]),
           NEW more, more = Appended(records, q, f),
           NEW keyed, keyed = Indexed(keys, Len(records), q)
    PROVE  /\ more \in Seq(Records) /\ keyed \in KeyMaps
           /\ Len(more) = Len(records) + Len(q)
           /\ KeysMatch([records |-> more, keys |-> keyed, table |-> NoTable])
<1> DEFINE start == Len(records)
           n     == Len(q)
           new   == [i \in DOMAIN q |-> Record(q[i], f)]
<1>1. /\ q \in Seq(Symbols) /\ DOMAIN q = 1 .. n /\ n \in Nat /\ start \in Nat
      /\ \A i \in 1 .. n : q[i] \in Symbols \ DOMAIN keys
      /\ \A i, j \in 1 .. n : q[i] = q[j] => i = j
  BY DEF Distinct
<1>2. new \in Seq(Records) /\ Len(new) = n /\ \A i \in 1 .. n : new[i] = Record(q[i], f)
  BY <1>1, RecordIsLive
<1>3. /\ more \in Seq(Records) /\ Len(more) = start + n
      /\ \A k \in 1 .. start : more[k] = records[k]
      /\ \A i \in 1 .. n : more[start + i] = Record(q[i], f)
  <2>1. more = records \o new
    BY DEF Appended
  <2>2. Chained(Records, records, new, more)
    <3>1. records \in Seq(Records) /\ new \in Seq(Records)
      BY <1>2
    <3> HIDE DEF new
    <3>2. QED  BY <2>1, <3>1, Concatenated
  <2>3. Len(new) = n /\ \A i \in 1 .. n : new[i] = Record(q[i], f)
    BY <1>2
  <2> HIDE DEF new, n
  <2>4. QED  BY <2>2, <2>3 DEF Chained
<1>4. /\ DOMAIN keys \subseteq Symbols
      /\ \A s \in DOMAIN keys : keys[s] \in Nat
      /\ DOMAIN keys = SymbolsOf(records, Live(records))
      /\ \A k \in Live(records) : keys[records[k].sym] = k
  BY DEF KeyMaps, KeysMatch
<1>5. \A i \in 1 .. n : keyed[q[i]] = start + i
  <2>1. TAKE i \in 1 .. n
  <2>2. (CHOOSE j \in DOMAIN q : q[j] = q[i]) = i
    BY <1>1
  <2>3. QED  BY <1>1, <2>2 DEF Indexed
<1>6. \A s \in DOMAIN keys : keyed[s] = keys[s]
  BY DEF Indexed
<1>7. DOMAIN keyed = DOMAIN keys \cup {q[i] : i \in 1 .. n}
  BY <1>1 DEF Indexed
<1>8. keyed \in KeyMaps
  <2>1. \A s \in DOMAIN keyed : s \in Symbols /\ keyed[s] \in Nat
    BY <1>1, <1>4, <1>5, <1>6, <1>7
  <2>2. keyed \in [DOMAIN keyed -> Nat] /\ DOMAIN keyed \in SUBSET Symbols
    BY <2>1 DEF Indexed
  <2> HIDE DEF start, n, new
  <2>3. QED  BY <2>2 DEF KeyMaps
<1>9. /\ \A k \in Live(more) : k \in Live(records) \/ \E i \in 1 .. n : k = start + i
      /\ \A k \in Live(records) : k \in Live(more)
      /\ \A i \in 1 .. n : start + i \in Live(more)
  <2>1. DOMAIN more = 1 .. start + n /\ DOMAIN records = 1 .. start
    BY <1>1, <1>3
  <2>2. ASSUME NEW k \in Live(more)
        PROVE  k \in Live(records) \/ \E i \in 1 .. n : k = start + i
    <3>1. k \in 1 .. start + n /\ more[k] /= Tombstone
      BY <2>1 DEF Live
    <3>2. CASE k <= start
      BY <1>1, <1>3, <2>1, <3>1, <3>2 DEF Live
    <3>3. CASE ~ (k <= start)
      <4>1. k - start \in 1 .. n /\ k = start + (k - start)
        BY <1>1, <3>1, <3>3
      <4>2. QED  BY <4>1
    <3>4. QED  BY <3>2, <3>3
  <2>3. \A k \in Live(records) : k \in Live(more)
    BY <1>1, <1>3, <2>1 DEF Live
  <2>4. \A i \in 1 .. n : start + i \in 1 .. start + n /\ more[start + i] /= Tombstone
    BY <1>1, <1>3, RecordIsLive
  <2>5. \A i \in 1 .. n : start + i \in Live(more)
    BY <2>1, <2>4 DEF Live
  <2>6. QED  BY <2>2, <2>3, <2>5
<1>10. \A i \in 1 .. n : more[start + i].sym = q[i]
  BY <1>1, <1>3, RecordIsLive
<1>11. \A k \in Live(records) : more[k].sym = records[k].sym
  BY <1>1, <1>3 DEF Live
<1> HIDE DEF start, n, new
<1>12. ASSUME NEW k \in Live(more)
       PROVE  more[k].sym \in DOMAIN keyed /\ keyed[more[k].sym] = k
  <2>1. CASE k \in Live(records)
    <3>1. records[k].sym \in DOMAIN keys
      BY <1>4, <2>1 DEF SymbolsOf
    <3>2. QED  BY <1>4, <1>6, <1>7, <1>11, <2>1, <3>1
  <2>2. CASE \E i \in 1 .. n : k = start + i
    <3>1. PICK i \in 1 .. n : k = start + i
      BY <2>2
    <3>2. QED  BY <1>5, <1>7, <1>10, <3>1
  <2>3. QED  BY <1>9, <2>1, <2>2
<1>13. ASSUME NEW s \in DOMAIN keyed
       PROVE  \E k \in Live(more) : more[k].sym = s
  <2>1. CASE s \in DOMAIN keys
    <3>1. PICK k \in Live(records) : records[k].sym = s
      BY <1>4, <2>1 DEF SymbolsOf
    <3>2. QED  BY <1>9, <1>11, <3>1
  <2>2. CASE s \in {q[i] : i \in 1 .. n}
    <3>1. PICK i \in 1 .. n : s = q[i]
      BY <2>2
    <3>2. QED  BY <1>9, <1>10, <3>1
  <2>3. QED  BY <1>7, <2>1, <2>2
<1>14. DOMAIN keyed = SymbolsOf(more, Live(more))
  <2>1. DOMAIN keyed \subseteq {more[k].sym : k \in Live(more)}
    BY <1>13
  <2>2. {more[k].sym : k \in Live(more)} \subseteq DOMAIN keyed
    BY <1>12
  <2>3. QED  BY <2>1, <2>2 DEF SymbolsOf
<1>15. QED  BY <1>3, <1>8, <1>12, <1>14 DEF KeysMatch, start, n

\* Adding the declarations of a file.
LEMMA AddedGood ==
    ASSUME NEW r, Good(r), Len(r.records) <= Capacity, NEW f \in Files,
           NEW declared \in SUBSET Symbols
    PROVE  Good(Added(r, f, declared)) /\ Len(Added(r, f, declared).records) <= Capacity
<1> DEFINE q     == Accepted(r, declared)
           more  == Appended(r.records, q, f)
           keyed == Indexed(r.keys, Len(r.records), q)
<1>1. /\ r \in Regions /\ r.records \in Seq(Records) /\ r.keys \in KeyMaps
      /\ KeysMatch(r)
  BY DEF Good, InSync, Regions
<1>2. Distinct(q, declared \ DOMAIN r.keys) /\ Len(r.records) + Len(q) <= Capacity
  BY <1>1, AcceptedDistinct
<1>3. CASE q = <<>>
  BY <1>3 DEF Added
<1>4. CASE q /= <<>>
  <2>1. Added(r, f, declared) = [records |-> more, keys |-> keyed, table |-> NoTable]
    BY <1>4 DEF Added, Appended, Indexed
  <2>2. Distinct(q, Symbols \ DOMAIN r.keys)
    <3> HIDE DEF q
    <3>1. q \in Seq(declared \ DOMAIN r.keys) => q \in Seq(Symbols \ DOMAIN r.keys)
      OBVIOUS
    <3>2. QED  BY <1>2, <3>1 DEF Distinct
  <2>3. KeysMatch([records |-> r.records, keys |-> r.keys, table |-> NoTable])
    BY <1>1 DEF KeysMatch
  <2> HIDE DEF q
  <2>4. /\ more \in Seq(Records) /\ keyed \in KeyMaps
        /\ Len(more) = Len(r.records) + Len(q)
        /\ KeysMatch([records |-> more, keys |-> keyed, table |-> NoTable])
    BY <1>1, <2>2, <2>3, AppendKeys
  <2> HIDE DEF more, keyed
  <2>5. NoTable \in Tables /\ ~ NoTable.valid
    BY DEF NoTable, Tables
  <2>6. QED  BY <1>2, <2>1, <2>4, <2>5 DEF Good, InSync, TableMatches, Regions
<1>5. QED  BY <1>3, <1>4

\* The empty arena.
LEMMA EmptyGood == Good(EmptyRegion) /\ Len(EmptyRegion.records) = 0
<1>1. NoKeys \in [{} -> Nat] /\ NoKeys \in KeyMaps
  BY DEF NoKeys, KeyMaps
<1>2. Live(<<>>) = {} /\ DOMAIN NoKeys = {}
  BY DEF Live, NoKeys
<1>3. EmptyRegion \in Regions
  BY <1>1 DEF EmptyRegion, Regions, NoTable, Tables
<1>4. QED
  BY <1>2, <1>3 DEF Good, InSync, KeysMatch, TableMatches, SymbolsOf, EmptyRegion, NoTable

\* Building the table.
LEMMA EnsuredGood ==
    ASSUME NEW r, Good(r)
    PROVE  /\ Good(Ensured(r)) /\ Ensured(r).records = r.records
           /\ Ensured(r).table.valid
<1>1. CASE r.table.valid
  BY <1>1 DEF Ensured
<1>2. CASE ~ r.table.valid
  <2> DEFINE t == [valid |-> TRUE, entries |-> Live(r.records), deleted |-> {}]
  <2>1. r \in Regions /\ KeysMatch(r)
    BY DEF Good, InSync
  <2>2. Ensured(r) = [r EXCEPT !.table = t]
    BY <1>2, Zenon DEF Ensured
  <2>3. Live(r.records) \subseteq Nat
    BY <2>1 DEF Live, Regions
  <2>4. t \in Tables /\ t.valid /\ t.entries \ t.deleted = Live(r.records)
    BY <2>3 DEF Tables
  <2> HIDE DEF t
  <2>5. /\ Ensured(r) \in Regions /\ Ensured(r).table = t
        /\ Ensured(r).records = r.records /\ Ensured(r).keys = r.keys
    BY <2>1, <2>2, <2>4 DEF Regions
  <2>6. QED  BY <2>1, <2>4, <2>5 DEF Good, InSync, KeysMatch, TableMatches
<1>3. QED  BY <1>1, <1>2

\* Scanning a file again first takes its records out.
LEMMA RemovedGood ==
    ASSUME NEW r, Good(r), NEW f \in Files
    PROVE  Good(Removed(r, f)) /\ Len(Removed(r, f).records) = Len(r.records)
<1> DEFINE e    == Ensured(r)
           gone == {i \in e.table.entries \ e.table.deleted : e.records[i].path = f}
           rest == [i \in DOMAIN e.records |->
                       IF i \in gone THEN Tombstone ELSE e.records[i]]
           kept == [s \in DOMAIN e.keys \ SymbolsOf(e.records, gone) |-> e.keys[s]]
           t    == [e.table EXCEPT !.deleted = @ \cup gone]
<1>1. Good(e) /\ e.records = r.records /\ e.table.valid
  BY EnsuredGood
<1>2. Removed(r, f) = [records |-> rest, keys |-> kept, table |-> t]
  BY DEF Removed
<1> HIDE DEF e
<1>3. /\ e.records \in Seq(Records) /\ e.keys \in KeyMaps /\ e.table \in Tables
      /\ e.table.entries \ e.table.deleted = Live(e.records)
      /\ DOMAIN e.keys = SymbolsOf(e.records, Live(e.records))
      /\ \A i \in Live(e.records) : e.keys[e.records[i].sym] = i
  BY <1>1 DEF Good, InSync, KeysMatch, TableMatches, Regions
<1>4. gone \subseteq Live(e.records)
  BY <1>3
<1>5. /\ rest \in Seq(Records) /\ Len(rest) = Len(e.records)
      /\ Live(rest) = Live(e.records) \ gone
      /\ \A i \in Live(rest) : rest[i] = e.records[i]
  <2>1. Tombstone \in Records
    BY DEF Records
  <2>2. rest \in Seq(Records) /\ Len(rest) = Len(e.records) /\ DOMAIN rest = DOMAIN e.records
    BY <1>3, <2>1
  <2>3. \A i \in DOMAIN e.records : rest[i] = IF i \in gone THEN Tombstone ELSE e.records[i]
    OBVIOUS
  <2> HIDE DEF rest, gone
  <2>4. Live(rest) = Live(e.records) \ gone
    BY <2>2, <2>3 DEF Live
  <2>5. QED  BY <2>2, <2>3, <2>4 DEF Live
<1> HIDE DEF rest
<1>6. /\ DOMAIN kept = DOMAIN e.keys \ SymbolsOf(e.records, gone)
      /\ \A s \in DOMAIN kept : kept[s] = e.keys[s]
      /\ kept \in KeyMaps
  <2>1. PICK S \in SUBSET Symbols : e.keys \in [S -> Nat]
    BY <1>3 DEF KeyMaps
  <2>2. kept \in [S \ SymbolsOf(e.records, gone) -> Nat]
    BY <2>1
  <2> HIDE DEF gone
  <2>3. S \ SymbolsOf(e.records, gone) \in SUBSET Symbols
    BY <2>1
  <2>4. kept \in KeyMaps
    <3> HIDE DEF kept
    <3>1. QED  BY <2>2, <2>3 DEF KeyMaps
  <2>5. QED  BY <2>4
<1> HIDE DEF kept, gone
<1>7. ASSUME NEW i \in Live(rest)
      PROVE  rest[i].sym \in DOMAIN kept /\ kept[rest[i].sym] = i
  <2>1. i \in Live(e.records) /\ i \notin gone /\ rest[i] = e.records[i]
    BY <1>5
  <2>2. ASSUME NEW j \in gone, e.records[j].sym = e.records[i].sym
        PROVE  FALSE
    <3>1. e.keys[e.records[j].sym] = j /\ e.keys[e.records[i].sym] = i
      BY <1>3, <1>4, <2>1
    <3>2. QED  BY <2>1, <2>2, <3>1
  <2>3. e.records[i].sym \notin SymbolsOf(e.records, gone)
    BY <2>2 DEF SymbolsOf
  <2>4. e.records[i].sym \in DOMAIN e.keys /\ e.keys[e.records[i].sym] = i
    BY <1>3, <2>1 DEF SymbolsOf
  <2>5. QED  BY <1>6, <2>1, <2>3, <2>4
<1>8. ASSUME NEW s \in DOMAIN kept
      PROVE  \E i \in Live(rest) : rest[i].sym = s
  <2>1. s \in SymbolsOf(e.records, Live(e.records)) /\ s \notin SymbolsOf(e.records, gone)
    BY <1>3, <1>6
  <2>2. PICK i \in Live(e.records) : e.records[i].sym = s
    BY <2>1 DEF SymbolsOf
  <2>3. i \notin gone
    BY <2>1, <2>2 DEF SymbolsOf
  <2>4. QED  BY <1>5, <2>2, <2>3
<1>9. DOMAIN kept = SymbolsOf(rest, Live(rest))
  <2>1. DOMAIN kept \subseteq {rest[i].sym : i \in Live(rest)}
    BY <1>8
  <2>2. {rest[i].sym : i \in Live(rest)} \subseteq DOMAIN kept
    BY <1>7
  <2>3. QED  BY <2>1, <2>2 DEF SymbolsOf
<1>10. t \in Tables /\ t.entries \ t.deleted = Live(rest)
  <2>1. gone \subseteq Nat
    BY <1>3, <1>4 DEF Tables
  <2>2. /\ t \in Tables /\ t.entries = e.table.entries
        /\ t.deleted = e.table.deleted \cup gone
    BY <1>3, <2>1 DEF Tables
  <2> HIDE DEF t
  <2>3. QED  BY <1>3, <1>5, <2>2
<1> HIDE DEF t
<1>11. Removed(r, f) \in Regions
  BY <1>2, <1>5, <1>6, <1>10 DEF Regions
<1>12. KeysMatch(Removed(r, f)) /\ TableMatches(Removed(r, f))
  BY <1>2, <1>7, <1>9, <1>10 DEF KeysMatch, TableMatches
<1>13. Len(Removed(r, f).records) = Len(r.records)
  BY <1>1, <1>2, <1>5
<1>14. QED  BY <1>11, <1>12, <1>13 DEF Good, InSync

\* No symbol has two records that are alive.
Unique(records) ==
    \A i, j \in Live(records) : records[i].sym = records[j].sym => i = j

LEMMA GoodUnique ==
    ASSUME NEW r, Good(r)
    PROVE  r.records \in Seq(Records) /\ Unique(r.records)
  BY DEF Good, InSync, KeysMatch, Unique, Regions

\* The keys that are built from the records of a cache file.
LEMMA LoadedGood ==
    ASSUME NEW records \in Seq(Records), Unique(records)
    PROVE  Good(Loaded(records)) /\ Loaded(records).records = records
<1> DEFINE keys == [s \in SymbolsOf(records, Live(records)) |->
                  CHOOSE i \in Live(records) :
                      /\ records[i].sym = s
                      /\ \A j \in Live(records) : records[j].sym = s => i <= j]
<1>1. Loaded(records) = [records |-> records, keys |-> keys, table |-> NoTable]
  BY DEF Loaded
<1>2. \A i \in Live(records) : i \in Nat /\ records[i].sym \in Symbols
  BY DEF Live, Records
<1>3. ASSUME NEW i \in Live(records)
      PROVE  records[i].sym \in DOMAIN keys /\ keys[records[i].sym] = i
  <2>1. records[i].sym \in SymbolsOf(records, Live(records))
    BY DEF SymbolsOf
  <2>2. \A j \in Live(records) : records[j].sym = records[i].sym => j = i /\ i <= j
    BY <1>2 DEF Unique
  <2>3. (CHOOSE k \in Live(records) :
            /\ records[k].sym = records[i].sym
            /\ \A j \in Live(records) : records[j].sym = records[i].sym => k <= j) = i
    BY <2>2
  <2>4. QED  BY <2>1, <2>3
<1>4. DOMAIN keys = SymbolsOf(records, Live(records))
  OBVIOUS
<1>5. ASSUME NEW s \in DOMAIN keys
      PROVE  s \in Symbols /\ keys[s] \in Nat
  <2>1. PICK i \in Live(records) : s = records[i].sym
    BY <1>4 DEF SymbolsOf
  <2> HIDE DEF keys
  <2>2. QED  BY <1>2, <1>3, <2>1
<1>6. keys \in KeyMaps
  <2>1. keys \in [DOMAIN keys -> Nat] /\ DOMAIN keys \in SUBSET Symbols
    BY <1>5
  <2> HIDE DEF keys
  <2>2. QED  BY <2>1 DEF KeyMaps
<1> HIDE DEF keys
<1>7. NoTable \in Tables /\ ~ NoTable.valid
  BY DEF NoTable, Tables
<1>8. QED
  BY <1>1, <1>3, <1>4, <1>6, <1>7 DEF Good, InSync, KeysMatch, TableMatches, Regions

-----------------------------------------------------------------------------
\* The inductive invariant.  An operation that adds symbols only keeps to the
\* arena's room if the arena was within it, which is why the length is part of
\* it; a cache file holds what a good arena held, so no symbol lives in it
\* twice.
Fits(r) == Good(r) /\ Len(r.records) <= Capacity

TextsOK ==
    /\ disk \in [Files -> SUBSET Symbols]
    /\ docs \in [Files -> (SUBSET Symbols) \cup {Closed}]

WorkerOK(w) == w.state = "alive" => Fits(w.region)

WorkersOK == DOMAIN workers = Builds /\ \A b \in Builds : WorkerOK(workers[b])

CacheOK == cache.there => cache.records \in Seq(Records) /\ Unique(cache.records)

IInv == TextsOK /\ Fits(index) /\ WorkersOK /\ CacheOK

-----------------------------------------------------------------------------
LEMMA EmptyFits == Fits(EmptyRegion)
  BY EmptyGood, CapacityAssumption DEF Fits

LEMMA AddedFits ==
    ASSUME NEW r, Fits(r), NEW f \in Files, NEW declared \in SUBSET Symbols
    PROVE  Fits(Added(r, f, declared))
  BY AddedGood DEF Fits

LEMMA RemovedFits ==
    ASSUME NEW r, Fits(r), NEW f \in Files
    PROVE  Fits(Removed(r, f))
  BY RemovedGood DEF Fits

LEMMA EnsuredFits ==
    ASSUME NEW r, Fits(r)
    PROVE  Fits(Ensured(r))
<1>1. Good(Ensured(r)) /\ Ensured(r).records = r.records
  BY EnsuredGood DEF Fits
<1>2. QED  BY <1>1 DEF Fits

\* A cache file that may be loaded gives an index.
LEMMA LoadedFits ==
    ASSUME CacheOK, Loadable
    PROVE  Fits(Loaded(cache.records))
<1>1. Good(Loaded(cache.records)) /\ Loaded(cache.records).records = cache.records
  BY LoadedGood DEF CacheOK, Loadable
<1>2. QED  BY <1>1 DEF Fits, Loadable

\* What is written to the cache file.
LEMMA FileOK ==
    ASSUME NEW r, Fits(r), NEW both, NEW b, cache' = CacheFile(both, r.records, b)
    PROVE  CacheOK'
<1>1. r.records \in Seq(Records) /\ Unique(r.records)
  BY GoodUnique DEF Fits
<1>2. cache'.records = r.records
  BY DEF CacheFile
<1>3. CacheOK' <=> (cache'.there => cache'.records \in Seq(Records) /\ Unique(cache'.records))
  BY DEF CacheOK
<1>4. QED  BY <1>1, <1>2, <1>3

LEMMA SavedOK ==
    ASSUME CacheOK, Fits(index), cache' \in SavedByServer
    PROVE  CacheOK'
<1>1. CASE cache' = CacheFile(server.both, index.records, NoBuild)
  BY <1>1, FileOK
<1>2. CASE cache' = cache
  BY <1>2 DEF CacheOK
<1>3. QED  BY <1>1, <1>2 DEF SavedByServer

\* A worker that ends leaves the others as they are.
LEMMA EndedOK ==
    ASSUME WorkersOK, NEW b
    PROVE  LET ws == [workers EXCEPT ![b] = Ended]
           IN  DOMAIN ws = Builds /\ \A c \in Builds : WorkerOK(ws[c])
<1>1. WorkerOK(Ended)
  BY DEF WorkerOK, Ended
<1>2. QED  BY <1>1 DEF WorkersOK

LEMMA StoppedOK ==
    ASSUME WorkersOK
    PROVE  DOMAIN Stopped = Builds /\ \A c \in Builds : WorkerOK(Stopped[c])
<1>1. CASE server.running
  <2>1. Stopped = [workers EXCEPT ![server.build] = Ended]
    BY <1>1 DEF Stopped
  <2>2. QED  BY <2>1, EndedOK
<1>2. CASE ~ server.running
  BY <1>2 DEF Stopped, WorkersOK
<1>3. QED  BY <1>1, <1>2

\* A build: the cache, a worker, or an empty index to begin with.
LEMMA BuildOK ==
    ASSUME NEW both, NEW old, NEW ws, CacheOK, Fits(old),
           DOMAIN ws = Builds, \A c \in Builds : WorkerOK(ws[c]),
           Build(both, old, ws)
    PROVE  Fits(index') /\ WorkersOK'
<1>1. CASE Verified(both) /\ index' = Loaded(cache.records) /\ workers' = ws
  BY <1>1, LoadedFits DEF WorkersOK, WorkerOK, Verified
<1>2. CASE index' = old /\ workers' = [ws EXCEPT ![NextBuild] = NewWorker(both)]
  <2>1. WorkerOK(NewWorker(both))
    BY EmptyFits DEF WorkerOK, NewWorker, Working
  <2>2. QED  BY <1>2, <2>1 DEF WorkersOK, WorkerOK
<1>3. CASE index' = EmptyRegion /\ workers' = ws
  BY <1>3, EmptyFits DEF WorkersOK, WorkerOK
<1>4. QED  BY <1>1, <1>2, <1>3 DEF Build

-----------------------------------------------------------------------------
LEMMA InitInv == Init => IInv
<1> SUFFICES ASSUME Init PROVE IInv
  OBVIOUS
<1>1. TextsOK
  BY TextsAssumption DEF Init, TextsOK, AllClosed
<1>2. Fits(index)
  BY EmptyFits DEF Init
<1>3. WorkersOK
  BY DEF Init, WorkersOK, WorkerOK, NoWorker
<1>4. CacheOK
  BY DEF Init, CacheOK, NoCache
<1>5. QED  BY <1>1, <1>2, <1>3, <1>4 DEF IInv

\* Every text that a file may have is a set of symbols.
LEMMA TextsAreSymbols ==
    ASSUME NEW f \in Files, NEW t \in Texts[f]
    PROVE  t \in SUBSET Symbols
  BY TextsAssumption

LEMMA StepInv == IInv /\ [Next]_vars => IInv'
<1> SUFFICES ASSUME IInv, [Next]_vars PROVE IInv'
  OBVIOUS
<1> USE DEF IInv
<1>1. CASE UNCHANGED vars
  BY <1>1 DEF vars, TextsOK, Fits, WorkersOK, CacheOK
<1>2. CASE \E f \in Files : DiskChanges(f) \/ DidOpen(f) \/ DidChange(f)
                            \/ EditorSaves(f) \/ DidClose(f)
  <2>1. PICK f \in Files : \/ DiskChanges(f) \/ DidOpen(f) \/ DidChange(f)
                           \/ EditorSaves(f) \/ DidClose(f)
    BY <1>2
  <2>2. UNCHANGED <<index, workers, cache>>
    BY <2>1 DEF DiskChanges, DidOpen, DidChange, EditorSaves, DidClose
  <2>3. Fits(index)' /\ WorkersOK' /\ CacheOK'
    BY <2>2 DEF WorkersOK, CacheOK
  <2>4. TextsOK'
    <3>1. CASE DiskChanges(f)
      BY <3>1, TextsAreSymbols DEF DiskChanges, TextsOK
    <3>2. CASE DidOpen(f)
      BY <3>2 DEF DidOpen, TextsOK
    <3>3. CASE DidChange(f)
      BY <3>3, TextsAreSymbols DEF DidChange, TextsOK
    <3>4. CASE EditorSaves(f)
      <4>1. docs[f] \in SUBSET Symbols
        BY <3>4 DEF EditorSaves, TextsOK
      <4>2. QED  BY <3>4, <4>1 DEF EditorSaves, TextsOK
    <3>5. CASE DidClose(f)
      BY <3>5 DEF DidClose, TextsOK
    <3>6. QED  BY <2>1, <3>1, <3>2, <3>3, <3>4, <3>5
  <2>5. QED  BY <2>3, <2>4
<1>3. CASE \E f \in Files : Refresh(f)
  <2>1. PICK f \in Files : Refresh(f)
    BY <1>3
  <2> DEFINE text == IF docs[f] = Closed THEN disk[f] ELSE docs[f]
  <2>2. text \in SUBSET Symbols
    BY DEF TextsOK
  <2>3. index' = Added(Removed(index, f), f, text) /\ UNCHANGED <<disk, docs, workers, cache>>
    BY <2>1 DEF Refresh
  <2> HIDE DEF text
  <2>4. Fits(index')
    BY <2>2, <2>3, AddedFits, RemovedFits
  <2>5. QED  BY <2>3, <2>4 DEF TextsOK, WorkersOK, CacheOK
<1>4. CASE \E f \in Files : BuildScans(f)
  <2>1. PICK f \in Files : BuildScans(f)
    BY <1>4
  <2>2. disk[f] \in SUBSET Symbols /\ index' = Added(index, f, disk[f])
        /\ UNCHANGED <<disk, docs, workers, cache>>
    BY <2>1 DEF BuildScans, TextsOK
  <2>3. Fits(index')
    BY <2>2, AddedFits
  <2>4. QED  BY <2>2, <2>3 DEF TextsOK, WorkersOK, CacheOK
<1>5. CASE \E b \in Builds, f \in Files : WorkerScans(b, f)
  <2>1. PICK b \in Builds, f \in Files : WorkerScans(b, f)
    BY <1>5
  <2> DEFINE w    == workers[b]
             next == Working(w.both, w.todo \ {f}, Added(w.region, f, disk[f]))
  <2>2. /\ w.state = "alive" /\ disk[f] \in SUBSET Symbols
        /\ workers' = [workers EXCEPT ![b] = next]
        /\ UNCHANGED <<disk, docs, index, cache>>
    BY <2>1 DEF WorkerScans, TextsOK
  <2>3. Fits(Added(w.region, f, disk[f]))
    BY <2>2, AddedFits DEF WorkersOK, WorkerOK
  <2>4. WorkerOK(next)
    BY <2>3 DEF WorkerOK, Working
  <2> HIDE DEF next
  <2>5. WorkersOK'
    BY <2>2, <2>4 DEF WorkersOK
  <2>6. QED  BY <2>2, <2>5 DEF TextsOK, CacheOK
<1>6. CASE \E b \in Builds : WorkerSaves(b)
  <2>1. PICK b \in Builds : WorkerSaves(b)
    BY <1>6
  <2>2. /\ cache' = CacheFile(workers[b].both, workers[b].region.records, b)
        /\ workers' = [workers EXCEPT ![b] = Ended]
        /\ workers[b].state = "alive"
        /\ UNCHANGED <<disk, docs, index>>
    BY <2>1 DEF WorkerSaves
  <2>3. CacheOK'
    BY <2>2, FileOK DEF WorkersOK, WorkerOK
  <2>4. WorkersOK'
    BY <2>2, EndedOK DEF WorkersOK
  <2>5. QED  BY <2>2, <2>3, <2>4 DEF TextsOK
<1>7. CASE \E b \in Builds : WorkerDies(b)
  <2>1. PICK b \in Builds : WorkerDies(b)
    BY <1>7
  <2>2. workers' = [workers EXCEPT ![b] = Ended] /\ UNCHANGED <<disk, docs, index, cache>>
    BY <2>1 DEF WorkerDies
  <2>3. WorkersOK'
    BY <2>2, EndedOK DEF WorkersOK
  <2>4. QED  BY <2>2, <2>3 DEF TextsOK, CacheOK
<1>8. CASE \E both \in BOOLEAN : Initialize(both)
  <2>1. PICK both \in BOOLEAN : Initialize(both)
    BY <1>8
  <2>2. Build(both, EmptyRegion, workers) /\ UNCHANGED <<disk, docs, cache>>
    BY <2>1 DEF Initialize
  <2>3. Fits(index') /\ WorkersOK'
    BY <2>2, BuildOK, EmptyFits DEF WorkersOK
  <2>4. QED  BY <2>2, <2>3 DEF TextsOK, CacheOK
<1>9. CASE ChangeFolders
  <2>1. Build(~ server.both, index, Stopped) /\ UNCHANGED <<disk, docs, cache>>
    BY <1>9 DEF ChangeFolders
  <2>2. Fits(index') /\ WorkersOK'
    BY <2>1, BuildOK, StoppedOK
  <2>3. QED  BY <2>1, <2>2 DEF TextsOK, CacheOK
<1>10. CASE Join
  <2>1. UNCHANGED <<disk, docs, workers, cache>>
    BY <1>10 DEF Join
  <2>2. (Loadable /\ index' = Loaded(cache.records)) \/ index' = EmptyRegion
    BY <1>10 DEF Join
  <2>3. Fits(index')
    BY <2>2, LoadedFits, EmptyFits
  <2>4. QED  BY <2>1, <2>3 DEF TextsOK, WorkersOK, CacheOK
<1>11. CASE BuildEnds
  <2>1. cache' \in SavedByServer /\ UNCHANGED <<disk, docs, index, workers>>
    BY <1>11 DEF BuildEnds
  <2>2. CacheOK'
    BY <2>1, SavedOK
  <2>3. QED  BY <2>1, <2>2 DEF TextsOK, WorkersOK
<1>12. CASE Read
  <2>1. index' = Ensured(index) /\ UNCHANGED <<disk, docs, workers, cache>>
    BY <1>12 DEF Read
  <2>2. Fits(index')
    BY <2>1, EnsuredFits
  <2>3. QED  BY <2>1, <2>2 DEF TextsOK, WorkersOK, CacheOK
<1>13. CASE Exit
  <2>1. /\ index' = EmptyRegion /\ disk' = disk /\ docs' = AllClosed
        /\ workers' = Stopped
        /\ cache' \in SavedByServer \/ cache' = cache
    BY <1>13 DEF Exit, Gone
  <2>2. CacheOK'
    BY <2>1, SavedOK DEF CacheOK
  <2>3. WorkersOK'
    BY <2>1, StoppedOK DEF WorkersOK
  <2>4. TextsOK'
    BY <2>1 DEF TextsOK, AllClosed
  <2>5. QED  BY <2>1, <2>2, <2>3, <2>4, EmptyFits
<1>14. CASE Crash
  <2>1. /\ index' = EmptyRegion /\ disk' = disk /\ docs' = AllClosed
        /\ UNCHANGED <<workers, cache>>
    BY <1>14 DEF Crash, Gone
  <2>2. TextsOK'
    BY <2>1 DEF TextsOK, AllClosed
  <2>3. QED  BY <2>1, <2>2, EmptyFits DEF WorkersOK, CacheOK
<1>15. QED
  BY <1>1, <1>2, <1>3, <1>4, <1>5, <1>6, <1>7, <1>8, <1>9, <1>10, <1>11, <1>12,
     <1>13, <1>14 DEF Next

LEMMA InvImplies == IInv => RegionsInSync
<1> SUFFICES ASSUME IInv PROVE RegionsInSync
  OBVIOUS
<1>1. InSync(index)
  BY DEF IInv, Fits, Good
<1>2. ASSUME NEW b \in Builds, workers[b].state = "alive"
      PROVE  InSync(workers[b].region)
  BY <1>2 DEF IInv, WorkersOK, WorkerOK, Fits, Good
<1>3. ASSUME cache.there
      PROVE  KeysMatch(Loaded(cache.records))
  BY <1>3, LoadedGood DEF IInv, CacheOK, Good, InSync
<1>4. QED  BY <1>1, <1>2, <1>3 DEF RegionsInSync

\* Keys and table show what the arena holds, in the server, in its workers and
\* when a cache file is loaded (lsp_server_symbols.c, lsp_server_index.c): no
\* order of builds, refreshes, restarts and failures breaks that.
THEOREM RegionsStayInSync == Spec => []RegionsInSync
<1>1. Init => IInv
  BY InitInv
<1>2. IInv /\ [Next]_vars => IInv'
  BY StepInv
<1>3. IInv => RegionsInSync
  BY InvImplies
<1>4. QED  BY <1>1, <1>2, <1>3, PTL DEF Spec

\* The arena never holds more records than it has room for, whoever fills it:
\* lsp_symbol_index_add_symbol_kind refuses what has no room, and a cache file
\* that is larger is not loaded.
THEOREM ArenaKeepsToItsRoom == Spec => [](Len(index.records) <= Capacity)
<1>1. Init => IInv
  BY InitInv
<1>2. IInv /\ [Next]_vars => IInv'
  BY StepInv
<1>3. IInv => Len(index.records) <= Capacity
  BY DEF IInv, Fits
<1>4. QED  BY <1>1, <1>2, <1>3, PTL DEF Spec

-----------------------------------------------------------------------------
(* What the index says of a file.                                          *)

\* A symbol that the file may declare.
Declarable(f, s) == \E t \in Texts[f] : s \in t

\* Every record is of a symbol that its file may declare.
Plausible(records) == \A i \in Live(records) : Declarable(records[i].path, records[i].sym)

\* The records of a file are those of a text: none that is not in it, and, as
\* long as nothing was refused for lack of room, all of it that no other file may
\* declare.
Faithful(records, f, text) ==
    \A i \in Live(records) : records[i].path = f => records[i].sym \in text
Covered(records, f, text) ==
    Len(records) < Capacity =>
        \A s \in text : Private(s) => \E i \in Live(records) : records[i] = Record(s, f)
Unmentioned(records, f) == \A i \in Live(records) : records[i].path /= f

\* A file that is still to be scanned is not in the records; another one is there
\* with its text, unless a message about it is still to come.
Shown(records, f, text, todo, late) ==
    IF f \in todo THEN Unmentioned(records, f)
    ELSE f \notin late => Faithful(records, f, text) /\ Covered(records, f, text)
Shows(records, texts, both, todo, late) ==
    \A f \in Scope(both) : Shown(records, f, texts[f], todo, late)

KnownTexts ==
    /\ \A f \in Files : disk[f] \in Texts[f]
    /\ \A f \in Files : docs[f] = Closed \/ docs[f] \in Texts[f]

PlausibleWorker(w) == w.state = "alive" => Plausible(w.region.records)
AllPlausible ==
    /\ Plausible(index.records)
    /\ \A b \in Builds : PlausibleWorker(workers[b])
    /\ cache.there => Plausible(cache.records)

\* The server runs one build at most, its own or that of a worker; workers are
\* numbered as they come, and a cache file of a worker bears its number.
Servers == [up : BOOLEAN, building : BOOLEAN, todo : SUBSET Files, both : BOOLEAN,
            dirty : BOOLEAN, running : BOOLEAN, build : Nat]
ServerOK ==
    /\ server \in Servers
    /\ server.building => server.up /\ ~ server.running
    /\ server.running =>
         /\ server.up /\ server.build \in Builds
         /\ workers[server.build] /= NoWorker
Numbered(ws) == \E n \in Nat : \A b \in Builds : ws[b] /= NoWorker <=> b <= n
CacheNumbered(ws, file) ==
    file.there /\ file.build \in Builds => ws[file.build] /= NoWorker

\* Where the index is, or will be, the one that was built in this session.
IndexShows ==
    Serving /\ ~ server.running /\ origin = "built" =>
        Shows(index.records, disk, server.both, {}, notices \cup drafted)
BuildShows ==
    server.building => Shows(index.records, disk, server.both, server.todo, notices)
WorkerShows ==
    server.running /\ workers[server.build].state = "alive" =>
        Shows(workers[server.build].region.records, disk, server.both,
              workers[server.build].todo, notices)
CacheShows ==
    server.running /\ cache.there /\ cache.build = server.build =>
        Shows(cache.records, disk, server.both, {}, notices)

Content ==
    /\ KnownTexts /\ AllPlausible
    /\ ServerOK /\ Numbered(workers) /\ CacheNumbered(workers, cache)
    /\ IndexShows /\ BuildShows /\ WorkerShows /\ CacheShows
Truth == IInv /\ Content

-----------------------------------------------------------------------------
\* SetToSeq leaves nothing out.
LEMMA SetToSeqAll ==
    ASSUME NEW S, IsFiniteSet(S)
    PROVE  \A s \in S : \E i \in 1 .. Len(SetToSeq(S)) : SetToSeq(S)[i] = s
<1>. DEFINE q == SetToSeq(S)
            n == Cardinality(S)
<1>1. q \in [1 .. n -> S] /\ n \in Nat /\ \A i, j \in 1 .. n : q[i] = q[j] => i = j
  BY SetToSeqListed
<1>. HIDE DEF q
<1>2. q \in Injection(1 .. n, S)
  BY <1>1 DEF Injection, IsInjective
<1>3. Cardinality(1 .. n) = n
  BY <1>1, FS_Interval
<1>4. q \in Surjection(1 .. n, S)
  BY <1>2, <1>3, FS_Injection
<1>5. Len(q) = n
  BY <1>1
<1>. QED  BY <1>4, <1>5 DEF Surjection, q

\* If there is room left, nothing was refused but what is in the index already.
LEMMA AcceptedAll ==
    ASSUME NEW r \in Regions, Len(r.records) <= Capacity,
           NEW declared \in SUBSET Symbols,
           Len(r.records) + Len(Accepted(r, declared)) < Capacity
    PROVE  \A s \in declared \ DOMAIN r.keys :
             \E i \in 1 .. Len(Accepted(r, declared)) : Accepted(r, declared)[i] = s
<1>. DEFINE fresh == declared \ DOMAIN r.keys
            all   == SetToSeq(fresh)
            room  == Capacity - Len(r.records)
<1>1. IsFiniteSet(fresh)
  BY SymbolsAssumption, FS_Subset
<1>2. /\ \A s \in fresh : \E i \in 1 .. Len(all) : all[i] = s
      /\ Distinct(all, fresh) /\ Len(all) \in Nat
  <2>1. Distinct(all, fresh)
    BY <1>1, SetToSeqDistinct
  <2>2. \A s \in fresh : \E i \in 1 .. Len(all) : all[i] = s
    BY <1>1, SetToSeqAll
  <2>. HIDE DEF all, fresh
  <2>. QED  BY <2>1, <2>2 DEF Distinct
<1>3. Len(r.records) \in Nat /\ room \in Nat
  BY CapacityAssumption DEF Regions
<1>4. Accepted(r, declared) = IF Len(all) <= room THEN all ELSE SubSeq(all, 1, room)
  BY DEF Accepted
<1>. HIDE DEF all
<1>5. ASSUME ~ (Len(all) <= room) PROVE FALSE
  <2>1. Len(SubSeq(all, 1, room)) = room
    BY <1>2, <1>3, <1>5, DistinctPrefix
  <2>2. Len(Accepted(r, declared)) = room
    BY <1>4, <1>5, <2>1
  <2>. QED  BY <1>3, <2>2, CapacityAssumption
<1>. QED  BY <1>2, <1>4, <1>5 DEF fresh

\* More records, the new ones of a file and its declarations.
Extended(old, new, f, declared) ==
    /\ \A i \in Live(old) : i \in Live(new) /\ new[i] = old[i]
    /\ \A i \in Live(new) :
          \/ i \in Live(old) /\ new[i] = old[i]
          \/ \E s \in declared : new[i] = Record(s, f)
    /\ Len(old) \in Nat /\ Len(new) \in Nat /\ Len(old) <= Len(new)

LEMMA AddedContents ==
    ASSUME NEW r, Good(r), Len(r.records) <= Capacity, NEW f \in Files,
           NEW declared \in SUBSET Symbols,
           NEW new, new = Added(r, f, declared).records
    PROVE  /\ Extended(r.records, new, f, declared)
           /\ Len(new) < Capacity =>
                \A s \in declared : \/ \E j \in Live(r.records) : r.records[j].sym = s
                                    \/ \E i \in Live(new) : new[i] = Record(s, f)
<1>. DEFINE q == Accepted(r, declared)
            start == Len(r.records)
            n == Len(q)
<1>1. /\ r \in Regions /\ r.records \in Seq(Records) /\ r.keys \in KeyMaps
      /\ DOMAIN r.keys = SymbolsOf(r.records, Live(r.records)) /\ start \in Nat
  BY DEF Good, InSync, Regions, KeysMatch
<1>2. Distinct(q, declared \ DOMAIN r.keys) /\ start + n <= Capacity
  BY <1>1, AcceptedDistinct
<1>3. start + n < Capacity => \A s \in declared \ DOMAIN r.keys : \E i \in 1 .. n : q[i] = s
  BY <1>1, AcceptedAll
<1>4. \A s \in DOMAIN r.keys : \E j \in Live(r.records) : r.records[j].sym = s
  BY <1>1 DEF SymbolsOf
<1>5. new = IF q = <<>> THEN r.records ELSE Appended(r.records, q, f)
  BY DEF Added, Appended
<1>. HIDE DEF q
<1>6. /\ q \in Seq(declared) /\ n \in Nat /\ DOMAIN q = 1 .. n
      /\ \A i \in 1 .. n : q[i] \in declared /\ q[i] \in Symbols
  BY <1>2 DEF Distinct
<1>7. CASE q = <<>>
  <2>1. n = 0 /\ new = r.records
    BY <1>5, <1>7
  <2>2. Extended(r.records, new, f, declared)
    BY <1>1, <2>1 DEF Extended
  <2>3. Len(new) < Capacity => \A s \in declared \ DOMAIN r.keys : FALSE
    BY <1>1, <1>3, <2>1
  <2>. QED  BY <1>4, <2>2, <2>3
<1>8. CASE q /= <<>>
  <2>. DEFINE more == [i \in DOMAIN q |-> Record(q[i], f)]
  <2>1. more \in Seq(Records) /\ Len(more) = n /\ \A i \in 1 .. n : more[i] = Record(q[i], f)
    BY <1>6, RecordIsLive
  <2>2. new = r.records \o more
    BY <1>5, <1>8 DEF Appended
  <2>. HIDE DEF more
  <2>3. Chained(Records, r.records, more, new)
    BY <1>1, <2>1, <2>2, Concatenated
  <2>. HIDE DEF n
  <2>4. /\ Len(new) = start + n /\ DOMAIN new = 1 .. start + n /\ DOMAIN r.records = 1 .. start
        /\ \A k \in 1 .. start : new[k] = r.records[k]
        /\ \A i \in 1 .. n : new[start + i] = Record(q[i], f)
    BY <1>1, <2>1, <2>3 DEF Chained
  <2>. HIDE DEF start
  <2>5. \A i \in Live(r.records) : i \in Live(new) /\ new[i] = r.records[i]
    BY <1>1, <1>6, <2>4 DEF Live
  <2>6. ASSUME NEW i \in Live(new)
        PROVE  \/ i \in Live(r.records) /\ new[i] = r.records[i]
               \/ \E s \in declared : new[i] = Record(s, f)
    <3>1. i \in 1 .. start + n /\ new[i] /= Tombstone
      BY <2>4 DEF Live
    <3>2. CASE i <= start
      BY <1>1, <2>4, <3>1, <3>2 DEF Live
    <3>3. CASE ~ (i <= start)
      <4>1. i - start \in 1 .. n /\ i = start + (i - start)
        BY <1>1, <1>6, <3>1, <3>3
      <4>2. new[i] = Record(q[i - start], f) /\ q[i - start] \in declared
        BY <1>6, <2>4, <4>1
      <4>. QED  BY <4>2
    <3>. QED  BY <3>2, <3>3
  <2>7. \A i \in 1 .. n : start + i \in Live(new)
    <3>1. \A i \in 1 .. n : start + i \in 1 .. start + n
      BY <1>1, <1>6
    <3>2. \A i \in 1 .. n : Record(q[i], f) /= Tombstone
      BY <1>6, RecordIsLive
    <3>. QED  BY <2>4, <3>1, <3>2 DEF Live
  <2>8. ASSUME Len(new) < Capacity, NEW s \in declared
        PROVE  \/ \E j \in Live(r.records) : r.records[j].sym = s
               \/ \E i \in Live(new) : new[i] = Record(s, f)
    <3>1. CASE s \in DOMAIN r.keys
      BY <1>4, <3>1
    <3>2. CASE s \notin DOMAIN r.keys
      <4>1. PICK i \in 1 .. n : q[i] = s
        BY <1>3, <2>4, <2>8, <3>2
      <4>. QED  BY <2>4, <2>7, <4>1
    <3>. QED  BY <3>1, <3>2
  <2>9. Extended(r.records, new, f, declared)
    BY <1>1, <1>6, <2>4, <2>5, <2>6 DEF Extended, start
  <2>. QED  BY <2>8, <2>9
<1>. QED  BY <1>7, <1>8

LEMMA RemovedContents ==
    ASSUME NEW r, Good(r), NEW f \in Files, NEW new, new = Removed(r, f).records
    PROVE  /\ Len(new) = Len(r.records)
           /\ \A i : i \in Live(new) <=> i \in Live(r.records) /\ r.records[i].path /= f
           /\ \A i \in Live(new) : new[i] = r.records[i]
<1>. DEFINE e    == Ensured(r)
            gone == {i \in e.table.entries \ e.table.deleted : e.records[i].path = f}
<1>1. Good(e) /\ e.records = r.records /\ e.table.valid
  BY EnsuredGood
<1>2. new = [i \in DOMAIN e.records |-> IF i \in gone THEN Tombstone ELSE e.records[i]]
  BY DEF Removed
<1>. HIDE DEF e
<1>3. /\ e.records \in Seq(Records)
      /\ e.table.entries \ e.table.deleted = Live(e.records)
  BY <1>1 DEF Good, InSync, TableMatches, Regions
<1>4. gone = {i \in Live(e.records) : e.records[i].path = f}
  BY <1>3
<1>. HIDE DEF gone
<1>5. DOMAIN new = DOMAIN e.records /\ Len(new) = Len(e.records)
  BY <1>2, <1>3
<1>6. \A i \in DOMAIN new : new[i] = IF i \in gone THEN Tombstone ELSE e.records[i]
  BY <1>2
<1>. QED  BY <1>1, <1>4, <1>5, <1>6 DEF Live

-----------------------------------------------------------------------------
(* What the operations of the arena do to what it says of the files.       *)

\* Scanning a file leaves what is said of another one.
LEMMA OtherKept ==
    ASSUME NEW old, NEW new, NEW f, NEW declared, Extended(old, new, f, declared),
           NEW g, g /= f, NEW text
    PROVE  /\ Unmentioned(old, g) => Unmentioned(new, g)
           /\ Faithful(old, g, text) => Faithful(new, g, text)
           /\ Covered(old, g, text) => Covered(new, g, text)
<1>1. \A s : Record(s, f).path = f
  BY DEF Record
<1>2. \A i \in Live(new) : new[i].path = g => i \in Live(old) /\ new[i] = old[i]
  BY <1>1 DEF Extended
<1>3. Unmentioned(old, g) => Unmentioned(new, g)
  BY <1>2 DEF Unmentioned
<1>4. Faithful(old, g, text) => Faithful(new, g, text)
  BY <1>2 DEF Faithful
<1>5. Covered(old, g, text) => Covered(new, g, text)
  <2>1. Len(new) < Capacity => Len(old) < Capacity
    BY CapacityAssumption DEF Extended
  <2>. QED  BY <2>1 DEF Covered, Extended
<1>. QED  BY <1>3, <1>4, <1>5

\* A file that was not in the index is there, with its text, once it is scanned.
LEMMA ScannedShown ==
    ASSUME NEW r, Good(r), Len(r.records) <= Capacity, Plausible(r.records),
           NEW f \in Files, NEW text \in Texts[f], Unmentioned(r.records, f),
           NEW new, new = Added(r, f, text).records
    PROVE  Faithful(new, f, text) /\ Covered(new, f, text)
<1>1. text \in SUBSET Symbols /\ r.records \in Seq(Records)
  BY TextsAssumption DEF Good, Regions
<1>2. /\ Extended(r.records, new, f, text)
      /\ Len(new) < Capacity =>
           \A s \in text : \/ \E j \in Live(r.records) : r.records[j].sym = s
                           \/ \E i \in Live(new) : new[i] = Record(s, f)
  BY <1>1, AddedContents
<1>3. Faithful(new, f, text)
  <2>1. \A s : Record(s, f).sym = s
    BY DEF Record
  <2>. QED  BY <1>2, <2>1 DEF Faithful, Extended, Unmentioned
<1>4. Covered(new, f, text)
  <2>1. ASSUME NEW s \in text, Private(s),
               NEW j \in Live(r.records), r.records[j].sym = s
        PROVE  FALSE
    <3>1. r.records[j] \in [sym : Symbols, path : Files]
      BY <1>1 DEF Live, Records
    <3>2. r.records[j].path \in Files /\ Declarable(r.records[j].path, s)
      BY <2>1, <3>1 DEF Plausible
    <3>3. r.records[j].path = f
      BY <2>1, <3>2 DEF Private, Declarable
    <3>. QED  BY <3>3 DEF Unmentioned
  <2>. QED  BY <1>2, <2>1 DEF Covered
<1>. QED  BY <1>3, <1>4

LEMMA PlausibleAdded ==
    ASSUME NEW r, Good(r), Len(r.records) <= Capacity, Plausible(r.records),
           NEW f \in Files, NEW text \in Texts[f]
    PROVE  Plausible(Added(r, f, text).records)
<1>. DEFINE new == Added(r, f, text).records
<1>1. text \in SUBSET Symbols
  BY TextsAssumption
<1>2. Extended(r.records, new, f, text)
  BY <1>1, AddedContents
<1>3. \A s \in text : Declarable(Record(s, f).path, Record(s, f).sym)
  BY DEF Declarable, Record
<1>. HIDE DEF new
<1>4. Plausible(new)
  BY <1>2, <1>3 DEF Extended, Plausible
<1>. QED  BY <1>4 DEF new

\* A build that goes on with one of the files it has to scan.
LEMMA ShowsScanned ==
    ASSUME NEW r, Good(r), Len(r.records) <= Capacity, Plausible(r.records),
           NEW texts, NEW f \in Files, texts[f] \in Texts[f],
           NEW both, NEW todo, f \in todo, NEW late,
           Shows(r.records, texts, both, todo, late)
    PROVE  Shows(Added(r, f, texts[f]).records, texts, both, todo \ {f}, late)
<1>. DEFINE new == Added(r, f, texts[f]).records
<1>1. texts[f] \in SUBSET Symbols
  BY TextsAssumption
<1>2. Extended(r.records, new, f, texts[f])
  BY <1>1, AddedContents
<1>. SUFFICES ASSUME NEW g \in Scope(both)
              PROVE  Shown(new, g, texts[g], todo \ {f}, late)
  BY DEF Shows
<1>3. Shown(r.records, g, texts[g], todo, late)
  BY DEF Shows
<1>4. CASE g = f
  <2>1. Unmentioned(r.records, f)
    BY <1>3, <1>4 DEF Shown
  <2>2. Faithful(new, f, texts[f]) /\ Covered(new, f, texts[f])
    BY <2>1, ScannedShown
  <2>. QED  BY <1>4, <2>2 DEF Shown
<1>5. CASE g /= f
  <2>. HIDE DEF new
  <2>. QED  BY <1>2, <1>3, <1>5, OtherKept DEF Shown
<1>. QED  BY <1>4, <1>5

\* A file that is scanned again.
LEMMA ShowsRefreshed ==
    ASSUME NEW r, Good(r), Len(r.records) <= Capacity, Plausible(r.records),
           NEW texts, NEW f \in Files, NEW text \in Texts[f], NEW both, NEW late,
           NEW new, new = Added(Removed(r, f), f, text).records
    PROVE  /\ Plausible(new)
           /\ Shows(r.records, texts, both, {}, late) =>
                Shows(new, texts, both, {},
                      IF text = texts[f] THEN late \ {f} ELSE late \cup {f})
<1>. DEFINE e == Removed(r, f)
            mid == e.records
            fewer == IF text = texts[f] THEN late \ {f} ELSE late \cup {f}
<1>1. Good(e) /\ Len(mid) = Len(r.records)
  BY RemovedGood
<1>2. /\ \A i : i \in Live(mid) <=> i \in Live(r.records) /\ r.records[i].path /= f
      /\ \A i \in Live(mid) : mid[i] = r.records[i]
  BY RemovedContents
<1>. HIDE DEF e, mid
<1>3. Plausible(mid) /\ Unmentioned(mid, f)
  BY <1>2 DEF Plausible, Unmentioned
<1>4. text \in SUBSET Symbols /\ Len(mid) <= Capacity
  BY <1>1, TextsAssumption
<1>5. Plausible(new)
  BY <1>1, <1>3, <1>4, PlausibleAdded DEF e, mid
<1>6. Faithful(new, f, text) /\ Covered(new, f, text)
  BY <1>1, <1>3, <1>4, ScannedShown DEF e, mid
<1>7. Extended(mid, new, f, text)
  BY <1>1, <1>4, AddedContents DEF e, mid
<1>8. ASSUME NEW g \in Scope(both), g /= f,
             Shown(r.records, g, texts[g], {}, late)
      PROVE  Shown(new, g, texts[g], {}, fewer)
  <2>1. Faithful(r.records, g, texts[g]) => Faithful(mid, g, texts[g])
    BY <1>2 DEF Faithful
  <2>2. Covered(r.records, g, texts[g]) => Covered(mid, g, texts[g])
    <3>1. \A s : Record(s, g).path = g
      BY DEF Record
    <3>. QED  BY <1>1, <1>2, <1>8, <3>1 DEF Covered
  <2>3. g \in late <=> g \in fewer
    BY <1>8
  <2>. HIDE DEF fewer
  <2>. QED  BY <1>7, <1>8, <2>1, <2>2, <2>3, OtherKept DEF Shown
<1>9. Shown(new, f, texts[f], {}, fewer)
  BY <1>6 DEF Shown
<1>. QED  BY <1>5, <1>8, <1>9 DEF Shows

\* Texts may change of files that are out of scope or reported.
LEMMA ShowsEdited ==
    ASSUME NEW records, NEW texts, NEW both, NEW todo, NEW late,
           Shows(records, texts, both, todo, late),
           NEW later, NEW edited, late \subseteq later,
           \A g \in Scope(both) : g \in later \/ edited[g] = texts[g]
    PROVE  Shows(records, edited, both, todo, later)
<1>. SUFFICES ASSUME NEW g \in Scope(both)
              PROVE  Shown(records, g, edited[g], todo, later)
  BY DEF Shows
<1>. QED  BY DEF Shows, Shown

\* Nothing is said by the empty arena.
LEMMA ShowsNothing ==
    ASSUME NEW texts, NEW both, NEW late
    PROVE  /\ Shows(EmptyRegion.records, texts, both, Scope(both), late)
           /\ Plausible(EmptyRegion.records)
<1>1. Live(EmptyRegion.records) = {}
  BY DEF Live, EmptyRegion
<1>. QED  BY <1>1 DEF Shows, Shown, Unmentioned, Plausible

-----------------------------------------------------------------------------
(* The numbers of the workers.                                             *)

LEMMA Workers ==
    /\ NoWorker.state = "none" /\ Ended.state = "ended" /\ Ended /= NoWorker
    /\ \A both, todo, region :
         /\ Working(both, todo, region) /= NoWorker
         /\ Working(both, todo, region).state = "alive"
         /\ Working(both, todo, region).both = both
         /\ Working(both, todo, region).todo = todo
         /\ Working(both, todo, region).region = region
<1>1. NoWorker.state = "none" /\ Ended.state = "ended"
  BY DEF NoWorker, Ended
<1>2. \A both, todo, region :
         /\ Working(both, todo, region).state = "alive"
         /\ Working(both, todo, region).both = both
         /\ Working(both, todo, region).todo = todo
         /\ Working(both, todo, region).region = region
  BY DEF Working
<1>. QED  BY <1>1, <1>2

\* The next number has not been given to anybody.
LEMMA Fresh ==
    ASSUME Numbered(workers), NextBuild \in Builds
    PROVE  \A b \in Builds : workers[b] /= NoWorker <=> b < NextBuild
<1>1. PICK n \in Nat : \A b \in Builds : workers[b] /= NoWorker <=> b <= n
  BY DEF Numbered
<1>2. MaxBuilds \in Nat
  BY BoundsAssumption
<1>. DEFINE m == IF n <= MaxBuilds THEN n ELSE MaxBuilds
<1>3. m \in Nat /\ {b \in Builds : workers[b] /= NoWorker} = 1 .. m
  BY <1>1, <1>2 DEF Builds
<1>4. Cardinality(1 .. m) = m
  BY <1>3, FS_Interval
<1>5. NextBuild = m + 1
  BY <1>3, <1>4 DEF NextBuild
<1>6. m = n
  BY <1>2, <1>5 DEF Builds
<1>. QED  BY <1>1, <1>5, <1>6 DEF Builds

LEMMA NumberedKept ==
    ASSUME NEW ws, NEW vs, Numbered(ws),
           \A b \in Builds : vs[b] = NoWorker <=> ws[b] = NoWorker
    PROVE  /\ Numbered(vs)
           /\ \A file : CacheNumbered(ws, file) => CacheNumbered(vs, file)
  BY DEF Numbered, CacheNumbered

\* A worker that ends, and what stopping one leaves.
LEMMA EndedKept ==
    ASSUME DOMAIN workers = Builds, NEW b \in Builds, workers[b] /= NoWorker,
           AllPlausible, NEW ws, ws = [workers EXCEPT ![b] = Ended]
    PROVE  /\ DOMAIN ws = Builds
           /\ \A c \in Builds : ws[c] = NoWorker <=> workers[c] = NoWorker
           /\ \A c \in Builds : PlausibleWorker(ws[c])
           /\ \A c \in Builds : ws[c].state = "alive" => ws[c] = workers[c]
<1>1. \A c \in Builds : ws[c] = IF c = b THEN Ended ELSE workers[c]
  OBVIOUS
<1>. QED  BY <1>1, Workers DEF AllPlausible, PlausibleWorker

LEMMA StoppedKept ==
    ASSUME DOMAIN workers = Builds, ServerOK, AllPlausible
    PROVE  /\ DOMAIN Stopped = Builds
           /\ \A c \in Builds : Stopped[c] = NoWorker <=> workers[c] = NoWorker
           /\ \A c \in Builds : PlausibleWorker(Stopped[c])
<1>1. CASE server.running
  <2>1. Stopped = [workers EXCEPT ![server.build] = Ended]
    BY <1>1 DEF Stopped
  <2>. QED  BY <1>1, <2>1, EndedKept DEF ServerOK
<1>2. CASE ~ server.running
  BY <1>2 DEF Stopped, AllPlausible
<1>. QED  BY <1>1, <1>2

-----------------------------------------------------------------------------
(* The steps.                                                              *)

LEMMA InitContent == Init => Content
<1>. SUFFICES ASSUME Init PROVE Content
  OBVIOUS
<1>1. KnownTexts
  BY DEF Init, KnownTexts, AllClosed
<1>2. AllPlausible
  <2>1. \A b \in Builds : workers[b].state = "none"
    BY Workers DEF Init
  <2>2. Plausible(index.records)
    BY ShowsNothing DEF Init
  <2>3. ~ cache.there
    BY DEF Init, NoCache
  <2>. QED  BY <2>1, <2>2, <2>3 DEF AllPlausible, PlausibleWorker
<1>3. ServerOK /\ ~ server.up /\ ~ server.running /\ ~ server.building
  BY DEF Init, ServerOK, NoServer, Servers, NoBuild
<1>4. Numbered(workers) /\ CacheNumbered(workers, cache)
  <2>1. \A b \in Builds : workers[b] = NoWorker /\ ~ (b <= 0)
    BY BoundsAssumption DEF Init, Builds
  <2>2. ~ cache.there
    BY DEF Init, NoCache
  <2>. QED  BY <2>1, <2>2 DEF Numbered, CacheNumbered
<1>. QED
  BY <1>1, <1>2, <1>3, <1>4
     DEF Content, IndexShows, BuildShows, WorkerShows, CacheShows, Serving

\* The environment: what changes on disk is reported, or out of scope.
LEMMA DiskContent ==
    ASSUME Truth, NEW f \in Files, DiskChanges(f) \/ EditorSaves(f)
    PROVE  Content'
<1>1. PICK t \in Texts[f] : disk' = [disk EXCEPT ![f] = t]
  BY DEF DiskChanges, EditorSaves, Truth, Content, KnownTexts
<1>2. UNCHANGED <<docs, server, index, workers, cache, origin, drafted>>
  BY DEF DiskChanges, EditorSaves
<1>3. /\ notices \subseteq notices'
      /\ server.up => f \in notices' \/ f \notin Scope(server.both)
  BY DEF DiskChanges, EditorSaves
<1>4. disk \in [Files -> SUBSET Symbols]
  BY DEF Truth, IInv, TextsOK
<1>5. KnownTexts'
  BY <1>1, <1>2, <1>4 DEF Truth, Content, KnownTexts
<1>6. Scope(server.both) \subseteq Files
  BY FilesAssumption DEF Scope
<1>7. server.up => \A g \in Scope(server.both) : g \in notices' \/ disk'[g] = disk[g]
  BY <1>1, <1>3, <1>4, <1>6
<1>8. /\ AllPlausible' /\ ServerOK' /\ Numbered(workers)' /\ CacheNumbered(workers, cache)'
  BY <1>2 DEF Truth, Content, AllPlausible, ServerOK
<1>9. IndexShows'
  <2>. SUFFICES ASSUME Serving, ~ server.running, origin = "built"
                PROVE  Shows(index.records, disk', server.both, {}, notices' \cup drafted)
    BY <1>2 DEF IndexShows, Serving
  <2>1. Shows(index.records, disk, server.both, {}, notices \cup drafted)
    BY DEF Truth, Content, IndexShows
  <2>2. notices \cup drafted \subseteq notices' \cup drafted
    BY <1>3
  <2>3. \A g \in Scope(server.both) : g \in notices' \cup drafted \/ disk'[g] = disk[g]
    BY <1>7 DEF Serving
  <2>. QED  BY <2>1, <2>2, <2>3, ShowsEdited
<1>10. BuildShows'
  <2>. SUFFICES ASSUME server.building
                PROVE  Shows(index.records, disk', server.both, server.todo, notices')
    BY <1>2 DEF BuildShows
  <2>1. Shows(index.records, disk, server.both, server.todo, notices) /\ server.up
    BY DEF Truth, Content, BuildShows, ServerOK
  <2>. QED  BY <1>3, <1>7, <2>1, ShowsEdited
<1>11. WorkerShows'
  <2>. DEFINE w == workers[server.build]
  <2>. SUFFICES ASSUME server.running, w.state = "alive"
                PROVE  Shows(w.region.records, disk', server.both, w.todo, notices')
    BY <1>2 DEF WorkerShows
  <2>1. Shows(w.region.records, disk, server.both, w.todo, notices) /\ server.up
    BY DEF Truth, Content, WorkerShows, ServerOK
  <2>. QED  BY <1>3, <1>7, <2>1, ShowsEdited
<1>12. CacheShows'
  <2>. SUFFICES ASSUME server.running, cache.there, cache.build = server.build
                PROVE  Shows(cache.records, disk', server.both, {}, notices')
    BY <1>2 DEF CacheShows
  <2>1. Shows(cache.records, disk, server.both, {}, notices) /\ server.up
    BY DEF Truth, Content, CacheShows, ServerOK
  <2>. QED  BY <1>3, <1>7, <2>1, ShowsEdited
<1>. QED  BY <1>5, <1>8, <1>9, <1>10, <1>11, <1>12 DEF Content

\* Documents change, and nothing else.
LEMMA DocumentContent ==
    ASSUME Truth, NEW f \in Files, DidOpen(f) \/ DidChange(f) \/ DidClose(f)
    PROVE  Content'
<1>1. UNCHANGED <<disk, notices, server, index, workers, cache, origin, drafted>>
  BY DEF DidOpen, DidChange, DidClose
<1>2. PICK t \in Texts[f] \cup {Closed} : docs' = [docs EXCEPT ![f] = t]
  BY DEF DidOpen, DidChange, DidClose, Truth, Content, KnownTexts
<1>3. KnownTexts'
  BY <1>1, <1>2 DEF Truth, Content, KnownTexts, IInv, TextsOK
<1>. QED
  BY <1>1, <1>3 DEF Truth, Content, AllPlausible, ServerOK, IndexShows, BuildShows,
                    WorkerShows, CacheShows, Serving

LEMMA BuildContent ==
    ASSUME Truth, ~ server.building, NEW both \in BOOLEAN, NEW old, Plausible(old.records),
           NEW ws, DOMAIN ws = Builds,
           \A c \in Builds : ws[c] = NoWorker <=> workers[c] = NoWorker,
           \A c \in Builds : PlausibleWorker(ws[c]),
           Build(both, old, ws), UNCHANGED <<disk, docs, notices, cache, drafted>>
    PROVE  Content'
<1>1. server \in Servers /\ Scope(both) \subseteq Files
  BY FilesAssumption DEF Truth, Content, ServerOK, Scope
<1>2. KnownTexts'
  BY DEF Truth, Content, KnownTexts
<1>3. Numbered(ws) /\ CacheNumbered(ws, cache)
  BY NumberedKept DEF Truth, Content
<1>4. cache.there => Plausible(cache.records)
  BY DEF Truth, Content, AllPlausible
<1>5. CASE /\ Verified(both) /\ index' = Loaded(cache.records)
           /\ server' = [server EXCEPT !.up = TRUE, !.both = both, !.running = FALSE]
           /\ origin' = "cache" /\ workers' = ws
  <2>1. server' \in Servers /\ ~ server'.running /\ ~ server'.building
    BY <1>1, <1>5 DEF Servers
  <2>2. index'.records = cache.records /\ cache.there
    BY <1>5 DEF Loaded, Verified, Loadable
  <2>3. AllPlausible'
    BY <1>4, <1>5, <2>2 DEF AllPlausible
  <2>4. ServerOK' /\ BuildShows' /\ WorkerShows' /\ CacheShows'
    BY <2>1 DEF ServerOK, BuildShows, WorkerShows, CacheShows
  <2>5. IndexShows'
    BY <1>5 DEF IndexShows
  <2>. QED  BY <1>2, <1>3, <1>5, <2>3, <2>4, <2>5 DEF Content
<1>6. CASE /\ NextBuild \in Builds /\ index' = old
           /\ server' = [server EXCEPT !.up = TRUE, !.both = both, !.running = TRUE,
                                       !.build = NextBuild]
           /\ workers' = [ws EXCEPT ![NextBuild] = NewWorker(both)]
  <2>. DEFINE b == NextBuild
              w == NewWorker(both)
  <2>1. b \in Nat /\ \A c \in Builds : ws[c] /= NoWorker <=> c < b
    BY <1>6, Fresh DEF Truth, Content, Builds
  <2>2. /\ w /= NoWorker /\ w.todo = Scope(both) /\ w.region = EmptyRegion
    BY Workers DEF NewWorker
  <2>. HIDE DEF b, w
  <2>3. /\ server' \in Servers /\ server'.running /\ server'.up /\ ~ server'.building
        /\ server'.build = b /\ server'.both = both
    BY <1>1, <1>6, <2>1 DEF Servers, b
  <2>4. workers'[b] = w /\ \A c \in Builds \ {b} : workers'[c] = ws[c]
    BY <1>6 DEF b, w
  <2>5. Numbered(workers')
    <3>1. \A c \in Builds : workers'[c] /= NoWorker <=> c <= b
      BY <2>1, <2>2, <2>4 DEF Builds
    <3>. QED  BY <2>1, <3>1 DEF Numbered
  <2>6. CacheNumbered(workers', cache')
    BY <1>3, <2>2, <2>4 DEF CacheNumbered
  <2>7. AllPlausible'
    <3>1. PlausibleWorker(w)
      BY <2>2, ShowsNothing DEF PlausibleWorker
    <3>. QED  BY <1>4, <1>6, <2>4, <3>1 DEF AllPlausible
  <2>8. ServerOK'
    BY <1>6, <2>2, <2>3, <2>4 DEF ServerOK, b
  <2>9. WorkerShows'
    BY <2>2, <2>3, <2>4, ShowsNothing DEF WorkerShows
  <2>10. CacheShows'
    <3>1. ~ (cache.there /\ cache.build = b)
      BY <1>3, <1>6, <2>1 DEF CacheNumbered, b
    <3>. QED  BY <2>3, <3>1 DEF CacheShows
  <2>11. IndexShows' /\ BuildShows'
    BY <2>3 DEF IndexShows, BuildShows
  <2>. QED  BY <1>2, <2>5, <2>6, <2>7, <2>8, <2>9, <2>10, <2>11 DEF Content
<1>7. CASE /\ index' = EmptyRegion
           /\ server' = [server EXCEPT !.up = TRUE, !.both = both, !.running = FALSE,
                                       !.building = TRUE, !.todo = Scope(both)]
           /\ workers' = ws
  <2>1. /\ server' \in Servers /\ ~ server'.running /\ server'.building /\ server'.up
        /\ server'.both = both /\ server'.todo = Scope(both)
    BY <1>1, <1>7 DEF Servers
  <2>2. AllPlausible'
    BY <1>4, <1>7, ShowsNothing DEF AllPlausible
  <2>3. ServerOK' /\ WorkerShows' /\ CacheShows' /\ IndexShows'
    BY <2>1 DEF ServerOK, WorkerShows, CacheShows, IndexShows, Serving
  <2>4. BuildShows'
    BY <1>7, <2>1, ShowsNothing DEF BuildShows
  <2>. QED  BY <1>2, <1>3, <1>7, <2>2, <2>3, <2>4 DEF Content
<1>. QED  BY <1>5, <1>6, <1>7 DEF Build

LEMMA InitializeContent ==
    ASSUME Truth, NEW both \in BOOLEAN, Initialize(both) PROVE Content'
<1>1. Build(both, EmptyRegion, workers) /\ UNCHANGED <<disk, docs, notices, cache, drafted>>
      /\ ~ server.building
  BY DEF Initialize, Truth, Content, ServerOK
<1>2. DOMAIN workers = Builds /\ \A c \in Builds : PlausibleWorker(workers[c])
  BY DEF Truth, Content, IInv, WorkersOK, AllPlausible
<1>. QED  BY <1>1, <1>2, BuildContent, ShowsNothing

LEMMA ChangeFoldersContent == ASSUME Truth, ChangeFolders PROVE Content'
<1>1. Build(~ server.both, index, Stopped) /\ UNCHANGED <<disk, docs, notices, cache, drafted>>
      /\ ~ server.building
  BY DEF ChangeFolders, Serving
<1>2. DOMAIN workers = Builds /\ ServerOK /\ AllPlausible /\ Plausible(index.records)
  BY DEF Truth, Content, IInv, WorkersOK, AllPlausible
<1>3. (~ server.both) \in BOOLEAN
  OBVIOUS
<1>4. /\ DOMAIN Stopped = Builds
      /\ \A c \in Builds : Stopped[c] = NoWorker <=> workers[c] = NoWorker
      /\ \A c \in Builds : PlausibleWorker(Stopped[c])
  BY <1>2, StoppedKept
<1>. QED  BY <1>1, <1>2, <1>3, <1>4, BuildContent

-----------------------------------------------------------------------------
\* A worker goes on.
LEMMA WorkerScansContent ==
    ASSUME Truth, NEW b \in Builds, NEW f \in Files, WorkerScans(b, f) PROVE Content'
<1>. DEFINE w    == workers[b]
            next == Working(w.both, w.todo \ {f}, Added(w.region, f, disk[f]))
<1>1. /\ w.state = "alive" /\ f \in w.todo /\ workers' = [workers EXCEPT ![b] = next]
      /\ UNCHANGED <<disk, docs, notices, server, index, cache, origin, drafted>>
  BY DEF WorkerScans
<1>2. /\ Good(w.region) /\ Len(w.region.records) <= Capacity /\ Plausible(w.region.records)
      /\ disk[f] \in Texts[f] /\ DOMAIN workers = Builds /\ w /= NoWorker
  BY <1>1, Workers DEF Truth, Content, IInv, WorkersOK, WorkerOK, Fits, AllPlausible,
                       PlausibleWorker, KnownTexts
<1>3. /\ next.state = "alive" /\ next.todo = w.todo \ {f} /\ next /= NoWorker
      /\ next.region = Added(w.region, f, disk[f])
  BY Workers
<1>4. Plausible(next.region.records)
  BY <1>2, <1>3, PlausibleAdded
<1>. HIDE DEF next
<1>5. workers'[b] = next /\ \A c \in Builds \ {b} : workers'[c] = workers[c]
  BY <1>1, <1>2
<1>6. KnownTexts' /\ IndexShows' /\ BuildShows' /\ CacheShows'
  BY <1>1 DEF Truth, Content, KnownTexts, IndexShows, BuildShows, CacheShows, Serving
<1>7. AllPlausible'
  BY <1>1, <1>4, <1>5 DEF Truth, Content, AllPlausible, PlausibleWorker
<1>8. Numbered(workers') /\ CacheNumbered(workers', cache')
  BY <1>1, <1>2, <1>3, <1>5, NumberedKept DEF Truth, Content
<1>9. ServerOK'
  BY <1>1, <1>3, <1>5 DEF Truth, Content, ServerOK
<1>10. WorkerShows'
  <2>. SUFFICES ASSUME server.running, workers'[server.build].state = "alive"
                PROVE  Shows(workers'[server.build].region.records, disk, server.both,
                             workers'[server.build].todo, notices)
    BY <1>1 DEF WorkerShows
  <2>1. server.build \in Builds
    BY DEF Truth, Content, ServerOK
  <2>2. CASE server.build = b
    <3>1. Shows(w.region.records, disk, server.both, w.todo, notices)
      BY <1>1, <2>2 DEF Truth, Content, WorkerShows
    <3>2. Shows(next.region.records, disk, server.both, next.todo, notices)
      <4>1. Shows(Added(w.region, f, disk[f]).records, disk, server.both, w.todo \ {f},
                  notices)
        <5>. HIDE DEF w
        <5>. QED  BY <1>1, <1>2, <3>1, ShowsScanned
      <4>. QED  BY <1>3, <4>1
    <3>. QED  BY <1>5, <2>2, <3>2
  <2>3. CASE server.build /= b
    BY <1>5, <2>1, <2>3 DEF Truth, Content, WorkerShows
  <2>. QED  BY <2>2, <2>3
<1>. QED  BY <1>6, <1>7, <1>8, <1>9, <1>10 DEF Content

\* A worker ends, with a cache file or without.
LEMMA WorkerEndsContent ==
    ASSUME Truth, NEW b \in Builds, WorkerSaves(b) \/ WorkerDies(b) PROVE Content'
<1>1. /\ workers[b].state = "alive" /\ workers' = [workers EXCEPT ![b] = Ended]
      /\ UNCHANGED <<disk, docs, notices, server, index, origin, drafted>>
  BY DEF WorkerSaves, WorkerDies
<1>2. DOMAIN workers = Builds /\ workers[b] /= NoWorker /\ AllPlausible
  BY <1>1, Workers DEF Truth, Content, IInv, WorkersOK
<1>3. /\ \A c \in Builds : workers'[c] = NoWorker <=> workers[c] = NoWorker
      /\ \A c \in Builds : PlausibleWorker(workers'[c])
      /\ \A c \in Builds : workers'[c].state = "alive" => workers'[c] = workers[c]
  <2>. DEFINE ws == [workers EXCEPT ![b] = Ended]
  <2>1. /\ \A c \in Builds : ws[c] = NoWorker <=> workers[c] = NoWorker
        /\ \A c \in Builds : PlausibleWorker(ws[c])
        /\ \A c \in Builds : ws[c].state = "alive" => ws[c] = workers[c]
    <3>. HIDE DEF ws
    <3>1. ws = [workers EXCEPT ![b] = Ended]
      BY DEF ws
    <3>. QED  BY <1>2, <3>1, EndedKept
  <2>. HIDE DEF ws
  <2>2. workers' = ws
    BY <1>1 DEF ws
  <2>. QED  BY <2>1, <2>2
<1>4. KnownTexts' /\ IndexShows' /\ BuildShows'
  BY <1>1 DEF Truth, Content, KnownTexts, IndexShows, BuildShows, Serving
<1>5. ServerOK'
  BY <1>1, <1>3 DEF Truth, Content, ServerOK
<1>6. WorkerShows'
  <2>. SUFFICES ASSUME server.running, workers'[server.build].state = "alive"
                PROVE  Shows(workers'[server.build].region.records, disk, server.both,
                             workers'[server.build].todo, notices)
    BY <1>1 DEF WorkerShows
  <2>1. workers'[server.build] = workers[server.build]
    BY <1>3 DEF Truth, Content, ServerOK
  <2>. QED  BY <2>1 DEF Truth, Content, WorkerShows
<1>7. Numbered(workers') /\ CacheNumbered(workers', cache)
  BY <1>3, NumberedKept DEF Truth, Content
<1>8. CASE cache' = cache
  <2>1. AllPlausible' /\ CacheShows'
    BY <1>1, <1>3, <1>8 DEF Truth, Content, AllPlausible, CacheShows
  <2>. QED  BY <1>4, <1>5, <1>6, <1>7, <1>8, <2>1 DEF Content
<1>9. CASE /\ workers[b].todo = {}
           /\ cache' = CacheFile(workers[b].both, workers[b].region.records, b)
  <2>1. cache'.records = workers[b].region.records /\ cache'.build = b
    BY <1>9 DEF CacheFile
  <2>2. Plausible(workers[b].region.records)
    BY <1>1, <1>2 DEF AllPlausible, PlausibleWorker
  <2>3. AllPlausible'
    BY <1>1, <1>2, <1>3, <2>1, <2>2 DEF AllPlausible
  <2>4. CacheNumbered(workers', cache')
    BY <1>2, <1>3, <2>1 DEF CacheNumbered
  <2>5. CacheShows'
    BY <1>1, <1>9, <2>1 DEF Truth, Content, WorkerShows, CacheShows
  <2>. QED  BY <1>4, <1>5, <1>6, <1>7, <2>3, <2>4, <2>5 DEF Content
<1>. QED  BY <1>8, <1>9 DEF WorkerSaves, WorkerDies

-----------------------------------------------------------------------------
\* The server takes over what a worker has built, or builds by itself.
LEMMA JoinContent == ASSUME Truth, Join PROVE Content'
<1>1. /\ Serving /\ server.running /\ server \in Servers
      /\ UNCHANGED <<disk, docs, notices, workers, cache>>
  BY DEF Join, Truth, Content, ServerOK
<1>2. KnownTexts' /\ Numbered(workers)' /\ CacheNumbered(workers, cache)'
  BY <1>1 DEF Truth, Content, KnownTexts
<1>3. CASE /\ Loadable /\ index' = Loaded(cache.records) /\ drafted' = {}
           /\ server' = [server EXCEPT !.running = FALSE]
           /\ origin' = IF cache.build = server.build THEN "built" ELSE "leftover"
  <2>1. /\ server' \in Servers /\ ~ server'.running /\ ~ server'.building
        /\ server'.both = server.both
    BY <1>1, <1>3 DEF Servers, Serving
  <2>2. index'.records = cache.records /\ cache.there
    BY <1>3 DEF Loaded, Loadable
  <2>3. AllPlausible'
    BY <1>1, <2>2 DEF Truth, Content, AllPlausible
  <2>4. ServerOK' /\ BuildShows' /\ WorkerShows' /\ CacheShows'
    BY <2>1 DEF ServerOK, BuildShows, WorkerShows, CacheShows
  <2>5. IndexShows'
    <3>1. ASSUME cache.build = server.build
          PROVE  Shows(cache.records, disk, server.both, {}, notices)
      BY <1>1, <2>2, <3>1 DEF Truth, Content, CacheShows
    <3>. QED  BY <1>1, <1>3, <2>1, <2>2, <3>1 DEF IndexShows
  <2>. QED  BY <1>2, <2>3, <2>4, <2>5 DEF Content
<1>4. CASE /\ index' = EmptyRegion
           /\ server' = [server EXCEPT !.running = FALSE, !.building = TRUE,
                                       !.todo = Scope(server.both)]
  <2>0. Scope(server.both) \subseteq Files
    BY FilesAssumption DEF Scope
  <2>1. /\ server' \in Servers /\ ~ server'.running /\ server'.building /\ server'.up
        /\ server'.both = server.both /\ server'.todo = Scope(server.both)
    BY <1>1, <1>4, <2>0 DEF Servers, Serving
  <2>2. AllPlausible'
    BY <1>1, <1>4, ShowsNothing DEF Truth, Content, AllPlausible
  <2>3. ServerOK' /\ IndexShows' /\ WorkerShows' /\ CacheShows'
    BY <2>1 DEF ServerOK, IndexShows, WorkerShows, CacheShows, Serving
  <2>4. BuildShows'
    BY <1>4, <2>1, ShowsNothing DEF BuildShows
  <2>. QED  BY <1>2, <2>2, <2>3, <2>4 DEF Content
<1>. QED  BY <1>3, <1>4 DEF Join

LEMMA BuildScansContent ==
    ASSUME Truth, NEW f \in Files, BuildScans(f) PROVE Content'
<1>1. /\ server.up /\ server.building /\ f \in server.todo
      /\ index' = Added(index, f, disk[f]) /\ server' = [server EXCEPT !.todo = @ \ {f}]
      /\ UNCHANGED <<disk, docs, notices, workers, cache, origin, drafted>>
  BY DEF BuildScans
<1>2. /\ Good(index) /\ Len(index.records) <= Capacity /\ Plausible(index.records)
      /\ disk[f] \in Texts[f] /\ server \in Servers /\ ~ server.running
      /\ Shows(index.records, disk, server.both, server.todo, notices)
  BY <1>1 DEF Truth, Content, IInv, Fits, AllPlausible, KnownTexts, ServerOK, BuildShows
<1>. DEFINE left == server.todo \ {f}
<1>3. left \in SUBSET Files /\ server' = [server EXCEPT !.todo = left]
  BY <1>1, <1>2 DEF Servers
<1>. HIDE DEF left
<1>4. /\ server' \in Servers /\ server'.up /\ server'.building /\ ~ server'.running
      /\ server'.both = server.both /\ server'.todo = left
  BY <1>1, <1>2, <1>3 DEF Servers
<1>5. AllPlausible'
  BY <1>1, <1>2, PlausibleAdded DEF Truth, Content, AllPlausible
<1>6. BuildShows'
  <2>1. Shows(Added(index, f, disk[f]).records, disk, server.both, left, notices)
    BY <1>1, <1>2, ShowsScanned DEF left
  <2>. QED  BY <1>1, <1>4, <2>1 DEF BuildShows
<1>7. ServerOK' /\ IndexShows' /\ WorkerShows' /\ CacheShows'
  BY <1>4 DEF ServerOK, IndexShows, WorkerShows, CacheShows, Serving
<1>8. KnownTexts' /\ Numbered(workers)' /\ CacheNumbered(workers, cache)'
  BY <1>1 DEF Truth, Content, KnownTexts
<1>. QED  BY <1>5, <1>6, <1>7, <1>8 DEF Content

\* A file that the server writes.
LEMMA SavedContent ==
    ASSUME Truth, cache' \in SavedByServer \/ cache' = cache
    PROVE  /\ cache'.there => Plausible(cache'.records)
           /\ CacheNumbered(workers, cache')
<1>1. CASE cache' = CacheFile(server.both, index.records, NoBuild)
  <2>1. cache'.records = index.records /\ cache'.build = NoBuild
    BY <1>1 DEF CacheFile
  <2>2. NoBuild \notin Builds
    BY DEF NoBuild, Builds
  <2>. QED  BY <2>1, <2>2 DEF Truth, Content, AllPlausible, CacheNumbered
<1>2. CASE cache' = cache
  BY <1>2 DEF Truth, Content, AllPlausible
<1>. QED  BY <1>1, <1>2 DEF SavedByServer

LEMMA BuildEndsContent == ASSUME Truth, BuildEnds PROVE Content'
<1>1. /\ server.up /\ server.building /\ server.todo = {} /\ cache' \in SavedByServer
      /\ server' = [server EXCEPT !.building = FALSE] /\ drafted' = {}
      /\ UNCHANGED <<disk, docs, notices, index, workers>>
  BY DEF BuildEnds
<1>2. /\ server \in Servers /\ ~ server.running
      /\ Shows(index.records, disk, server.both, {}, notices)
  BY <1>1 DEF Truth, Content, ServerOK, BuildShows
<1>3. /\ server' \in Servers /\ server'.up /\ ~ server'.building /\ ~ server'.running
      /\ server'.both = server.both
  BY <1>1, <1>2 DEF Servers
<1>4. AllPlausible' /\ CacheNumbered(workers, cache)'
  BY <1>1, SavedContent DEF Truth, Content, AllPlausible
<1>5. ServerOK' /\ BuildShows' /\ WorkerShows' /\ CacheShows'
  BY <1>3 DEF ServerOK, BuildShows, WorkerShows, CacheShows
<1>6. IndexShows'
  BY <1>1, <1>2, <1>3 DEF IndexShows
<1>7. KnownTexts' /\ Numbered(workers)'
  BY <1>1 DEF Truth, Content, KnownTexts
<1>. QED  BY <1>4, <1>5, <1>6, <1>7 DEF Content

\* The file of a message is scanned again; what the server made of it is what is
\* on disk, unless the editor had it changed.
LEMMA RefreshContent ==
    ASSUME Truth, NEW f \in Files, Refresh(f) PROVE Content'
<1>. DEFINE text == IF docs[f] = Closed THEN disk[f] ELSE docs[f]
<1>1. /\ Serving /\ ~ server.running /\ notices' = notices \ {f}
      /\ index' = Added(Removed(index, f), f, text)
      /\ server' = [server EXCEPT !.dirty = TRUE]
      /\ drafted' = IF text = disk[f] THEN drafted \ {f} ELSE drafted \cup {f}
      /\ UNCHANGED <<disk, docs, workers, cache, origin>>
  BY DEF Refresh
<1>2. /\ Good(index) /\ Len(index.records) <= Capacity /\ Plausible(index.records)
      /\ text \in Texts[f] /\ server \in Servers
  BY DEF Truth, Content, IInv, Fits, AllPlausible, KnownTexts, ServerOK
<1>. HIDE DEF text
<1>3. /\ server' \in Servers /\ server'.up = server.up /\ ~ server'.building
      /\ ~ server'.running /\ server'.both = server.both
  BY <1>1, <1>2 DEF Servers, Serving
<1>. DEFINE late == notices \cup drafted
<1>4. /\ Plausible(index'.records)
      /\ Shows(index.records, disk, server.both, {}, late) =>
           Shows(index'.records, disk, server.both, {},
                 IF text = disk[f] THEN late \ {f} ELSE late \cup {f})
  BY <1>1, <1>2, ShowsRefreshed
<1>5. AllPlausible'
  BY <1>1, <1>4 DEF Truth, Content, AllPlausible
<1>6. ServerOK' /\ BuildShows' /\ WorkerShows' /\ CacheShows'
  BY <1>3 DEF ServerOK, BuildShows, WorkerShows, CacheShows
<1>7. IndexShows'
  <2>. SUFFICES ASSUME origin = "built"
                PROVE  Shows(index'.records, disk, server.both, {}, notices' \cup drafted')
    BY <1>1, <1>3 DEF IndexShows
  <2>1. Shows(index.records, disk, server.both, {}, late)
    BY <1>1 DEF Truth, Content, IndexShows
  <2>2. notices' \cup drafted' = IF text = disk[f] THEN late \ {f} ELSE late \cup {f}
    BY <1>1
  <2>. QED  BY <1>4, <2>1, <2>2
<1>8. KnownTexts' /\ Numbered(workers)' /\ CacheNumbered(workers, cache)'
  BY <1>1 DEF Truth, Content, KnownTexts
<1>. QED  BY <1>5, <1>6, <1>7, <1>8 DEF Content

LEMMA ReadContent == ASSUME Truth, Read PROVE Content'
<1>1. index' = Ensured(index)
      /\ UNCHANGED <<disk, docs, notices, server, workers, cache, origin, drafted>>
  BY DEF Read
<1>2. index'.records = index.records
  BY <1>1, EnsuredGood DEF Truth, IInv, Fits
<1>. QED
  BY <1>1, <1>2 DEF Truth, Content, KnownTexts, AllPlausible, ServerOK, IndexShows,
                    BuildShows, WorkerShows, CacheShows, Serving

\* The end of the process.
LEMMA GoneContent == ASSUME Truth, Exit \/ Crash PROVE Content'
<1>1. /\ server' = NoServer /\ docs' = AllClosed /\ index' = EmptyRegion /\ disk' = disk
      /\ workers' = Stopped \/ workers' = workers
      /\ cache' \in SavedByServer \/ cache' = cache
  BY DEF Exit, Crash, Gone
<1>2. server' \in Servers /\ ~ server'.up /\ ~ server'.running /\ ~ server'.building
  BY <1>1 DEF NoServer, Servers, NoBuild
<1>3. DOMAIN workers = Builds /\ ServerOK /\ AllPlausible
  BY DEF Truth, Content, IInv, WorkersOK
<1>4. /\ \A c \in Builds : workers'[c] = NoWorker <=> workers[c] = NoWorker
      /\ \A c \in Builds : PlausibleWorker(workers'[c])
  BY <1>1, <1>3, StoppedKept DEF AllPlausible
<1>5. AllPlausible'
  BY <1>1, <1>4, SavedContent, ShowsNothing DEF AllPlausible
<1>6. Numbered(workers') /\ CacheNumbered(workers', cache')
  BY <1>1, <1>4, SavedContent, NumberedKept DEF Truth, Content
<1>7. KnownTexts'
  BY <1>1 DEF Truth, Content, KnownTexts, AllClosed
<1>8. ServerOK' /\ IndexShows' /\ BuildShows' /\ WorkerShows' /\ CacheShows'
  BY <1>2 DEF ServerOK, IndexShows, BuildShows, WorkerShows, CacheShows, Serving
<1>. QED  BY <1>5, <1>6, <1>7, <1>8 DEF Content

LEMMA StepTruth == ASSUME Truth, [Next]_vars PROVE Truth'
<1>1. IInv'
  BY StepInv DEF Truth
<1>2. CASE UNCHANGED vars
  BY <1>1, <1>2 DEF vars, Truth, Content, KnownTexts, AllPlausible, ServerOK, IndexShows,
                    BuildShows, WorkerShows, CacheShows, Serving
<1>3. CASE Next
  BY <1>1, <1>3, DiskContent, DocumentContent, RefreshContent, BuildScansContent,
     WorkerEndsContent, WorkerScansContent, InitializeContent, ChangeFoldersContent,
     JoinContent, BuildEndsContent, ReadContent, GoneContent DEF Next, Truth
<1>. QED  BY <1>2, <1>3

LEMMA TruthHolds == Spec => []Truth
<1>1. Init => Truth
  BY InitInv, InitContent DEF Truth
<1>2. Truth /\ [Next]_vars => Truth'
  BY StepTruth
<1>. QED  BY <1>1, <1>2, PTL DEF Spec

\* A symbol is looked up by its key.
Finds(r, s, f) == Lookup(r, {s}) = {f}

LEMMA LookupFacts ==
    ASSUME NEW r, Good(r), NEW s, NEW f
    PROVE  Finds(r, s, f) <=>
             \E i \in Live(r.records) : r.records[i].sym = s /\ r.records[i].path = f
<1>1. /\ DOMAIN r.keys = SymbolsOf(r.records, Live(r.records))
      /\ \A i \in Live(r.records) : r.keys[r.records[i].sym] = i /\ i \in Nat
  BY DEF Good, InSync, KeysMatch, Live, Regions
<1>2. CASE s \notin DOMAIN r.keys
  <2>1. Lookup(r, {s}) = {}
    BY <1>2 DEF Lookup
  <2>2. \A i \in Live(r.records) : r.records[i].sym /= s
    BY <1>1, <1>2 DEF SymbolsOf
  <2>. QED  BY <2>1, <2>2 DEF Finds
<1>3. CASE s \in DOMAIN r.keys
  <2>1. PICK i \in Live(r.records) : r.records[i].sym = s
    BY <1>1, <1>3 DEF SymbolsOf
  <2>2. r.keys[s] = i /\ \A j \in Live(r.records) : r.records[j].sym = s => j = i
    BY <1>1, <2>1
  <2>3. {r.keys[t] : t \in {s} \cap DOMAIN r.keys} = {i}
    BY <1>3, <2>2
  <2>4. {j \in {i} : \A k \in {i} : j <= k} = {i}
    BY <1>1
  <2>5. Lookup(r, {s}) = {r.records[i].path}
    BY <2>3, <2>4 DEF Lookup
  <2>. QED  BY <2>1, <2>2, <2>5 DEF Finds
<1>. QED  BY <1>2, <1>3

\* What is settled is shown by the index.
LEMMA SettledShown ==
    ASSUME Truth, NEW f \in Files, Settled(f)
    PROVE  /\ Good(index) /\ Faithful(index.records, f, disk[f])
           /\ Covered(index.records, f, disk[f])
<1>1. Shows(index.records, disk, server.both, {}, notices \cup drafted)
  BY DEF Truth, Content, IndexShows, Settled
<1>2. Shown(index.records, f, disk[f], {}, notices \cup drafted)
  BY <1>1 DEF Shows, Settled
<1>. QED  BY <1>2 DEF Shown, Settled, Truth, IInv, Fits

\* What the index says of a settled file is on disk, in spite of files that
\* change while they are scanned or while the index of a worker is on its way, of
\* workers that outlive their server and of cache files that are overwritten
\* (lsp_index_worker_finished, lsp_index_refresh_file).
THEOREM IndexSound == Spec => []Sound
<1>1. Truth => Sound
  <2>. SUFFICES ASSUME Truth, NEW f \in Files, Settled(f), NEW s \in Symbols,
                       Lookup(index, {s}) = {f}
                PROVE  s \in disk[f]
    BY DEF Sound
  <2>1. Good(index) /\ Faithful(index.records, f, disk[f])
    BY SettledShown
  <2>2. PICK i \in Live(index.records) :
          index.records[i].sym = s /\ index.records[i].path = f
    <3>1. Finds(index, s, f)
      BY DEF Finds
    <3>. QED  BY <2>1, <3>1, LookupFacts
  <2>. QED  BY <2>1, <2>2 DEF Faithful
<1>. QED  BY <1>1, TruthHolds, PTL

\* As long as there is room in the arena, the index finds what a settled file
\* declares and no other file may declare.
THEOREM IndexComplete == Spec => []Complete
<1>1. Truth => Complete
  <2>. SUFFICES ASSUME Truth, NEW f \in Files, Settled(f), Len(index.records) < Capacity,
                       NEW s \in disk[f], Private(s)
                PROVE  Lookup(index, {s}) = {f}
    BY DEF Complete
  <2>0. Good(index) /\ Covered(index.records, f, disk[f])
    BY SettledShown
  <2>1. PICK i \in Live(index.records) : index.records[i] = Record(s, f)
    BY <2>0 DEF Covered
  <2>2. Record(s, f).sym = s /\ Record(s, f).path = f
    BY DEF Record
  <2>3. index.records[i].sym = s /\ index.records[i].path = f
    BY <2>1, <2>2
  <2>4. Finds(index, s, f)
    BY <2>0, <2>1, <2>3, LookupFacts
  <2>. QED  BY <2>4 DEF Finds
<1>. QED  BY <1>1, TruthHolds, PTL
=============================================================================
