---------------------------- MODULE HierarchyProofs ----------------------------
(* Proofs about MemberCache and Hierarchy: whatever files, classes and edits *)
(* there are, an entry that would be used again says what the text says;    *)
(* and so whoever reads the hierarchy through the cache, from the files or  *)
(* from the headers finds the same one.                                     *)
EXTENDS Hierarchy, SequenceTheorems, WellFoundedInduction, TLAPS

EntryType == [path : Files, version : Int, stamp : Int, decl : Decls \cup {None}]

(* An entry of a document has a version the document has reached, an entry  *)
(* of a file a stamp the file has had; where it is the present one, the     *)
(* text is the present one too.                                            *)
EntrySound(e, c, d, k) ==
    \/ /\ e.version >= 0 /\ e.stamp = -1
       /\ d /= None
       /\ e.version <= d.version
       /\ e.version = d.version => e.decl = Found(d.text, c)
    \/ /\ e.version = -1
       /\ e.stamp <= k.stamp
       /\ e.stamp = k.stamp => e.decl = Found(k.text, c)

CacheSound ==
    \A c \in Classes :
        (cache[c] /= None /\ cache[c].path \notin leftover)
        => EntrySound(cache[c], c, docs[cache[c].path], disk[cache[c].path])

(* What a request read and nobody has open is at version 0.                 *)
ReadAtZero == \A f \in Files : (f \notin open /\ docs[f] /= None) => docs[f].version = 0

IInv == TypeOK /\ CacheSound /\ ReadAtZero

-----------------------------------------------------------------------------
LEMMA FoundType == ASSUME NEW t \in Texts, NEW c PROVE Found(t, c) \in Decls \cup {None}
  BY DEF Found, Decls

LEMMA WrittenText == ASSUME NEW f \in Files, NEW t \in Edits[f] PROVE t \in Texts
  BY DEF Texts, Written

LEMMA NoneIsNoRecord ==
  /\ None \notin Files
  /\ None \notin [text : Texts, version : Nat]
  /\ None \notin EntryType
  BY NoneAssumption DEF EntryType

LEMMA InitInv == Init => IInv
  <1>. SUFFICES ASSUME Init PROVE IInv OBVIOUS
  <1>1. PICK p \in Projects :
          /\ disk = [f \in Files |-> [text |-> p[f], stamp |-> 0]]
          /\ index = [c \in Classes |-> FirstFile(p, c)]
    BY DEF Init
  <1>2. \A f \in Files : p[f] \in Texts BY DEF Texts, Written
  <1>3. \A c \in Classes : FirstFile(p, c) \in Files \cup {None} BY DEF FirstFile
  <1>4. TypeOK BY <1>1, <1>2, <1>3 DEF Init, TypeOK
  <1>. QED BY <1>4 DEF Init, IInv, CacheSound, ReadAtZero

LEMMA RefreshedType ==
  ASSUME TypeOK, NEW f \in Files, NEW t
  PROVE  Refreshed(f, t) \in [Classes -> Files \cup {None}]
  BY DEF Refreshed, TypeOK

(* The entries of a file are gone, all others are as before.                *)
LEMMA InvalidatedFacts ==
  ASSUME TypeOK, NEW f \in Files
  PROVE  /\ Invalidated(f) \in [Classes -> EntryType \cup {None}]
         /\ \A c \in Classes : Invalidated(f)[c] /= None =>
               Invalidated(f)[c] = cache[c] /\ cache[c].path /= f
  BY DEF Invalidated, EntriesOf, TypeOK, EntryType

LEMMA BuiltFacts ==
  ASSUME TypeOK, NEW c \in Classes, NEW f \in Files
  PROVE  /\ Built(c, f) \in EntryType
         /\ Built(c, f).path = f
         /\ EntrySound(Built(c, f), c, docs[f], disk[f])
  <1>1. TextOf(f) \in Texts BY DEF TextOf, TypeOK
  <1>2. Found(TextOf(f), c) \in Decls \cup {None} BY <1>1, FoundType
  <1>3. docs[f] /= None => docs[f].version \in Nat BY DEF TypeOK
  <1>4. disk[f].stamp \in Nat BY DEF TypeOK
  <1>. QED BY <1>2, <1>3, <1>4 DEF Built, EntryType, EntrySound, TextOf

-----------------------------------------------------------------------------
(* A step that leaves cache, index and leftover alone keeps the invariant   *)
(* when every document and file either stays or moves on to a later version *)
(* or stamp, and none goes away.                                           *)
LEMMA MovesOn ==
  ASSUME IInv, UNCHANGED <<cache, leftover>>, TypeOK', ReadAtZero',
         \A f \in Files :
            /\ docs[f] /= None => docs'[f] = docs[f]
                  \/ (docs'[f] /= None /\ docs'[f].version > docs[f].version)
            /\ disk'[f] = disk[f] \/ disk'[f].stamp > disk[f].stamp
  PROVE  IInv'
  <1>. SUFFICES ASSUME NEW c \in Classes, cache[c] /= None, cache[c].path \notin leftover
                PROVE  EntrySound(cache[c], c, docs[cache[c].path], disk[cache[c].path])'
    BY DEF IInv, CacheSound
  <1>. DEFINE e == cache[c] 
              f == cache[c].path
  <1>1. e \in EntryType BY DEF IInv, TypeOK, EntryType
  <1>2. f \in Files /\ e.version \in Int /\ e.stamp \in Int BY <1>1 DEF EntryType
  <1>3. EntrySound(e, c, docs[f], disk[f]) BY <1>2 DEF IInv, CacheSound
  <1>4. /\ docs[f] /= None => docs[f].version \in Nat
        /\ docs'[f] /= None => docs'[f].version \in Nat
        /\ disk[f].stamp \in Nat /\ disk'[f].stamp \in Nat
    BY <1>2 DEF IInv, TypeOK
  <1>5. EntrySound(e, c, docs'[f], disk'[f])
    <2>. HIDE DEF e, f
    <2>. QED BY <1>2, <1>3, <1>4 DEF EntrySound
  <1>. QED BY <1>5 DEF EntrySound

LEMMA DidOpenInv == ASSUME IInv, NEW f \in Files, DidOpen(f) PROVE IInv'
  <1>. USE DEF IInv, DidOpen
  <1>1. docs' = [docs EXCEPT ![f] = [text |-> disk[f].text, version |-> 1]] OBVIOUS
  <1>2. disk[f].text \in Texts BY DEF TypeOK
  <1>3. [text |-> disk[f].text, version |-> 1] \in [text : Texts, version : Nat] BY <1>2
  <1>4. docs' \in [Files -> [text : Texts, version : Nat] \cup {None}] BY <1>3 DEF TypeOK
  <1>5. TypeOK' BY <1>3, <1>4, NoneIsNoRecord DEF TypeOK
  <1>6. ReadAtZero' BY DEF ReadAtZero, TypeOK
  <1>7. docs[f] /= None => docs[f].version = 0 BY DEF ReadAtZero
  <1>8. docs'[f] /= None /\ docs'[f].version = 1 BY <1>3, <1>4, NoneIsNoRecord DEF TypeOK
  <1>9. \A g \in Files : g # f => docs'[g] = docs[g] BY DEF TypeOK
  <1>. QED BY <1>5, <1>6, <1>7, <1>8, <1>9, MovesOn

LEMMA DidChangeInv ==
  ASSUME IInv, NEW f \in Files, NEW t \in Edits[f], DidChange(f, t) PROVE IInv'
  <1>. USE DEF IInv, DidChange
  <1>. DEFINE d == [text |-> t, version |-> docs[f].version + 1]
  <1>1. docs[f] /= None /\ docs[f].version \in Nat BY DEF TypeOK
  <1>2. d \in [text : Texts, version : Nat] BY <1>1, WrittenText
  <1>3. docs' = [docs EXCEPT ![f] = d] BY DEF TypeOK
  <1>4. docs'[f] = d BY <1>3 DEF TypeOK
  <1>5. \A g \in Files : g # f => docs'[g] = docs[g] BY DEF TypeOK
  <1>6. docs' \in [Files -> [text : Texts, version : Nat] \cup {None}]
    <2>. HIDE DEF d
    <2>. QED BY <1>2, <1>3 DEF TypeOK
  <1>7. TypeOK' BY <1>2, <1>4, <1>5, <1>6, NoneIsNoRecord DEF TypeOK
  <1>8. ReadAtZero' BY <1>4, <1>5 DEF ReadAtZero, TypeOK
  <1>9. docs'[f] /= None /\ docs'[f].version > docs[f].version BY <1>1, <1>2, <1>4, NoneIsNoRecord
  <1>. QED BY <1>5, <1>7, <1>8, <1>9, MovesOn

LEMMA WriteOutsideInv ==
  ASSUME IInv, NEW f \in Files, NEW t \in Edits[f], WriteOutside(f, t) PROVE IInv'
  <1>. USE DEF IInv, WriteOutside
  <1>1. disk[f].stamp \in Nat BY DEF TypeOK
  <1>2. disk' = [disk EXCEPT ![f] = [text |-> t, stamp |-> disk[f].stamp + 1]] BY DEF TypeOK
  <1>3. disk' \in [Files -> [text : Texts, stamp : Nat]] BY <1>1, <1>2, WrittenText DEF TypeOK
  <1>4. TypeOK' BY <1>3 DEF TypeOK
  <1>5. ReadAtZero' BY DEF ReadAtZero
  <1>6. \A g \in Files : disk'[g] = disk[g] \/ disk'[g].stamp > disk[g].stamp BY <1>1, <1>2 DEF TypeOK
  <1>. QED BY <1>4, <1>5, <1>6, MovesOn

LEMMA RequestReadsInv == ASSUME IInv, NEW f \in Files, RequestReads(f) PROVE IInv'
  <1>. USE DEF IInv, RequestReads
  <1>. DEFINE d == [text |-> disk[f].text, version |-> 0]
  <1>1. d \in [text : Texts, version : Nat] BY DEF TypeOK
  <1>2. docs' = [docs EXCEPT ![f] = d] OBVIOUS
  <1>3. docs' \in [Files -> [text : Texts, version : Nat] \cup {None}] BY <1>1, <1>2 DEF TypeOK
  <1>4. docs'[f].version = 0 BY <1>2 DEF TypeOK
  <1>5. \A g \in Files : g # f => docs'[g] = docs[g] BY DEF TypeOK
  <1>6. TypeOK' BY <1>3, <1>5 DEF TypeOK
  <1>7. ReadAtZero' BY <1>4, <1>5 DEF ReadAtZero
  <1>. QED BY <1>5, <1>6, <1>7, MovesOn

-----------------------------------------------------------------------------
LEMMA InvalidatesInv ==
  ASSUME IInv, NEW f \in Files, NEW t, UNCHANGED <<docs, open>>,
         cache' = Invalidated(f), leftover' = leftover \ {f}, index' = Refreshed(f, t),
         notices' \subseteq Files, disk' \in [Files -> [text : Texts, stamp : Nat]],
         \A g \in Files : g # f => disk'[g] = disk[g]
  PROVE  IInv'
  <1>. USE DEF IInv
  <1>1. TypeOK' BY InvalidatedFacts, RefreshedType DEF TypeOK, EntryType
  <1>2. ReadAtZero' BY DEF ReadAtZero
  <1>3. CacheSound'
    <2>. SUFFICES ASSUME NEW c \in Classes, cache'[c] /= None, cache'[c].path \notin leftover'
                  PROVE  EntrySound(cache[c], c, docs[cache[c].path], disk[cache[c].path])'
      BY DEF CacheSound
    <2>1. cache'[c] = cache[c] /\ cache[c].path /= f BY InvalidatedFacts
    <2>2. cache[c].path \in Files BY <2>1 DEF TypeOK
    <2>3. disk'[cache[c].path] = disk[cache[c].path] BY <2>1, <2>2
    <2>4. EntrySound(cache[c], c, docs[cache[c].path], disk[cache[c].path]) BY <2>1, <2>2 DEF CacheSound
    <2>. QED BY <2>1, <2>3, <2>4 DEF EntrySound
  <1>. QED BY <1>1, <1>2, <1>3

LEMMA DidSaveInv == ASSUME IInv, NEW f \in Files, DidSave(f) PROVE IInv'
  <1>. USE DEF IInv, DidSave
  <1>1. docs[f] \in [text : Texts, version : Nat] BY DEF TypeOK
  <1>2. disk' = [disk EXCEPT ![f] = [text |-> docs[f].text, stamp |-> disk[f].stamp + 1]] BY DEF TypeOK
  <1>3. disk' \in [Files -> [text : Texts, stamp : Nat]] BY <1>1, <1>2 DEF TypeOK
  <1>4. \A g \in Files : g # f => disk'[g] = disk[g] BY <1>2 DEF TypeOK
  <1>5. notices' \subseteq Files BY DEF TypeOK
  <1>. QED BY <1>3, <1>4, <1>5, InvalidatesInv

LEMMA DidChangeWatchedFilesInv ==
  ASSUME IInv, NEW f \in Files, DidChangeWatchedFiles(f) PROVE IInv'
  <1>. USE DEF IInv, DidChangeWatchedFiles
  <1>1. notices' \subseteq Files /\ disk' \in [Files -> [text : Texts, stamp : Nat]] BY DEF TypeOK
  <1>. QED BY <1>1, InvalidatesInv

LEMMA DidCloseInv == ASSUME IInv, NEW f \in Files, DidClose(f) PROVE IInv'
  <1>. USE DEF IInv, DidClose
  <1>1. docs' = [docs EXCEPT ![f] = None] OBVIOUS
  <1>2. TypeOK' BY <1>1 DEF TypeOK
  <1>3. ReadAtZero' BY <1>1 DEF ReadAtZero, TypeOK
  <1>4. CacheSound'
    <2>. SUFFICES ASSUME NEW c \in Classes, cache[c] /= None, cache[c].path \notin leftover'
                  PROVE  EntrySound(cache[c], c, docs[cache[c].path], disk[cache[c].path])'
      BY DEF CacheSound
    <2>1. cache[c].path \notin leftover /\ cache[c].path \in Files BY DEF TypeOK
    <2>2. EntrySound(cache[c], c, docs[cache[c].path], disk[cache[c].path]) BY <2>1 DEF CacheSound
    <2>3. CASE cache[c].path = f
      <3>1. ~(cache[c].version >= 0) BY <2>3 DEF Versioned, EntriesOf
      <3>. QED BY <2>2, <3>1 DEF EntrySound
    <2>4. CASE cache[c].path # f
      <3>1. docs'[cache[c].path] = docs[cache[c].path] BY <1>1, <2>1, <2>4 DEF TypeOK
      <3>. QED BY <2>2, <3>1 DEF EntrySound
    <2>. QED BY <2>3, <2>4
  <1>. QED BY <1>2, <1>3, <1>4

LEMMA QueryInv == ASSUME IInv, NEW S \in SUBSET Classes, Query(S) PROVE IInv'
  <1>. USE DEF IInv, Query, texts
  <1>1. \A c \in Classes :
           cache'[c] = cache[c] \/ (index[c] \in Files /\ cache'[c] = Built(c, index[c]))
    BY DEF Looked, TypeOK
  <1>2. \A c \in Classes : cache'[c] \in EntryType \cup {None}
    BY <1>1, BuiltFacts DEF TypeOK, EntryType
  <1>3. cache' \in [Classes -> EntryType \cup {None}] BY <1>2 DEF Looked
  <1>4. TypeOK' BY <1>3 DEF TypeOK, EntryType
  <1>5. ReadAtZero' BY DEF ReadAtZero
  <1>6. CacheSound'
    <2>. SUFFICES ASSUME NEW c \in Classes, cache'[c] /= None, cache'[c].path \notin leftover
                  PROVE  EntrySound(cache'[c], c, docs[cache'[c].path], disk[cache'[c].path])
      BY DEF CacheSound, EntrySound
    <2>1. CASE cache'[c] = cache[c] BY <2>1 DEF CacheSound
    <2>2. CASE index[c] \in Files /\ cache'[c] = Built(c, index[c]) BY <2>2, BuiltFacts
    <2>. QED BY <1>1, <2>1, <2>2
  <1>. QED BY <1>4, <1>5, <1>6

LEMMA NextInv == IInv /\ [Next]_vars => IInv'
  <1>. SUFFICES ASSUME IInv, [Next]_vars PROVE IInv' OBVIOUS
  <1>1. CASE FileStep
    BY <1>1, DidOpenInv, DidChangeInv, DidSaveInv, DidCloseInv, WriteOutsideInv,
       DidChangeWatchedFilesInv, RequestReadsInv DEF FileStep
  <1>2. CASE \E S \in SUBSET Classes : Query(S) BY <1>2, QueryInv
  <1>3. CASE UNCHANGED vars
    BY <1>3 DEF vars, IInv, TypeOK, CacheSound, EntrySound, ReadAtZero
  <1>. QED BY <1>1, <1>2, <1>3 DEF Next

LEMMA SoundMeansCurrent == IInv => EntriesCurrent
  <1>. SUFFICES ASSUME IInv, NEW c \in Classes, index[c] /= None, index[c] \notin leftover,
                       IsFresh(cache[c], index[c])
                PROVE  cache[c].decl = Found(TextOf(index[c]), c)
    BY DEF EntriesCurrent
  <1>. DEFINE f == index[c]
  <1>1. f \in Files /\ cache[c] /= None /\ cache[c].path = f BY DEF IInv, TypeOK, IsFresh
  <1>2. EntrySound(cache[c], c, docs[f], disk[f]) BY <1>1 DEF IInv, CacheSound
  <1>3. disk[f].stamp \in Nat /\ (docs[f] /= None => docs[f].version \in Nat)
    BY <1>1 DEF IInv, TypeOK
  <1>4. CASE docs[f] /= None BY <1>1, <1>2, <1>3, <1>4 DEF EntrySound, IsFresh, TextOf
  <1>5. CASE docs[f] = None BY <1>1, <1>2, <1>3, <1>5 DEF EntrySound, IsFresh, TextOf
  <1>. QED BY <1>4, <1>5

(* An entry of the member cache that would be used again says what the text *)
(* of its class says now, except for files that were closed while entries   *)
(* of their document remained (lsp_class_member_cache_entry_is_fresh).      *)
THEOREM CachedEntriesCurrent == Spec => []EntriesCurrent
  <1>1. Init => IInv BY InitInv
  <1>2. IInv /\ [Next]_vars => IInv' BY NextInv
  <1>. QED BY <1>1, <1>2, SoundMeansCurrent, PTL DEF Spec

-----------------------------------------------------------------------------
(* What a walk reaches.                                                     *)

AreLinks(links) == links \subseteq Classes \X Classes
Follows(D, links) == \A e \in links : e[1] \in D => e[2] \in D

LEMMA ClosureHas ==
  ASSUME NEW C \in SUBSET Classes, NEW links
  PROVE  C \subseteq Closure(C, links) /\ Closure(C, links) \subseteq Classes
  BY DEF Closure

LEMMA ClosureFollows ==
  ASSUME NEW C \in SUBSET Classes, NEW links, AreLinks(links)
  PROVE  Follows(Closure(C, links), links)
  <1>. SUFFICES ASSUME NEW e \in links, e[1] \in Closure(C, links)
                PROVE  e[2] \in Closure(C, links)
    BY DEF Follows
  <1>1. e[2] \in Classes BY DEF AreLinks
  <1>. QED BY <1>1 DEF Closure

LEMMA ClosureLeast ==
  ASSUME NEW links, NEW D \in SUBSET Classes, Follows(D, links), NEW C \in SUBSET D
  PROVE  Closure(C, links) \subseteq D
  BY DEF Closure, Follows

LEMMA ClosureWithin ==
  ASSUME NEW C \in SUBSET Classes, NEW links, AreLinks(links),
         NEW B \in SUBSET Closure(C, links)
  PROVE  Closure(B, links) \subseteq Closure(C, links)
  BY ClosureHas, ClosureFollows, ClosureLeast

LEMMA ClosureKnown ==
  ASSUME NEW C \in SUBSET KnownClasses, NEW links, AreLinks(links),
         \A c, d : <<c, d>> \in links => d \in KnownClasses
  PROVE  Closure(C, links) \subseteq KnownClasses
  <1>1. \A e \in links : e = <<e[1], e[2]>> BY DEF AreLinks
  <1>2. Follows(KnownClasses, links) BY <1>1 DEF Follows
  <1>3. KnownClasses \in SUBSET Classes BY DEF KnownClasses
  <1>. QED BY <1>2, <1>3, ClosureLeast

LEMMA ClosureUnfolds ==
  ASSUME NEW x \in Classes, NEW links, AreLinks(links),
         NEW N, N = {y \in Classes : <<x, y>> \in links}
  PROVE  Closure({x}, links) = {x} \cup Closure(N, links)
  <1>1. {x} \in SUBSET Classes /\ N \in SUBSET Classes OBVIOUS
  <1>2. Closure({x}, links) \subseteq {x} \cup Closure(N, links)
    <2>1. Closure(N, links) \subseteq Classes /\ N \subseteq Closure(N, links) BY <1>1, ClosureHas
    <2>2. Follows(Closure(N, links), links) BY <1>1, ClosureFollows
    <2>3. \A e \in links : e = <<e[1], e[2]>> /\ e[2] \in Classes BY DEF AreLinks
    <2>4. Follows({x} \cup Closure(N, links), links) BY <2>1, <2>2, <2>3 DEF Follows
    <2>. DEFINE D == {x} \cup Closure(N, links)
    <2>5. D \in SUBSET Classes /\ {x} \in SUBSET D BY <2>1
    <2>. HIDE DEF D
    <2>. QED BY <2>4, <2>5, ClosureLeast DEF D
  <1>3. x \in Closure({x}, links) BY <1>1, ClosureHas
  <1>4. N \subseteq Closure({x}, links)
    <2>. SUFFICES ASSUME NEW y \in N PROVE y \in Closure({x}, links) OBVIOUS
    <2>1. Follows(Closure({x}, links), links) BY <1>1, ClosureFollows
    <2>. QED BY <1>3, <2>1 DEF Follows
  <1>5. Closure(N, links) \subseteq Closure({x}, links) BY <1>1, <1>4, ClosureWithin
  <1>. QED BY <1>2, <1>3, <1>5

(* What is known of the declarations.                                       *)
LEMMA ListedClasses ==
  ASSUME NEW q \in Seq(Classes)
  PROVE  /\ Range(q) \subseteq Classes
         /\ q /= <<>> => q[1] \in Range(q)
  <1>1. Range(q) \subseteq Classes BY DEF Range
  <1>2. q /= <<>> => 1 \in DOMAIN q BY EmptySeq, LenProperties
  <1>. QED BY <1>1, <1>2 DEF Range

LEMMA DeclFacts ==
  ASSUME NEW d \in Decls \cup {Nothing}
  PROVE  /\ Range(d.extends) \subseteq Classes /\ Range(d.implements) \subseteq Classes
         /\ Range(d.uses) \subseteq Classes /\ d.at \in Nat
         /\ ParentOf(d) \in Range(d.extends) \cup {None}
         /\ ParentOf(d) = None <=> d.extends = <<>>
         /\ ParentOf(d) \in Classes \cup {None}
         /\ DOMAIN d.calls \subseteq Nat
         /\ \A i \in DOMAIN d.calls : d.calls[i].of \in Classes \cup {None}
         /\ d = Nothing <=> d.kind \notin {"class", "interface", "trait", "enum"}
  <1>1. CASE d = Nothing
    <2>1. /\ d.extends = <<>> /\ d.implements = <<>> /\ d.uses = <<>> /\ d.calls = <<>>
          /\ d.at = 0 /\ d.kind = "none"
      BY <1>1 DEF Nothing
    <2>2. Range(<<>>) = {} /\ DOMAIN <<>> = {} BY DEF Range
    <2>. QED BY <1>1, <2>1, <2>2 DEF ParentOf
  <1>2. CASE d \in Decls /\ d /= Nothing
    <2>1. IsDecl(d) /\ None \notin Classes BY <1>2, DeclAssumption
    <2>. QED BY <1>2, <2>1, ListedClasses DEF IsDecl, ParentOf
  <1>. QED BY <1>1, <1>2

LEMMA NowInFacts ==
  ASSUME TypeOK, NEW c \in KnownClasses
  PROVE  /\ c \in Classes /\ IsKnown(c) /\ c /= None
         /\ index[c] \in Files /\ TextOf(index[c]) \in Texts
         /\ NowIn(c) \in Decls \cup {Nothing}
         /\ NowIn(c) /= Nothing => /\ c \in DOMAIN TextOf(index[c])
                                   /\ NowIn(c) = TextOf(index[c])[c]
  <1>1. c \in Classes /\ IsKnown(c) /\ c /= None BY DeclAssumption DEF KnownClasses
  <1>2. index[c] \in Files BY <1>1 DEF TypeOK, IsKnown
  <1>3. TextOf(index[c]) \in Texts BY <1>2 DEF TextOf, TypeOK
  <1>4. Found(TextOf(index[c]), c) \in Decls \cup {None} BY <1>3, FoundType
  <1>5. NowIn(c) \in Decls \cup {Nothing} BY <1>4 DEF NowIn, OrNothing
  <1>6. NowIn(c) /= Nothing => Found(TextOf(index[c]), c) /= None BY DEF NowIn, OrNothing
  <1>7. NowIn(c) /= Nothing => NowIn(c) = Found(TextOf(index[c]), c) BY DEF NowIn, OrNothing
  <1>. QED BY <1>1, <1>2, <1>3, <1>5, <1>6, <1>7 DEF Found

LEMMA KnownIn ==
  ASSUME NEW S \in SUBSET (Classes \cup {None})
  PROVE  Known(S) \subseteq KnownClasses /\ Known(S) = {c \in KnownClasses : c \in S}
  BY DeclAssumption DEF Known, KnownClasses

(* The links of the walks.                                                  *)
LEMMA UpLinks ==
  ASSUME TypeOK
  PROVE  /\ AreLinks(LinksTo(Up))
         /\ \A c, d : <<c, d>> \in LinksTo(Up) <=> c \in KnownClasses /\ d \in Up(c)
  <1>1. \A c \in KnownClasses : c \in Classes /\ Up(c) \subseteq Classes
    BY NowInFacts, DeclFacts DEF Up, HeaderNames
  <1>2. LinksTo(Up) = UNION {{c} \X Up(c) : c \in KnownClasses} BY DEF LinksTo
  <1>. QED BY <1>1, <1>2 DEF AreLinks

LEMMA BaseLinks ==
  ASSUME TypeOK
  PROVE  /\ AreLinks(LinksTo(BasesOf))
         /\ \A c, d : <<c, d>> \in LinksTo(BasesOf) <=> c \in KnownClasses /\ d \in BasesOf(c)
         /\ \A c \in KnownClasses : BasesOf(c) = {d \in KnownClasses : d = ParentOf(NowIn(c))}
  <1>1. \A c \in KnownClasses : /\ BasesOf(c) \subseteq Classes
                                /\ BasesOf(c) = {d \in KnownClasses : d = ParentOf(NowIn(c))}
    <2>. TAKE c \in KnownClasses
    <2>1. {ParentOf(NowIn(c))} \subseteq Classes \cup {None} BY NowInFacts, DeclFacts
    <2>. QED BY <2>1, KnownIn DEF BasesOf, KnownClasses
  <1>2. LinksTo(BasesOf) = UNION {{c} \X BasesOf(c) : c \in KnownClasses} BY DEF LinksTo
  <1>. QED BY <1>1, <1>2 DEF AreLinks, KnownClasses

LEMMA TraitLinks ==
  ASSUME TypeOK
  PROVE  /\ AreLinks(LinksTo(TraitsOf))
         /\ \A c, d : <<c, d>> \in LinksTo(TraitsOf) <=> c \in KnownClasses /\ d \in TraitsOf(c)
         /\ \A c \in KnownClasses : TraitsOf(c) = {d \in KnownClasses : d \in Range(NowIn(c).uses)}
  <1>1. \A c \in KnownClasses :
           /\ TraitsOf(c) \subseteq Classes
           /\ TraitsOf(c) = {d \in KnownClasses : d \in Range(NowIn(c).uses)}
    <2>. TAKE c \in KnownClasses
    <2>1. Range(NowIn(c).uses) \subseteq Classes \cup {None} BY NowInFacts, DeclFacts
    <2>. QED BY <2>1, KnownIn DEF TraitsOf, KnownClasses
  <1>2. LinksTo(TraitsOf) = UNION {{c} \X TraitsOf(c) : c \in KnownClasses} BY DEF LinksTo
  <1>. QED BY <1>1, <1>2 DEF AreLinks, KnownClasses

-----------------------------------------------------------------------------
(* The rename of a method.                                                  *)

LEMMA AncestorFacts ==
  ASSUME TypeOK, NEW e \in Classes
  PROVE  /\ e \in AncestorsOf({e}) /\ AncestorsOf({e}) \subseteq Classes
         /\ \A x \in AncestorsOf({e}) : AncestorsOf({x}) \subseteq AncestorsOf({e})
         /\ \A x \in AncestorsOf({e}) \cap KnownClasses : Up(x) \subseteq AncestorsOf({e})
  <1>. DEFINE L == LinksTo(Up)
             A == Closure({e}, L)
  <1>1. AreLinks(L) /\ \A c, d : <<c, d>> \in L <=> c \in KnownClasses /\ d \in Up(c) BY UpLinks
  <1>. HIDE DEF L
  <1>2. e \in A /\ A \subseteq Classes /\ Follows(A, L) BY <1>1, ClosureHas, ClosureFollows
  <1>3. \A x \in A : Closure({x}, L) \subseteq A BY <1>1, ClosureWithin
  <1>4. \A x \in A \cap KnownClasses : Up(x) \subseteq A
    <2>. SUFFICES ASSUME NEW x \in A, x \in KnownClasses, NEW y \in Up(x) PROVE y \in A OBVIOUS
    <2>1. <<x, y>> \in L BY <1>1
    <2>. QED BY <1>2, <2>1 DEF Follows
  <1>5. \A x : AncestorsOf({x}) = Closure({x}, L) BY DEF AncestorsOf, L
  <1>6. A = AncestorsOf({e}) BY <1>5
  <1>. HIDE DEF A
  <1>. QED BY <1>2, <1>3, <1>4, <1>5, <1>6

(* Where no class has two parents, the ancestors of a class are a chain.    *)
LEMMA AncestorsAreChain ==
  ASSUME TypeOK, Forest, NEW e \in Classes, NEW d \in AncestorsOf({e}), NEW x \in AncestorsOf({e})
  PROVE  x \in AncestorsOf({d}) \/ d \in AncestorsOf({x})
  <1>. DEFINE L == LinksTo(Up)
             S == {y \in AncestorsOf({e}) : y \in AncestorsOf({d}) \/ d \in AncestorsOf({y})}
  <1>1. AreLinks(L) /\ \A c, b : <<c, b>> \in L <=> c \in KnownClasses /\ b \in Up(c) BY UpLinks
  <1>2. \A y : AncestorsOf({y}) = Closure({y}, L) BY DEF AncestorsOf
  <1>3. e \in S /\ S \in SUBSET Classes BY AncestorFacts
  <1>4. \A y \in S, z \in Classes : <<y, z>> \in L => z \in S
    <2>. SUFFICES ASSUME NEW y \in S, NEW z \in Classes, <<y, z>> \in L PROVE z \in S OBVIOUS
    <2>1. y \in KnownClasses /\ z \in Up(y) /\ y \in Classes BY <1>1, <1>3
    <2>2. z \in AncestorsOf({e}) BY <2>1, AncestorFacts
    <2>3. d \in Classes BY AncestorFacts
    <2>4. CASE y \in AncestorsOf({d})
      <3>1. z \in AncestorsOf({d}) BY <2>1, <2>3, <2>4, AncestorFacts
      <3>. QED BY <2>2, <3>1
    <2>5. CASE y \notin AncestorsOf({d}) /\ d \in AncestorsOf({y})
      <3>1. d /= y BY <2>3, <2>5, AncestorFacts
      <3>2. {z} = {b \in Classes : <<y, b>> \in L}
        <4>1. \A b \in Up(y) : b = z BY <2>1 DEF Forest
        <4>. HIDE DEF L
        <4>. QED BY <1>1, <2>1, <4>1
      <3>. HIDE DEF L
      <3>3. Closure({y}, L) = {y} \cup Closure({z}, L) BY <1>1, <2>1, <3>2, ClosureUnfolds
      <3>4. d \in AncestorsOf({z}) BY <1>2, <2>5, <3>1, <3>3
      <3>. QED BY <2>2, <3>4
    <2>. QED BY <2>4, <2>5
  <1>. HIDE DEF L
  <1>5. Follows(S, L)
    <2>1. \A p \in L : p = <<p[1], p[2]>> /\ p[2] \in Classes BY <1>1 DEF AreLinks
    <2>. QED BY <1>4, <2>1 DEF Follows
  <1>. HIDE DEF S
  <1>6. {e} \in SUBSET S BY <1>3
  <1>7. Closure({e}, L) \subseteq S BY <1>3, <1>5, <1>6, ClosureLeast
  <1>8. AncestorsOf({e}) \subseteq S BY <1>2, <1>7
  <1>. QED BY <1>8 DEF S

(* A class and one above it are in the same families.                       *)
LEMMA SameFamily ==
  ASSUME TypeOK, Forest, NEW c \in Classes, NEW e \in Classes, NEW d \in AncestorsOf({e})
  PROVE  InFamily(d, c) <=> InFamily(e, c)
  <1>1. AncestorsOf({d}) \subseteq AncestorsOf({e}) /\ d \in AncestorsOf({d}) BY AncestorFacts
  <1>2. InFamily(d, c) => InFamily(e, c) BY <1>1 DEF InFamily
  <1>3. ASSUME NEW x \in AncestorsOf({e}), x \in AncestorsOf({c})
        PROVE  AncestorsOf({d}) \cap AncestorsOf({c}) /= {}
    <2>1. CASE x \in AncestorsOf({d}) BY <1>3, <2>1
    <2>2. CASE d \in AncestorsOf({x})
      <3>1. d \in AncestorsOf({c}) BY <1>3, <2>2, AncestorFacts
      <3>. QED BY <1>1, <3>1
    <2>. QED BY <2>1, <2>2, AncestorsAreChain
  <1>. QED BY <1>2, <1>3 DEF InFamily

(* The classes that declare the method themselves are renamed by family.    *)
LEMMA RenamedByFamily ==
  ASSUME TypeOK, NEW f \in Files, NEW c \in Classes, NEW w, NEW d \in KnownClasses, OwnMethod(d, w)
  PROVE  d \in Renamed(f, c, w) <=> InFamily(d, c)
  <1>1. d \in Renamed(f, c, w) => InFamily(d, c) BY DEF Renamed, RenamedIn
  <1>2. NowIn(d) /= Nothing BY DEF OwnMethod, MembersOf, Nothing
  <1>3. d \in DOMAIN TextOf(index[d]) /\ NowIn(d) = TextOf(index[d])[d] BY <1>2, NowInFacts
  <1>4. InFamily(d, c) => d \in RenamedIn(index[d], c, w) BY <1>3 DEF RenamedIn, OwnMethod
  <1>5. index[d] \in RenamedFiles(f) BY DEF RenamedFiles
  <1>. QED BY <1>1, <1>4, <1>5 DEF Renamed

LEMMA ReceiverType ==
  ASSUME TypeOK, NEW e \in KnownClasses, NEW call \in Range(NowIn(e).calls)
  PROVE  ReceiverClass(e, NowIn(e), call) \in Classes \cup {None}
  <1>1. NowIn(e) \in Decls \cup {Nothing} /\ e \in Classes BY NowInFacts
  <1>2. call.of \in Classes \cup {None} BY <1>1, DeclFacts DEF Range
  <1>3. ParentOf(NowIn(e)) \in Classes \cup {None} BY <1>1, DeclFacts
  <1>. QED BY <1>1, <1>2, <1>3 DEF ReceiverClass

LEMMA RenameKeeps == TypeOK => RenameKeepsLinks
  <1>. SUFFICES ASSUME TypeOK, Forest, NEW c \in KnownClasses, NEW w \in Words, OwnMethod(c, w)
       PROVE LET R == Renamed(index[c], c, w)
            IN  /\ c \in R
                /\ \A d, e \in KnownClasses :
                      (OwnMethod(d, w) /\ OwnMethod(e, w) /\ d \in AncestorsOf({e}))
                          => (d \in R <=> e \in R)
                /\ \A e \in {d \in KnownClasses : HasHeader(d)} :
                      \A call \in {k \in Range(NowIn(e).calls) : k.name = w} :
                          LET target == ReceiverClass(e, NowIn(e), call)
                          IN  (target /= None /\ (call.recv = "var" => docs[index[e]] /= None))
                              => \A d \in Nearest(target, w) :
                                    CallRenamed(index[e], e, call, c) <=> d \in R
    BY DEF RenameKeepsLinks
  <1>. DEFINE R == Renamed(index[c], c, w)
  <1>1. index[c] \in Files /\ c \in Classes BY NowInFacts
  <1>2. \A d \in KnownClasses : OwnMethod(d, w) => (d \in R <=> InFamily(d, c))
    BY <1>1, RenamedByFamily
  <1>. HIDE DEF R
  <1>3. c \in R BY <1>1, <1>2, AncestorFacts DEF InFamily
  <1>4. ASSUME NEW d \in KnownClasses, NEW e \in KnownClasses,
               d \in AncestorsOf({e}), OwnMethod(d, w), OwnMethod(e, w)
        PROVE  d \in R <=> e \in R
    <2>1. e \in Classes BY NowInFacts
    <2>2. InFamily(d, c) <=> InFamily(e, c) BY <1>1, <1>4, <2>1, SameFamily
    <2>. QED BY <1>2, <1>4, <2>2
  <1>5. ASSUME NEW e \in KnownClasses, HasHeader(e), NEW call \in Range(NowIn(e).calls),
               ReceiverClass(e, NowIn(e), call) /= None,
               call.recv = "var" => docs[index[e]] /= None,
               NEW d \in Nearest(ReceiverClass(e, NowIn(e), call), w)
        PROVE  CallRenamed(index[e], e, call, c) <=> d \in R
    <2>. DEFINE target == ReceiverClass(e, NowIn(e), call)
    <2>1. target \in Classes BY <1>5, ReceiverType
    <2>2. d \in AncestorsOf({target}) /\ OwnMethod(d, w) BY DEF Nearest
    <2>3. d \in KnownClasses BY <2>1, <2>2, AncestorFacts DEF KnownClasses, OwnMethod
    <2>4. NowIn(e) = TextOf(index[e])[e] BY <1>5, NowInFacts DEF HasHeader
    <2>5. CallRenamed(index[e], e, call, c) <=> InFamily(target, c) BY <1>5, <2>4 DEF CallRenamed
    <2>. HIDE DEF target
    <2>6. InFamily(d, c) <=> InFamily(target, c) BY <1>1, <2>1, <2>2, SameFamily
    <2>. QED BY <1>2, <2>2, <2>3, <2>5, <2>6
  <1>. QED BY <1>3, <1>4, <1>5 DEF R

-----------------------------------------------------------------------------
(* What is read through the cache is what the texts say.                    *)

LEMMA EntryNow ==
  ASSUME TypeOK, EntriesCurrent, Settled, NEW c \in KnownClasses
  PROVE  /\ Entry(c).extends = NowIn(c).extends /\ Entry(c).uses = NowIn(c).uses
         /\ ParentOf(Entry(c)) = ParentOf(NowIn(c))
         /\ MembersOf(Entry(c)) = {m \in MembersOf(NowIn(c)) : m.vis /= "private"}
  <1>. DEFINE d == IF IsFresh(cache[c], index[c]) THEN cache[c].decl ELSE Built(c, index[c]).decl
  <1>1. c \in Classes /\ index[c] /= None /\ NowIn(c) \in Decls \cup {Nothing}
    BY NowInFacts DEF IsKnown
  <1>2. index[c] \notin leftover BY DEF Settled
  <1>3. d = Found(TextOf(index[c]), c) BY <1>1, <1>2 DEF EntriesCurrent, Built
  <1>4. OrNothing(d) = NowIn(c) BY <1>3 DEF NowIn
  <1>5. Entry(c) = [OrNothing(d) EXCEPT !.members = Cacheable(OrNothing(d))] BY DEF Entry
  <1>. HIDE DEF d
  <1>6. Entry(c) = [NowIn(c) EXCEPT !.members = Cacheable(NowIn(c))] BY <1>4, <1>5
  <1>7. {"extends", "uses", "members"} \subseteq DOMAIN NowIn(c)
    <2>1. DOMAIN NowIn(c) = DOMAIN Nothing BY <1>1, DeclAssumption DEF IsDecl
    <2>. QED BY <2>1 DEF Nothing
  <1>8. /\ Entry(c).extends = NowIn(c).extends /\ Entry(c).uses = NowIn(c).uses
        /\ Entry(c).members = Cacheable(NowIn(c))
    BY <1>6, <1>7
  <1>. QED BY <1>8 DEF ParentOf, MembersOf, Cacheable

LEMMA CachedLinks ==
  ASSUME TypeOK, EntriesCurrent, Settled
  PROVE  /\ LinksTo(EntryParents) = LinksTo(BasesOf)
         /\ AreLinks(LinksTo(EntryLinks))
         /\ \A c, d : <<c, d>> \in LinksTo(EntryLinks)
                        <=> c \in KnownClasses /\ d \in BasesOf(c) \cup TraitsOf(c)
  <1>1. \A c \in KnownClasses : EntryParents(c) = BasesOf(c)
    BY EntryNow DEF EntryParents, BasesOf
  <1>2. LinksTo(EntryParents) = LinksTo(BasesOf) BY <1>1 DEF LinksTo
  <1>3. \A c \in KnownClasses : EntryLinks(c) = BasesOf(c) \cup TraitsOf(c)
    BY EntryNow DEF EntryLinks, BasesOf, TraitsOf, Known
  <1>4. \A c \in KnownClasses : EntryLinks(c) \subseteq KnownClasses
    BY <1>3, BaseLinks, TraitLinks
  <1>5. LinksTo(EntryLinks) = UNION {{c} \X EntryLinks(c) : c \in KnownClasses} BY DEF LinksTo
  <1>6. KnownClasses \subseteq Classes BY DEF KnownClasses
  <1>7. AreLinks(LinksTo(EntryLinks)) BY <1>4, <1>5, <1>6 DEF AreLinks
  <1>. QED BY <1>2, <1>3, <1>5, <1>7

-----------------------------------------------------------------------------
(* Types: what a subclass is, asked from above and from below.              *)

LEMMA OwnParent ==
  ASSUME TypeOK, Acyclic, NEW c \in KnownClasses
  PROVE  c \notin Up(c)
  <1>1. Up(c) \subseteq Classes BY NowInFacts, DeclFacts DEF Up, HeaderNames
  <1>2. Up(c) \subseteq AncestorsOf(Up(c)) BY <1>1, ClosureHas DEF AncestorsOf
  <1>. QED BY <1>2 DEF Acyclic

(* The parent of a class has it among those below.                          *)
LEMMA BelowParent ==
  ASSUME TypeOK, Acyclic, NEW c \in KnownClasses, NEW s \in KnownClasses, s = ParentOf(NowIn(c)),
         NowIn(c).kind = "trait" => NowIn(c).extends = <<>>
  PROVE  c \in Below(s)
  <1>1. NowIn(c) \in Decls \cup {Nothing} /\ c \in Classes /\ IsKnown(c) /\ s /= None BY NowInFacts
  <1>2. s \in Range(NowIn(c).extends) /\ NowIn(c).extends /= <<>> BY <1>1, DeclFacts
  <1>3. NowIn(c) /= Nothing BY <1>2 DEF Nothing
  <1>4. NowIn(c).kind \in {"class", "interface", "enum"} BY <1>1, <1>2, <1>3, DeclFacts
  <1>5. s \in HeaderNames(NowIn(c)) BY <1>2 DEF HeaderNames
  <1>6. s \in Up(c) BY <1>5 DEF Up
  <1>7. c /= s BY <1>6, OwnParent
  <1>. QED BY <1>1, <1>3, <1>4, <1>5, <1>7 DEF Below, Subtypes, HasHeader

LEMMA BelowLinks ==
  ASSUME TypeOK
  PROVE  /\ AreLinks(LinksTo(Below))
         /\ \A s, c : <<s, c>> \in LinksTo(Below) <=> s \in KnownClasses /\ c \in Below(s)
         /\ \A s, c : c \in Below(s) => c \in KnownClasses /\ s = ParentOf(NowIn(c))
  <1>1. LinksTo(Below) = UNION {{s} \X Below(s) : s \in KnownClasses} BY DEF LinksTo
  <1>2. KnownClasses \subseteq Classes BY DEF KnownClasses
  <1>3. \A s, c : c \in Below(s) => c \in KnownClasses /\ s = ParentOf(NowIn(c))
    BY DEF Below, Subtypes, HasHeader, KnownClasses
  <1>. QED BY <1>1, <1>2, <1>3 DEF AreLinks

TraitsExtendNothing ==
  \A c \in KnownClasses : NowIn(c).kind = "trait" => NowIn(c).extends = <<>>

(* Walked up from the class or down from the base: the same subclasses.     *)
LEMMA UpAndDown ==
  ASSUME TypeOK, Acyclic, TraitsExtendNothing, NEW s \in KnownClasses, NEW c \in KnownClasses, c /= s
  PROVE  (\E d \in Bases(c) : ParentOf(NowIn(d)) = s) <=> c \in Closure({s}, LinksTo(Below))
  <1>. DEFINE L == LinksTo(Below)
             B == LinksTo(BasesOf)
  <1>1. /\ AreLinks(L)
        /\ \A x, y : <<x, y>> \in L <=> x \in KnownClasses /\ y \in Below(x)
        /\ \A x, y : y \in Below(x) => y \in KnownClasses /\ x = ParentOf(NowIn(y))
    BY BelowLinks
  <1>2. /\ AreLinks(B)
        /\ \A x, y : <<x, y>> \in B <=> x \in KnownClasses /\ y \in BasesOf(x)
        /\ \A x \in KnownClasses : BasesOf(x) = {y \in KnownClasses : y = ParentOf(NowIn(x))}
    BY BaseLinks
  <1>3. \A x : Bases(x) = Closure({x}, B) BY DEF Bases
  <1>4. \A x, y \in KnownClasses : y = ParentOf(NowIn(x)) => <<y, x>> \in L
    BY <1>1, BelowParent DEF TraitsExtendNothing
  <1>. HIDE DEF L, B
  <1>5. KnownClasses \subseteq Classes BY DEF KnownClasses
  <1>6. \A x \in KnownClasses : x \in Bases(x) /\ Bases(x) \subseteq Classes /\ Follows(Bases(x), B)
    <2>. TAKE x \in KnownClasses
    <2>1. {x} \in SUBSET Classes BY <1>5
    <2>. QED BY <1>2, <1>3, <2>1, ClosureHas, ClosureFollows
  <1>7. ASSUME c \in Closure({s}, L)
        PROVE  \E d \in Bases(c) : ParentOf(NowIn(d)) = s
    <2>. DEFINE S == {x \in KnownClasses : x = s \/ \E d \in Bases(x) : ParentOf(NowIn(d)) = s}
    <2>1. \A x \in S : \A y : <<x, y>> \in L => y \in S
      <3>. SUFFICES ASSUME NEW x \in S, NEW y, <<x, y>> \in L PROVE y \in S OBVIOUS
      <3>1. y \in KnownClasses /\ x = ParentOf(NowIn(y)) /\ x \in KnownClasses BY <1>1
      <3>2. CASE x = s BY <1>6, <3>1, <3>2
      <3>3. CASE x /= s
        <4>1. PICK d \in Bases(x) : ParentOf(NowIn(d)) = s BY <3>3
        <4>2. <<y, x>> \in B BY <1>2, <3>1
        <4>3. x \in Bases(y) BY <1>6, <3>1, <4>2 DEF Follows
        <4>4. {x} \in SUBSET Closure({y}, B) /\ {y} \in SUBSET Classes BY <1>3, <1>5, <3>1, <4>3
        <4>5. Bases(x) \subseteq Bases(y) BY <1>2, <1>3, <4>4, ClosureWithin
        <4>. QED BY <3>1, <4>1, <4>5
      <3>. QED BY <3>2, <3>3
    <2>2. s \in S /\ S \subseteq Classes BY <1>5
    <2>. HIDE DEF S
    <2>3. Follows(S, L)
      <3>1. \A p \in L : p = <<p[1], p[2]>> BY <1>1 DEF AreLinks
      <3>. QED BY <2>1, <3>1 DEF Follows
    <2>4. {s} \in SUBSET S /\ S \in SUBSET Classes BY <2>2
    <2>5. c \in S BY <1>7, <2>3, <2>4, ClosureLeast
    <2>. QED BY <2>5 DEF S
  <1>8. ASSUME NEW d \in Bases(c), ParentOf(NowIn(d)) = s
        PROVE  c \in Closure({s}, L)
    <2>. DEFINE S == {x \in KnownClasses : c \in Closure({x}, L)}
    <2>0. \A x \in KnownClasses : {x} \in SUBSET Classes BY <1>5
    <2>1. \A x, y \in KnownClasses : <<y, x>> \in L => Closure({x}, L) \subseteq Closure({y}, L)
      <3>. SUFFICES ASSUME NEW x \in KnownClasses, NEW y \in KnownClasses, <<y, x>> \in L
                    PROVE  Closure({x}, L) \subseteq Closure({y}, L)
        OBVIOUS
      <3>1. y \in Closure({y}, L) /\ Follows(Closure({y}, L), L)
        BY <1>1, <2>0, ClosureHas, ClosureFollows
      <3>2. {x} \in SUBSET Closure({y}, L) BY <3>1 DEF Follows
      <3>. QED BY <1>1, <2>0, <3>2, ClosureWithin
    <2>2. c \in S BY <2>0, ClosureHas
    <2>3. \A x \in S : \A y : <<x, y>> \in B => y \in S
      <3>. SUFFICES ASSUME NEW x \in S, NEW y, <<x, y>> \in B PROVE y \in S OBVIOUS
      <3>1. x \in KnownClasses /\ y \in KnownClasses /\ y = ParentOf(NowIn(x)) BY <1>2
      <3>2. <<y, x>> \in L BY <1>4, <3>1
      <3>. QED BY <2>1, <3>1, <3>2
    <2>4. S \in SUBSET Classes /\ {c} \in SUBSET S BY <1>5, <2>2
    <2>. HIDE DEF S
    <2>5. Follows(S, B)
      <3>1. \A p \in B : p = <<p[1], p[2]>> BY <1>2 DEF AreLinks
      <3>. QED BY <2>3, <3>1 DEF Follows
    <2>6. d \in S BY <1>3, <2>4, <2>5, ClosureLeast
    <2>7. d \in KnownClasses /\ c \in Closure({d}, L) BY <2>6 DEF S
    <2>8. <<s, d>> \in L BY <1>4, <1>8, <2>7
    <2>. QED BY <2>1, <2>7, <2>8
  <1>. QED BY <1>7, <1>8 DEF L

LEMMA TypeViews == (TypeOK /\ EntriesCurrent) => TypeViewsAgree
  <1>. SUFFICES ASSUME TypeOK, EntriesCurrent, Settled, Acyclic, TraitsExtendNothing,
                       NEW s \in KnownClasses, HasHeader(s)
       PROVE LET subclasses == {c \in Closure({s}, LinksTo(Below)) \ {s} : NowIn(c).kind = "class"}
             IN  /\ \A c \in {d \in KnownClasses : HasHeader(d) /\ NowIn(d).kind /= "trait"} :
                      s \in Supertypes(c) <=> c \in Subtypes(s)
                 /\ Implementations(s) = {c \in Subtypes(s) : NowIn(c).kind /= "enum"}
                 /\ NowIn(s).kind = "class" =>
                      \A w \in LensMethods(s) :
                          OverrideLocations(s, w) =
                              {c \in subclasses : \E m \in MembersOf(NowIn(c)) :
                                  m.name = w /\ m.kind = "method" /\ IsOwn(m)
                                  /\ m.vis /= "private"}
    BY DEF TypeViewsAgree, TraitsExtendNothing
  <1>. DEFINE K == Closure({s}, LinksTo(Below))
  <1>1. ASSUME NEW c \in KnownClasses, HasHeader(c), NowIn(c).kind /= "trait"
        PROVE  s \in Supertypes(c) <=> c \in Subtypes(s)
    <2>1. c \in Classes /\ NowIn(c) \in Decls \cup {Nothing} BY NowInFacts
    <2>2. NowIn(c).kind \in {"class", "interface", "enum"} BY <1>1, <2>1, DeclFacts DEF HasHeader
    <2>3. s \in HeaderNames(NowIn(c)) => s /= c BY OwnParent DEF Up
    <2>. QED BY <1>1, <2>1, <2>2, <2>3 DEF Supertypes, Subtypes
  <1>2. Implementations(s) = {c \in Subtypes(s) : NowIn(c).kind /= "enum"}
    BY DEF Implementations, Subtypes, HeaderNames
  <1>3. K \subseteq KnownClasses
    <2>1. {s} \in SUBSET KnownClasses OBVIOUS
    <2>. QED BY <2>1, BelowLinks, ClosureKnown
  <1>4. \A c \in KnownClasses : ExtendsClass(c, s) <=> \E d \in Bases(c) : ParentOf(NowIn(d)) = s
    <2>. TAKE c \in KnownClasses
    <2>1. Lineage(c) = Bases(c) BY CachedLinks DEF Lineage, Bases
    <2>2. Bases(c) \subseteq KnownClasses
      <3>1. {c} \in SUBSET KnownClasses OBVIOUS
      <3>. QED BY <3>1, BaseLinks, ClosureKnown DEF Bases
    <2>3. \A d \in Bases(c) : ParentOf(Entry(d)) = ParentOf(NowIn(d)) BY <2>2, EntryNow
    <2>. QED BY <2>1, <2>3 DEF ExtendsClass
  <1>5. \A c \in KnownClasses : c /= s => (ExtendsClass(c, s) <=> c \in K) BY <1>4, UpAndDown
  <1>. HIDE DEF K
  <1>6. ASSUME NEW w
        PROVE  OverrideLocations(s, w) =
                 {c \in {b \in K \ {s} : NowIn(b).kind = "class"} : \E m \in MembersOf(NowIn(c)) :
                     m.name = w /\ m.kind = "method" /\ IsOwn(m) /\ m.vis /= "private"}
    BY <1>3, <1>5 DEF OverrideLocations, KnownClasses
  <1>. QED BY <1>1, <1>2, <1>6 DEF K

-----------------------------------------------------------------------------
(* Calls.                                                                   *)

\* The least of some numbers.
LEMMA Least ==
  ASSUME NEW S \in SUBSET Nat, S /= {}
  PROVE  \E m \in S : \A k \in S : m <= k
  <1>1. PICK m \in S : \A k \in S : <<k, m>> \notin OpToRel(<, Nat)
    BY NatLessThanWellFounded, WFMin
  <1>2. \A k \in S : ~ (k < m)
    BY <1>1 DEF OpToRel
  <1>. QED  BY <1>2

LEMMA CallViews == TypeOK => CallViewsAgree
  <1>. SUFFICES ASSUME TypeOK, NEW f \in Files, docs[f] /= None, NEW c \in DOMAIN TextOf(f),
                       index[c] = f, TextOf(f)[c].kind /= "interface",
                       NEW call \in Range(TextOf(f)[c].calls),
                       PreparedAt(f, c, call) /= None, OwnMethod(c, call.in)
       PROVE LET p == PreparedAt(f, c, call)
                 sharing == {d \in KnownClasses : index[d] = index[p] /\ OwnMethod(d, call.name)}
             IN  /\ <<c, call.in>> \in Incoming(call.name)
                 /\ \E e \in Outgoing(f, c, call.in) :
                       call \in e.sites /\ (sharing = {p} => e.to = p)
    BY DEF CallViewsAgree
  <1>. DEFINE p == PreparedAt(f, c, call)
             d == TextOf(f)[c]
             w == call.in
             R(i) == CalleeClass(f, c, d.calls[i])
             Key(i) == <<index[R(i)], d.calls[i].name>>
             made == {i \in DOMAIN d.calls : d.calls[i].in = w /\ Known({R(i)}) /= {}}
             located == {i \in made : OwnMethod(R(i), d.calls[i].name)}
             first == {i \in located : \A j \in located : Key(j) = Key(i) => i <= j}
             item(i) == [to |-> R(i),
                         sites |-> {d.calls[j] : j \in {k \in made : i <= k /\ Key(k) = Key(i)}}]
  <1>1. /\ TextOf(f) \in Texts /\ c \in Classes /\ d \in Decls /\ d /= None
        /\ DOMAIN d.calls \subseteq Nat
    <2>1. TextOf(f) \in Texts BY DEF TextOf, TypeOK
    <2>2. c \in Classes BY <2>1, DeclAssumption
    <2>3. d \in Decls BY <2>1 DEF Decls
    <2>. QED BY <2>1, <2>2, <2>3, DeclAssumption DEF IsDecl
  <1>2. Found(TextOf(f), c) = d BY DEF Found
  <1>3. c \in KnownClasses /\ NowIn(c) = d
    <2>1. index[c] /= None BY NoneAssumption
    <2>. QED BY <1>1, <1>2, <2>1 DEF NowIn, OrNothing, KnownClasses, IsKnown
  <1>4. <<c, w>> \in Incoming(call.name)
    <2>1. <<c, w>> \in CallersIn(f, call.name) BY DEF CallersIn
    <2>. QED BY <1>3, <2>1 DEF Incoming
  <1>5. /\ p = CalleeClass(f, c, call) /\ p /= None /\ OwnMethod(p, call.name)
        /\ Known({p}) /= {}
    BY DEF PreparedAt, CalleeClass, OwnMethod, Known
  <1>6. Outgoing(f, c, w) = {item(i) : i \in first}
    <2>1. \E m \in MembersOf(d) : m.name = w /\ m.kind = "method" /\ IsOwn(m)
      BY <1>3 DEF OwnMethod
    <2>. QED BY <1>1, <1>2, <2>1 DEF Outgoing
  <1>7. PICK k \in DOMAIN d.calls : d.calls[k] = call BY DEF Range
  <1>8. k \in located BY <1>5, <1>7
  <1>. DEFINE Same == {j \in located : Key(j) = Key(k)}
  <1>9. Same \in SUBSET Nat /\ k \in Same BY <1>1, <1>8
  <1>10. PICK i \in Same : \A j \in Same : i <= j
    <2>. HIDE DEF Same
    <2>. QED BY <1>9, Least
  <1>11. i \in first /\ i <= k /\ Key(k) = Key(i)
    <2>. HIDE DEF located, Key
    <2>. QED BY <1>9, <1>10
  <1>12. call \in item(i).sites BY <1>7, <1>8, <1>11
  <1>13. {b \in KnownClasses : index[b] = index[p] /\ OwnMethod(b, call.name)} = {p} => item(i).to = p
    <2>1. R(k) = p BY <1>5, <1>7
    <2>2. index[R(i)] = index[p] /\ d.calls[i].name = call.name BY <1>7, <1>11, <2>1
    <2>3. OwnMethod(R(i), call.name) BY <1>10, <2>2
    <2>4. R(i) \in KnownClasses
      <3>1. R(i) = ReceiverClass(c, NowIn(c), d.calls[i]) BY <1>3 DEF CalleeClass
      <3>2. d.calls[i] \in Range(NowIn(c).calls) BY <1>3 DEF Range
      <3>3. ReceiverClass(c, NowIn(c), d.calls[i]) \in Classes \cup {None} BY <1>3, <3>2, ReceiverType
      <3>4. R(i) /= None /\ IsKnown(R(i)) BY <1>10 DEF Known
      <3>. QED BY <3>1, <3>3, <3>4 DEF KnownClasses
    <2>. QED BY <2>2, <2>3, <2>4
  <1>. QED BY <1>4, <1>6, <1>11, <1>12, <1>13

-----------------------------------------------------------------------------
(* Completion: one walk over parents and traits together, or the traits of  *)
(* each class the parents lead to.                                          *)

LEMMA CachedNow ==
  ASSUME TypeOK, EntriesCurrent, Settled, NEW S \in SUBSET KnownClasses
  PROVE  CachedIn(S) = {m \in UNION {MembersOf(NowIn(d)) : d \in S} : m.vis /= "private"}
  <1>1. \A d \in S : MembersOf(Entry(d)) = {m \in MembersOf(NowIn(d)) : m.vis /= "private"}
    BY EntryNow
  <1>. QED BY <1>1 DEF CachedIn

LEMMA BasesFacts ==
  ASSUME TypeOK, NEW c \in KnownClasses
  PROVE  /\ c \in Bases(c) /\ Bases(c) \subseteq KnownClasses
         /\ \A d \in Bases(c) : BasesOf(d) \subseteq Bases(c)
         /\ \A d \in Bases(c) \ {c} : \E e \in KnownClasses : d \in BasesOf(e)
  <1>. DEFINE L == LinksTo(BasesOf)
  <1>1. /\ AreLinks(L)
        /\ \A x, y : <<x, y>> \in L <=> x \in KnownClasses /\ y \in BasesOf(x)
        /\ \A x \in KnownClasses : BasesOf(x) \subseteq KnownClasses
    BY BaseLinks
  <1>. HIDE DEF L
  <1>2. {c} \in SUBSET Classes /\ {c} \in SUBSET KnownClasses BY DEF KnownClasses
  <1>3. Bases(c) = Closure({c}, L) BY DEF Bases, L
  <1>4. c \in Bases(c) /\ Follows(Bases(c), L) BY <1>1, <1>2, <1>3, ClosureHas, ClosureFollows
  <1>5. Bases(c) \subseteq KnownClasses BY <1>1, <1>2, <1>3, ClosureKnown
  <1>6. ASSUME NEW d \in Bases(c), NEW b \in BasesOf(d) PROVE b \in Bases(c)
    <2>1. <<d, b>> \in L BY <1>1, <1>5
    <2>. QED BY <1>4, <2>1 DEF Follows
  <1>7. \A d \in Bases(c) \ {c} : \E e \in KnownClasses : d \in BasesOf(e)
    <2>. DEFINE D == {c} \cup {d \in Classes : \E e \in KnownClasses : d \in BasesOf(e)}
    <2>1. D \in SUBSET Classes /\ {c} \in SUBSET D BY <1>2
    <2>2. \A p \in L : p = <<p[1], p[2]>> /\ p[2] \in Classes BY <1>1 DEF AreLinks
    <2>3. Follows(D, L) BY <1>1, <2>2 DEF Follows
    <2>. HIDE DEF D
    <2>4. Bases(c) \subseteq D BY <1>3, <2>1, <2>3, ClosureLeast
    <2>. QED BY <2>4 DEF D
  <1>. QED BY <1>4, <1>5, <1>6, <1>7

LEMMA ComposedFacts ==
  ASSUME TypeOK, NEW c \in KnownClasses
  PROVE  /\ c \in Composed(c) /\ Composed(c) \subseteq KnownClasses
         /\ \A d \in Composed(c) : TraitsOf(d) \subseteq Composed(c)
         /\ \A d \in Composed(c) \ {c} : \E e \in KnownClasses : d \in TraitsOf(e)
  <1>. DEFINE L == LinksTo(TraitsOf)
  <1>1. /\ AreLinks(L)
        /\ \A x, y : <<x, y>> \in L <=> x \in KnownClasses /\ y \in TraitsOf(x)
        /\ \A x \in KnownClasses : TraitsOf(x) \subseteq KnownClasses
    BY TraitLinks
  <1>. HIDE DEF L
  <1>2. {c} \in SUBSET Classes /\ {c} \in SUBSET KnownClasses BY DEF KnownClasses
  <1>3. Composed(c) = Closure({c}, L) BY DEF Composed, L
  <1>4. c \in Composed(c) /\ Follows(Composed(c), L) BY <1>1, <1>2, <1>3, ClosureHas, ClosureFollows
  <1>5. Composed(c) \subseteq KnownClasses BY <1>1, <1>2, <1>3, ClosureKnown
  <1>6. ASSUME NEW d \in Composed(c), NEW b \in TraitsOf(d) PROVE b \in Composed(c)
    <2>1. <<d, b>> \in L BY <1>1, <1>5
    <2>. QED BY <1>4, <2>1 DEF Follows
  <1>7. \A d \in Composed(c) \ {c} : \E e \in KnownClasses : d \in TraitsOf(e)
    <2>. DEFINE D == {c} \cup {d \in Classes : \E e \in KnownClasses : d \in TraitsOf(e)}
    <2>1. D \in SUBSET Classes /\ {c} \in SUBSET D BY <1>2
    <2>2. \A p \in L : p = <<p[1], p[2]>> /\ p[2] \in Classes BY <1>1 DEF AreLinks
    <2>3. Follows(D, L) BY <1>1, <2>2 DEF Follows
    <2>. HIDE DEF D
    <2>4. Composed(c) \subseteq D BY <1>3, <2>1, <2>3, ClosureLeast
    <2>. QED BY <2>4 DEF D
  <1>. QED BY <1>4, <1>5, <1>6, <1>7

LEMMA WalkedFacts ==
  ASSUME TypeOK, EntriesCurrent, Settled, NEW c \in KnownClasses
  PROVE  /\ c \in Walked({c}) /\ Walked({c}) \subseteq KnownClasses
         /\ \A d \in Walked({c}) : BasesOf(d) \cup TraitsOf(d) \subseteq Walked({c})
         /\ \A d \in Walked({c}) : Walked({d}) \subseteq Walked({c})
         /\ Walked({c}) = {c} \cup Walked({ParentOf(NowIn(c))} \cup Range(NowIn(c).uses))
         /\ \A S : (c \in S /\ S \subseteq KnownClasses
                   /\ \A d \in S : BasesOf(d) \cup TraitsOf(d) \subseteq S)
                 => Walked({c}) \subseteq S
  <1>. DEFINE L == LinksTo(EntryLinks)
  <1>1. /\ AreLinks(L)
        /\ \A x, y : <<x, y>> \in L <=> x \in KnownClasses /\ y \in BasesOf(x) \cup TraitsOf(x)
        /\ \A x \in KnownClasses : BasesOf(x) \cup TraitsOf(x) \subseteq KnownClasses
    BY CachedLinks, BaseLinks, TraitLinks
  <1>. HIDE DEF L
  <1>2. KnownClasses \subseteq Classes BY DEF KnownClasses
  <1>3. \A x \in KnownClasses : Walked({x}) = Closure({x}, L)
    <2>1. \A x \in KnownClasses : Known({x}) = {x} BY NowInFacts DEF Known
    <2>. QED BY <2>1 DEF Walked, L
  <1>. DEFINE W == Closure({c}, L)
  <1>4. c \in W /\ Follows(W, L) BY <1>1, <1>2, ClosureHas, ClosureFollows
  <1>5. W \subseteq KnownClasses
    <2>1. {c} \in SUBSET KnownClasses OBVIOUS
    <2>. QED BY <1>1, <2>1, ClosureKnown
  <1>6. ASSUME NEW d \in W, NEW b \in BasesOf(d) \cup TraitsOf(d) PROVE b \in W
    <2>1. <<d, b>> \in L BY <1>1, <1>5
    <2>. QED BY <1>4, <2>1 DEF Follows
  <1>7. ASSUME NEW d \in W PROVE Closure({d}, L) \subseteq W
    <2>1. {d} \in SUBSET W /\ {c} \in SUBSET Classes BY <1>2
    <2>. QED BY <1>1, <2>1, ClosureWithin
  <1>8. W = {c} \cup Walked({ParentOf(NowIn(c))} \cup Range(NowIn(c).uses))
    <2>. DEFINE N == Known({ParentOf(NowIn(c))} \cup Range(NowIn(c).uses))
    <2>1. N = BasesOf(c) \cup TraitsOf(c) BY DEF BasesOf, TraitsOf, Known
    <2>. HIDE DEF N
    <2>2. N = {y \in Classes : <<c, y>> \in L} BY <1>1, <1>2, <2>1
    <2>3. c \in Classes BY <1>2
    <2>4. W = {c} \cup Closure(N, L) BY <1>1, <2>2, <2>3, ClosureUnfolds
    <2>. QED BY <2>4 DEF Walked, N, L
  <1>9. ASSUME NEW S, c \in S, S \subseteq KnownClasses,
               \A d \in S : BasesOf(d) \cup TraitsOf(d) \subseteq S
        PROVE  W \subseteq S
    <2>1. \A p \in L : p = <<p[1], p[2]>> BY <1>1 DEF AreLinks
    <2>2. Follows(S, L) BY <1>1, <1>9, <2>1 DEF Follows
    <2>3. S \in SUBSET Classes /\ {c} \in SUBSET S BY <1>2, <1>9
    <2>. QED BY <2>2, <2>3, ClosureLeast
  <1>10. W = Walked({c}) BY <1>3
  <1>11. \A d \in W : Walked({d}) \subseteq W BY <1>3, <1>5, <1>7
  <1>. HIDE DEF W
  <1>. QED BY <1>4, <1>5, <1>6, <1>8, <1>9, <1>10, <1>11

LEMMA BasesWalked ==
  ASSUME TypeOK, EntriesCurrent, Settled, NEW c \in KnownClasses
  PROVE  Bases(c) \subseteq Walked({c})
  <1>. DEFINE W == Walked({c})
  <1>1. c \in W /\ W \subseteq KnownClasses /\ \A d \in W : BasesOf(d) \cup TraitsOf(d) \subseteq W
    BY WalkedFacts
  <1>2. W \in SUBSET Classes BY <1>1 DEF KnownClasses
  <1>. DEFINE L == LinksTo(BasesOf)
  <1>3. AreLinks(L) /\ \A x, y : <<x, y>> \in L => y \in BasesOf(x) BY BaseLinks
  <1>. HIDE DEF W, L
  <1>4. \A p \in L : p = <<p[1], p[2]>> BY <1>3 DEF AreLinks
  <1>5. Follows(W, L) BY <1>1, <1>3, <1>4 DEF Follows
  <1>6. {c} \in SUBSET W BY <1>1
  <1>7. Closure({c}, L) \subseteq W BY <1>2, <1>5, <1>6, ClosureLeast
  <1>. QED BY <1>7 DEF Bases, L, W

LEMMA WalkedIsComposing ==
  ASSUME TypeOK, EntriesCurrent, Settled, TraitsApart, NEW c \in KnownClasses
  PROVE  Walked({c}) = Composing(c) /\ Composing(c) \subseteq KnownClasses
  <1>. DEFINE W == Walked({c})
  <1>1. c \in W /\ W \subseteq KnownClasses /\ \A d \in W : BasesOf(d) \cup TraitsOf(d) \subseteq W
    BY WalkedFacts
  <1>2. W \in SUBSET Classes BY <1>1 DEF KnownClasses
  <1>3. Bases(c) \subseteq W BY BasesWalked
  <1>4. \A d \in W : Composed(d) \subseteq W
    <2>. TAKE d \in W
    <2>. DEFINE L == LinksTo(TraitsOf)
    <2>1. AreLinks(L) /\ \A x, y : <<x, y>> \in L => y \in TraitsOf(x) BY TraitLinks
    <2>. HIDE DEF W, L
    <2>2. \A p \in L : p = <<p[1], p[2]>> BY <2>1 DEF AreLinks
    <2>3. Follows(W, L) BY <1>1, <2>1, <2>2 DEF Follows
    <2>4. {d} \in SUBSET W OBVIOUS
    <2>. QED BY <1>2, <2>3, <2>4, ClosureLeast DEF Composed, L
  <1>5. Composing(c) \subseteq W BY <1>3, <1>4 DEF Composing
  <1>6. c \in Composing(c) BY BasesFacts, ComposedFacts DEF Composing
  <1>7. ASSUME NEW y \in Composing(c) PROVE BasesOf(y) \cup TraitsOf(y) \subseteq Composing(c)
    <2>1. PICK d \in Bases(c) : y \in Composed(d) BY DEF Composing
    <2>2. d \in KnownClasses /\ BasesOf(d) \subseteq Bases(c) BY BasesFacts
    <2>3. TraitsOf(y) \subseteq Composing(c) BY <2>1, <2>2, ComposedFacts DEF Composing
    <2>4. CASE y = d
      <3>1. \A b \in BasesOf(d) : b \in KnownClasses /\ b \in Composed(b)
        BY <2>2, BasesFacts, ComposedFacts
      <3>2. BasesOf(d) \subseteq Composing(c) BY <2>2, <3>1 DEF Composing
      <3>. QED BY <2>3, <2>4, <3>2
    <2>5. CASE y /= d
      <3>1. PICK e \in KnownClasses : y \in TraitsOf(e) BY <2>1, <2>2, <2>5, ComposedFacts
      <3>2. BasesOf(y) = {} BY <3>1 DEF TraitsApart
      <3>. QED BY <2>3, <3>2
    <2>. QED BY <2>4, <2>5
  <1>8. Composing(c) \subseteq KnownClasses BY <1>1, <1>5
  <1>9. W \subseteq Composing(c)
    <2>. DEFINE S == Composing(c)
    <2>1. c \in S /\ S \subseteq KnownClasses /\ \A d \in S : BasesOf(d) \cup TraitsOf(d) \subseteq S
      BY <1>6, <1>7, <1>8
    <2>. HIDE DEF S
    <2>2. W \subseteq S BY <2>1, WalkedFacts
    <2>. QED BY <2>2 DEF S
  <1>. QED BY <1>5, <1>8, <1>9

LEMMA LabelsApart ==
  ASSUME NEW X, NEW Y, NEW Z, X \subseteq Y \cup Z, Y \subseteq X \cup Z
  PROVE  Labels(X) \ Labels(Z) = Labels(Y) \ Labels(Z)
  BY DEF Labels

LEMMA LabelsMono == ASSUME NEW X, NEW Y, X \subseteq Y PROVE Labels(X) \subseteq Labels(Y)
  BY DEF Labels

(* What parent:: is offered of the methods of the parents and their traits. *)
LEMMA ParentMethodsFacts ==
  ASSUME TypeOK, EntriesCurrent, Settled, NEW p \in KnownClasses
  PROVE  LET up == CachedIn(Walked({p}))
         IN  /\ \A m \in ParentMethods(p) :
                   m \in up /\ (m.kind = "method" \/ (m.kind = "property" /\ ~m.static))
             /\ \A m \in up : (m.kind = "method" /\ m.name /= "__construct") => m \in ParentMethods(p)
             /\ \A d \in Walked({p}) :
                   (\A e \in KnownClasses : d \notin TraitsOf(e))
                   => \A m \in MembersOf(Entry(d)) : m.kind = "method" => m \in ParentMethods(p)
  <1>. DEFINE V == Walked({p})
             T == UNION {Range(Entry(d).uses) : d \in V}
  <1>1. ParentMethods(p) = {m \in CachedIn(V \ T) : m.kind = "method"} \cup OfInstance(CachedIn(V \cap T))
    BY DEF ParentMethods
  <1>2. V \subseteq KnownClasses BY WalkedFacts
  <1>3. ASSUME NEW d \in V, \A e \in KnownClasses : d \notin TraitsOf(e)
        PROVE  d \notin T
    <2>. SUFFICES ASSUME NEW e \in V, d \in Range(Entry(e).uses) PROVE FALSE OBVIOUS
    <2>1. d \in Range(NowIn(e).uses) BY <1>2, EntryNow
    <2>2. d \in TraitsOf(e) BY <1>2, <2>1, TraitLinks
    <2>. QED BY <1>2, <1>3, <2>2
  <1>. HIDE DEF V, T
  <1>4. ASSUME NEW m \in CachedIn(V), m.kind = "method", m.name /= "__construct"
        PROVE  m \in ParentMethods(p)
    <2>1. PICK d \in V : m \in MembersOf(Entry(d)) BY DEF CachedIn
    <2>2. m \in CachedIn(V \ T) \/ m \in CachedIn(V \cap T) BY <2>1 DEF CachedIn
    <2>. QED BY <1>1, <1>4, <2>2 DEF OfInstance
  <1>5. ASSUME NEW d \in V, \A e \in KnownClasses : d \notin TraitsOf(e),
               NEW m \in MembersOf(Entry(d)), m.kind = "method"
        PROVE  m \in ParentMethods(p)
    <2>1. m \in CachedIn(V \ T) BY <1>3, <1>5 DEF CachedIn
    <2>. QED BY <1>1, <1>5, <2>1
  <1>6. \A m \in ParentMethods(p) :
           m \in CachedIn(V) /\ (m.kind = "method" \/ (m.kind = "property" /\ ~m.static))
    BY <1>1 DEF CachedIn, OfInstance
  <1>. QED BY <1>4, <1>5, <1>6 DEF V

LEMMA ParentOffered ==
  ASSUME TypeOK, EntriesCurrent, Settled, TraitsApart, NEW c \in KnownClasses, NEW p \in BasesOf(c)
  PROVE  LET up == {m \in Inherited(p) : m.vis /= "private"}
             methods == {m \in up : m.kind = "method"}
             aside == {m \in up : ~m.static /\ (m.kind = "property" \/ m.name = "__construct")}
             made == {m \in UNION {MembersOf(NowIn(d)) : d \in Bases(p)} :
                         m \in methods /\ m.name = "__construct"}
         IN  /\ AfterParent(c) \ Labels(aside)
                   = Labels(OfClass(up) \cup methods) \ Labels(aside)
             /\ Labels(made) \subseteq AfterParent(c)
  <1>. DEFINE up == {m \in Inherited(p) : m.vis /= "private"}
             methods == {m \in up : m.kind = "method"}
             aside == {m \in up : ~m.static /\ (m.kind = "property" \/ m.name = "__construct")}
             made == {m \in UNION {MembersOf(NowIn(d)) : d \in Bases(p)} :
                         m \in methods /\ m.name = "__construct"}
             X == OfClass(up) \cup ParentMethods(p)
             Y == OfClass(up) \cup methods
  <1>1. p \in KnownClasses /\ p = ParentOf(NowIn(c)) /\ p /= None BY BaseLinks, NowInFacts
  <1>2. up = CachedIn(Walked({p}))
    BY <1>1, WalkedIsComposing, CachedNow DEF Inherited
  <1>3. AfterParent(c) = Labels(X) BY <1>1, <1>2 DEF AfterParent
  <1>4. /\ \A m \in ParentMethods(p) :
              m \in up /\ (m.kind = "method" \/ (m.kind = "property" /\ ~m.static))
        /\ \A m \in up : (m.kind = "method" /\ m.name /= "__construct") => m \in ParentMethods(p)
        /\ \A d \in Walked({p}) :
              (\A e \in KnownClasses : d \notin TraitsOf(e))
              => \A m \in MembersOf(Entry(d)) : m.kind = "method" => m \in ParentMethods(p)
    BY <1>1, <1>2, ParentMethodsFacts
  <1>5. X \subseteq Y \cup aside BY <1>4
  <1>6. Y \subseteq X \cup aside
    <2>. SUFFICES ASSUME NEW m \in methods PROVE m \in X \cup aside OBVIOUS
    <2>1. CASE m.name /= "__construct" BY <1>4, <2>1
    <2>2. CASE m.name = "__construct" /\ m.static BY <2>2 DEF OfClass
    <2>3. CASE m.name = "__construct" /\ ~m.static BY <2>3
    <2>. QED BY <2>1, <2>2, <2>3
  <1>7. made \subseteq X
    <2>. SUFFICES ASSUME NEW d \in Bases(p), NEW m \in MembersOf(NowIn(d)), m \in methods
                  PROVE  m \in ParentMethods(p)
      OBVIOUS
    <2>1. d \in Walked({p}) /\ d \in KnownClasses BY <1>1, BasesWalked, BasesFacts
    <2>2. m \in MembersOf(Entry(d)) BY <2>1, EntryNow
    <2>3. \E b \in KnownClasses : d \in BasesOf(b) BY <1>1, BasesFacts
    <2>4. \A e \in KnownClasses : d \notin TraitsOf(e) BY <2>3 DEF TraitsApart
    <2>. QED BY <1>4, <2>1, <2>2, <2>4
  <1>. HIDE DEF up, methods, aside, made, X, Y
  <1>8. Labels(X) \ Labels(aside) = Labels(Y) \ Labels(aside) BY <1>5, <1>6, LabelsApart
  <1>9. Labels(made) \subseteq Labels(X) BY <1>7, LabelsMono
  <1>. QED BY <1>3, <1>8, <1>9 DEF up, methods, aside, made, Y

LEMMA OffersMembers == (TypeOK /\ EntriesCurrent) => MembersOffered
  <1>. SUFFICES ASSUME TypeOK, EntriesCurrent, Settled, TraitsApart, NEW c \in KnownClasses
       PROVE LET all == {m \in Inherited(c) : m.vis /= "private"}
                 pub == {m \in all : IsPublic(m)}
             IN  /\ AfterArrow(c) = Labels(OfInstance(pub))
                 /\ AfterColons(c) = Labels(OfClass(pub))
                 /\ Labels(OfInstance(all \cup MembersOf(NowIn(c)))) \subseteq AfterThis(c)
                 /\ AfterSelf(c) \subseteq Labels(OfClass(all \cup MembersOf(NowIn(c))))
    BY ParentOffered DEF MembersOffered
  <1>. DEFINE all == {m \in Inherited(c) : m.vis /= "private"}
             pub == {m \in all : IsPublic(m)}
             own == MembersOf(NowIn(c))
             W == Walked({c})
             Q == {ParentOf(NowIn(c))} \cup Range(NowIn(c).uses)
  <1>1. W \subseteq KnownClasses /\ all = CachedIn(W)
    BY WalkedIsComposing, CachedNow DEF Inherited
  <1>2. /\ W = {c} \cup Walked(Q)
        /\ \A d \in W : BasesOf(d) \cup TraitsOf(d) \subseteq W
        /\ \A d \in W : Walked({d}) \subseteq W
        /\ c \in W
    BY WalkedFacts
  <1>. HIDE DEF all, W, Q
  <1>3. OfInstance(pub) = {m \in OfInstance(all) : IsPublic(m)} BY DEF OfInstance
  <1>4. OfClass(pub) = {m \in OfClass(all) : IsPublic(m)} BY DEF OfClass
  <1>5. AfterArrow(c) = Labels(OfInstance(pub)) BY <1>1, <1>3 DEF AfterArrow, W
  <1>6. AfterColons(c) = Labels(OfClass(pub)) BY <1>1, <1>4 DEF AfterColons, W
  <1>7. Labels(OfInstance(all \cup own)) \subseteq AfterThis(c)
    <2>. DEFINE A == {m \in own : m.kind /= "constant"}
               B == OfInstance(CachedIn(Walked(Q)))
    <2>1. AfterThis(c) = Labels(A) \cup Labels(B) BY DEF AfterThis, Q
    <2>2. CachedIn({c}) \subseteq own
      <3>1. MembersOf(Entry(c)) \subseteq MembersOf(NowIn(c)) BY EntryNow
      <3>. QED BY <3>1 DEF CachedIn
    <2>3. all \subseteq own \cup CachedIn(Walked(Q)) BY <1>1, <1>2, <2>2 DEF CachedIn
    <2>4. OfInstance(all \cup own) \subseteq A \cup B BY <2>3 DEF OfInstance
    <2>. HIDE DEF A, B
    <2>5. Labels(A \cup B) \subseteq Labels(A) \cup Labels(B) BY DEF Labels
    <2>. QED BY <2>1, <2>4, <2>5, LabelsMono
  <1>8. AfterSelf(c) \subseteq Labels(OfClass(all \cup own))
    <2>. DEFINE p == ParentOf(NowIn(c))
    <2>1. \A d \in W : AfterColons(d) \subseteq Labels(OfClass(all))
      <3>. TAKE d \in W
      <3>1. CachedIn(Walked({d})) \subseteq all BY <1>1, <1>2 DEF CachedIn
      <3>2. {m \in OfClass(CachedIn(Walked({d}))) : IsPublic(m)} \subseteq OfClass(all)
        BY <3>1 DEF OfClass
      <3>. QED BY <3>2, LabelsMono DEF AfterColons
    <2>2. p = None \/ AfterColons(p) \subseteq Labels(OfClass(all))
      <3>1. CASE p \in BasesOf(c) BY <1>2, <2>1, <3>1
      <3>2. CASE p \notin BasesOf(c)
        <4>1. Known({p}) = {} BY <3>2 DEF BasesOf, Known
        <4>2. Walked({p}) = {}
          <5>1. Follows({}, LinksTo(EntryLinks)) BY DEF Follows
          <5>. QED BY <4>1, <5>1, ClosureLeast DEF Walked
        <4>. QED BY <4>2 DEF AfterColons, Labels, OfClass, CachedIn
      <3>. QED BY <3>1, <3>2
    <2>3. Labels({m \in own : m.static /\ m.name /= "__construct"}) \subseteq Labels(OfClass(all \cup own))
      <3>1. {m \in own : m.static /\ m.name /= "__construct"} \subseteq OfClass(all \cup own) BY DEF OfClass
      <3>. QED BY <3>1, LabelsMono
    <2>4. Labels(OfClass(all)) \subseteq Labels(OfClass(all \cup own))
      <3>1. OfClass(all) \subseteq OfClass(all \cup own) BY DEF OfClass
      <3>. QED BY <3>1, LabelsMono
    <2>5. AfterColons(c) \subseteq Labels(OfClass(all)) BY <1>2, <2>1
    <2>. QED BY <2>2, <2>3, <2>4, <2>5 DEF AfterSelf
  <1>. QED BY <1>5, <1>6, <1>7, <1>8 DEF all

(* What override completion reads of a file is what the cache has of it.    *)
LEMMA FirstIsOnly ==
  ASSUME TypeOK, Saved, NEW c \in KnownClasses, DOMAIN disk[index[c]].text = {c}
  PROVE  FirstOnDisk(c) = NowIn(c)
  <1>. DEFINE t == disk[index[c]].text
  <1>1. index[c] \in Files BY NowInFacts
  <1>2. TextOf(index[c]) = t BY <1>1 DEF TextOf, Saved
  <1>3. t \in Texts BY <1>1 DEF TypeOK
  <1>4. t[c] \in Decls /\ t[c] /= None /\ t[c].at \in Nat
    <2>1. t[c] \in Decls BY <1>3 DEF Decls
    <2>. QED BY <2>1, DeclAssumption DEF IsDecl
  <1>5. FirstIn(t) = c BY <1>4 DEF FirstIn
  <1>6. NowIn(c) = t[c] BY <1>2, <1>4 DEF NowIn, OrNothing, Found
  <1>. QED BY <1>5, <1>6 DEF FirstOnDisk

LEMMA OffersOverrides == (TypeOK /\ EntriesCurrent) => OverridesOffered
  <1>. SUFFICES ASSUME TypeOK, EntriesCurrent, Settled, Saved,
                       \A c \in KnownClasses : DOMAIN disk[index[c]].text = {c},
                       NEW c \in KnownClasses, NEW vis \in {"public", "protected"},
                       NEW static \in BOOLEAN
       PROVE Labels(OverrideOffers(c, vis, static)) \subseteq AfterParent(c)
    BY DEF OverridesOffered
  <1>1. \A d \in KnownClasses : FirstOnDisk(d) = NowIn(d) BY FirstIsOnly
  <1>2. LinksTo(DiskParents) = LinksTo(BasesOf)
    <2>1. \A d \in KnownClasses : DiskParents(d) = BasesOf(d) BY <1>1 DEF DiskParents, BasesOf
    <2>. QED BY <2>1 DEF LinksTo
  <1>3. CASE BasesOf(c) = {}
    <2>1. Follows({}, LinksTo(BasesOf)) BY DEF Follows
    <2>2. Closure({}, LinksTo(BasesOf)) = {} BY <2>1, ClosureLeast
    <2>. QED BY <1>2, <1>3, <2>2 DEF OverrideOffers, BasesOf, Labels
  <1>4. CASE BasesOf(c) /= {}
    <2>. DEFINE p == ParentOf(NowIn(c))
    <2>1. BasesOf(c) = {p} /\ p \in KnownClasses /\ p /= None BY <1>4, BaseLinks, NowInFacts
    <2>2. Closure(Known({p}), LinksTo(DiskParents)) = Bases(p) BY <1>2, <2>1 DEF BasesOf, Bases
    <2>3. Bases(p) \subseteq Walked({p}) /\ Bases(p) \subseteq KnownClasses
      BY <2>1, BasesWalked, BasesFacts
    <2>4. OverrideOffers(c, vis, static) \subseteq ParentMethods(p)
      <3>. SUFFICES ASSUME NEW d \in Bases(p), NEW m \in Overridable(FirstOnDisk(d), c, vis, static)
                    PROVE  m \in ParentMethods(p)
        BY <2>2 DEF OverrideOffers
      <3>1. /\ m \in MembersOf(NowIn(d)) /\ m.kind = "method" /\ m.name /= "__construct"
            /\ m.vis /= "private"
        BY <1>1, <2>3 DEF Overridable
      <3>2. m \in MembersOf(Entry(d)) BY <2>3, <3>1, EntryNow
      <3>3. m \in CachedIn(Walked({p})) BY <2>3, <3>2 DEF CachedIn
      <3>. QED BY <2>1, <3>1, <3>3, ParentMethodsFacts
    <2>5. ParentMethods(p) \subseteq OfClass(CachedIn(Walked({p}))) \cup ParentMethods(p) OBVIOUS
    <2>6. AfterParent(c) = Labels(OfClass(CachedIn(Walked({p}))) \cup ParentMethods(p))
      BY <2>1 DEF AfterParent
    <2>. QED BY <2>4, <2>6, LabelsMono
  <1>. QED BY <1>3, <1>4

-----------------------------------------------------------------------------
LEMMA InvariantHolds == Spec => [](TypeOK /\ EntriesCurrent)
  <1>1. Init => IInv BY InitInv
  <1>2. IInv /\ [Next]_vars => IInv' BY NextInv
  <1>3. IInv => TypeOK /\ EntriesCurrent BY SoundMeansCurrent DEF IInv
  <1>. QED BY <1>1, <1>2, <1>3, PTL DEF Spec

(* In whatever order files are edited, saved, closed and written by others  *)
(* and the cache is filled, completion offers after ->, ::, parent::, $this *)
(* and self:: the members that the declarations give the class, and for     *)
(* overriding nothing that parent:: does not reach, while no file is left   *)
(* with entries of a document that was closed.                              *)
THEOREM CompletionOffersAccessible == Spec => []OffersAreAccessible
  <1>1. TypeOK /\ EntriesCurrent => OffersAreAccessible
    BY OffersMembers, OffersOverrides DEF OffersAreAccessible
  <1>. QED BY <1>1, InvariantHolds, PTL

(* Supertypes and subtypes, implementations and the overrides that a code   *)
(* lens counts are one relation, walked up through the cache or down        *)
(* through the headers; and a call that the call hierarchy is prepared at   *)
(* is among the outgoing calls of its method and the incoming of its name.  *)
THEOREM HierarchyViewsAgree == Spec => []HierarchiesAgree
  <1>1. TypeOK /\ EntriesCurrent => HierarchiesAgree
    BY TypeViews, CallViews DEF HierarchiesAgree
  <1>. QED BY <1>1, InvariantHolds, PTL

(* Where no class has two parents of any sort, the rename of a method       *)
(* renames of related declarations all or none, and a call exactly when it  *)
(* renames the declaration that the call reaches (lsp_rename_class_in_family *)
(* compares all ancestors of two classes).                                  *)
THEOREM RenamedLinksKept == Spec => []RenameKeepsLinks
  <1>1. TypeOK /\ EntriesCurrent => RenameKeepsLinks BY RenameKeeps
  <1>. QED BY <1>1, InvariantHolds, PTL
=============================================================================
