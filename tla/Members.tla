------------------------------- MODULE Members -------------------------------
(***************************************************************************)
(* The answers about members of classes that depend on the order in which  *)
(* a walk comes to the classes: hover, go to definition and signature help *)
(* name the first class that declares a member.  The first walks the       *)
(* member cache, the second the files on disk, the third the cache without *)
(* the traits.  Requests walk while files are edited, saved, closed and    *)
(* written by others, and fill the member cache as they go.                *)
(***************************************************************************)
EXTENDS Hierarchy, SequencesExt

Some(x)   == IF x = None THEN <<>> ELSE <<x>>
OnDisk(c) == OrNothing(Found(disk[index[c]].text, c))

------------------------------------------------------------------------------
\* The classes in the order the walks over the cache reach them: the class,
\* its traits and theirs, its parent; none is reached twice
RECURSIVE Reached(_, _)
Reached(todo, seen) ==
    IF todo = <<>> THEN seen
    ELSE LET c == Head(todo)
         IN  IF c \in Range(seen) \/ ~IsKnown(c) THEN Reached(Tail(todo), seen)
             ELSE Reached(Entry(c).uses \o Some(ParentOf(Entry(c))) \o Tail(todo),
                          Append(seen, c))

\* The classes that the walks without traits reach
RECURSIVE ChainFrom(_, _)
ChainFrom(c, seen) ==
    IF c = None \/ c \in Range(seen) \/ ~IsKnown(c) THEN seen
    ELSE ChainFrom(ParentOf(Entry(c)), Append(seen, c))
Chain(c) == ChainFrom(c, <<>>)

WalkWithoutTraits(c) == Chain(c)
Walk(c) == Reached(<<c>>, <<>>)

------------------------------------------------------------------------------
FirstWith(classes, Test(_)) ==
    LET hits == SelectSeq(classes, Test) IN IF hits = <<>> THEN None ELSE Head(hits)

Declares(d, w)       == \E m \in MembersOf(d) : m.name = w

\* lsp_inherited_member_detail: the class whose member hover shows
DetailFrom(c, w) == FirstWith(Walk(c), LAMBDA d : Declares(Entry(d), w))

\* lsp_hover_member_access_markdown on $this-> in the class c: what the class
\* itself keeps private comes last
HoverThis(c, w) ==
    LET shown == DetailFrom(c, w)
        own   == \E m \in MembersOf(NowIn(c)) :
                    m.name = w /\ m.from = "code" /\ m.kind /= "constant"
    IN  IF shown /= None THEN shown ELSE IF own THEN c ELSE None

\* lsp_project_class_method_signature: traits are not asked
SignatureFrom(c, w) == FirstWith(Chain(c), LAMBDA d : DeclaresMethod(Entry(d), w))

\* lsp_member_call_signature on $this->
SignatureThis(c, w) ==
    IF \E m \in MembersOf(NowIn(c)) : m.name = w /\ m.kind = "method" /\ IsOwn(m)
    THEN c
    ELSE IF ParentOf(NowIn(c)) = None THEN None
    ELSE SignatureFrom(ParentOf(NowIn(c)), w)

\* The class whose body is searched in a file on disk: the one that is named,
\* else the first one
SearchedOnDisk(c) ==
    LET t == disk[index[c]].text
    IN  IF c \in DOMAIN t THEN c ELSE IF DOMAIN t = {} THEN None ELSE FirstIn(t)
BodyOnDisk(c) ==
    IF SearchedOnDisk(c) = None THEN Nothing
    ELSE disk[index[c]].text[SearchedOnDisk(c)]

\* lsp_project_method_definition_for_class: <<class searched, class found>>
RECURSIVE DefinitionIn(_, _, _)
DefinitionIn(todo, w, depth) ==
    IF todo = <<>> THEN None
    ELSE LET c == Head(todo)
             d == BodyOnDisk(c)
             hit == \E m \in MembersOf(d) :
                        m.name = w /\ IsOwn(m) /\ m.kind /= "constant"
         IN  IF ~IsKnown(c) \/ depth = 0 THEN DefinitionIn(Tail(todo), w, depth)
             ELSE IF hit THEN SearchedOnDisk(c)
             ELSE DefinitionIn(OnDisk(c).uses \o Some(ParentOf(d)) \o Tail(todo),
                               w, depth - 1)
Definition(c, w) == DefinitionIn(<<c>>, w, 2 * Cardinality(Classes))

\* lsp_project_static_member_definition_for_class: no traits, nothing private;
\* self:: and parent:: reach methods of instances as well
RECURSIVE StaticDefinitionIn(_, _, _, _)
StaticDefinitionIn(c, w, publicOnly, depth) ==
    IF c = None \/ depth = 0 THEN None
    ELSE IF ~IsKnown(c) THEN None
    ELSE LET d   == BodyOnDisk(c)
             hit == \E m \in MembersOf(d) :
                        /\ m.name = w /\ m.from = "code" /\ m.vis /= "private"
                        /\ publicOnly => IsPublic(m)
                        /\ \/ m.kind = "constant" \/ m.static
                           \/ ~publicOnly /\ m.kind = "method"
         IN  IF hit THEN SearchedOnDisk(c)
             ELSE StaticDefinitionIn(ParentOf(d), w, publicOnly, depth - 1)
StaticDefinition(c, w, publicOnly) ==
    StaticDefinitionIn(c, w, publicOnly, 2 * Cardinality(Classes))

------------------------------------------------------------------------------
UpTo(classes, d) ==
    IF d = None THEN Range(classes)
    ELSE {classes[i] : i \in 1..CHOOSE i \in DOMAIN classes : classes[i] = d}

\* Where a walk reads the parent after the traits, the entry it reads it from
\* may have been moved by the entries that were made for the traits
MayHaveMoved(c) ==
    \E d \in Range(Walk(c)) :
        /\ ParentOf(Entry(d)) /= None
        /\ \E t \in Range(Entry(d).uses) : IsKnown(t) /\ ~IsFresh(cache[t], index[t])

CompleteMember(c)  == Query(Range(Walk(c)))

\* lsp_inherited_member_detail and parent:: completion: nothing is known of
\* what is asked for once an entry was moved under the walk
WalkParentLast(c, upTo) ==
    IF MayHaveMoved(c)
    THEN \E S \in SUBSET Classes : c \in S /\ Query(S)
    ELSE Query(upTo)

HoverMember(c, w)  == WalkParentLast(c, UpTo(Walk(c), DetailFrom(c, w)))
CompleteParent(c)  == WalkParentLast(c, Range(Walk(c)))
AskSignature(c, w) == Query(UpTo(Chain(c), SignatureFrom(c, w)))
AskCodeLens(c)     == Query(UNION {Range(Chain(d)) : d \in Classes \ {c}})

Request ==
    \E c \in Classes :
        /\ IsKnown(c)
        /\ \/ CompleteMember(c)
           \/ CompleteParent(c)
           \/ AskCodeLens(c)
           \/ \E w \in Words : HoverMember(c, w) \/ AskSignature(c, w)

MNext == FileStep \/ Request
MSpec == Init /\ [][MNext]_vars

------------------------------------------------------------------------------
\* A name of members of one kind only, none a constant or only documented
Unambiguous(w) ==
    LET M == {m \in UNION {MembersOf(NowIn(c)) : c \in KnownClasses} : m.name = w}
    IN  /\ Cardinality({m.kind : m \in M}) <= 1
        /\ \A m \in M : m.kind /= "constant" /\ IsOwn(m)

\* The walks in order reach what the hierarchy says they reach
WalksReach ==
    \A c \in KnownClasses : Range(Walk(c)) = Walked({c}) /\ Range(Chain(c)) = Lineage(c)

\* Hover, go to definition and signature help speak of one declaration where a
\* class and a name are asked for; where a trait declares the name, that holds
\* of hover and go to definition.
SameMember ==
    Settled /\ Saved /\ LegalProgram =>
        \A c \in KnownClasses, w \in {v \in Words : Unambiguous(v)} :
            LET shown  == DetailFrom(c, w)
                here   == HoverThis(c, w)
                static == StaticDefinition(c, w, TRUE)
                sign   == SignatureFrom(c, w)
                signed == SignatureThis(c, w)
            IN  /\ shown /= None => Definition(c, w) = shown
                /\ here /= None => Definition(c, w) = here
                /\ (\A d \in Composing(c) \ Bases(c) : ~Declares(NowIn(d), w)) =>
                      /\ sign /= None => shown = sign
                      /\ signed /= None => here = signed
                      /\ static /= None => shown = static

\* Go to definition leads to the class the call hierarchy is prepared for.
PreparedIsDefined ==
    Settled /\ Saved =>
        \A f \in {g \in Files : docs[g] /= None} :
            \A c \in DOMAIN TextOf(f) :
                \A call \in Range(TextOf(f)[c].calls) :
                    LET p == PreparedAt(f, c, call)
                    IN  (index[c] = f /\ p /= None /\ OwnMethod(c, call.in))
                            => Definition(p, call.name) = p

\* Hover, go to definition, signature help and the call hierarchy speak of the
\* same declaration, although the first walks the cache, the second the files
\* on disk, the third the cache without the traits and the fourth the text.
AnswersAgree == WalksReach /\ SameMember /\ PreparedIsDefined
==============================================================================
