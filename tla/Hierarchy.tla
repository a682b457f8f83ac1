------------------------------- MODULE Hierarchy -------------------------------
(***************************************************************************)
(* The hierarchy of the classes of a project, as its readers see it: the   *)
(* members completed after ->, :: and parent::, completions of overriding  *)
(* methods, code lenses that count overrides, the type hierarchy, go to    *)
(* implementation, the rename of a method, and who calls whom.  The walks  *)
(* read it through the member cache, from the files on disk or from the    *)
(* class headers; what a walk gathers is a set, so that a walk is given by *)
(* the classes it reaches.  The answers that depend on the order of a walk *)
(* are in Members.                                                         *)
(*                                                                         *)
(* A declaration names its kind, its place in the file, what it extends,   *)
(* implements and uses, its members and, in their order, the method calls  *)
(* of its bodies, those in closures counted to the method around.  The     *)
(* walks of the code end eight levels up, a bound against cycles;          *)
(* hierarchies are taken to be lower than that.                            *)
(***************************************************************************)
EXTENDS MemberCache, Sequences, Functions

CONSTANT Words   \* names of members

Member(name, kind, vis, static, final, from) ==
    [name |-> name, kind |-> kind, vis |-> vis, static |-> static,
     final |-> final, from |-> from]

\* The receiver of a call: $this, self::, parent::, Name:: or a variable with
\* the class that inference finds for it, None if it finds none
Call(in, recv, of, name) == [in |-> in, recv |-> recv, of |-> of, name |-> name]

Nothing == [kind |-> "none", at |-> 0, extends |-> <<>>, implements |-> <<>>,
            uses |-> <<>>, members |-> {}, calls |-> <<>>]
OrNothing(d) == IF d = None THEN Nothing ELSE d

IsDecl(d) ==
    /\ DOMAIN d = DOMAIN Nothing
    /\ d.kind \in {"class", "interface", "trait", "enum"}
    /\ d.at \in Nat
    /\ d.extends \in Seq(Classes)
    /\ d.implements \in Seq(Classes)
    /\ d.uses \in Seq(Classes)
    /\ DOMAIN d.calls \subseteq Nat
    /\ \A i \in DOMAIN d.calls : d.calls[i].of \in Classes \cup {None}

ASSUME DeclAssumption ==
    /\ None \notin Classes
    /\ \A t \in Texts : DOMAIN t \subseteq Classes
    /\ \A d \in Decls : d /= None /\ IsDecl(d)

ParentOf(d)  == IF d.extends = <<>> THEN None ELSE d.extends[1]
MembersOf(d) == d.members
IsOwn(m)     == m.from /= "phpdoc"

\* lsp_find_project_symbol_path and lsp_document_for_path
IsKnown(c)   == index[c] /= None
Known(names) == {n \in names : n /= None /\ IsKnown(n)}
KnownClasses == {c \in Classes : IsKnown(c)}
NowIn(c)     == OrNothing(Found(TextOf(index[c]), c))
OwnMethod(c, w) ==
    IsKnown(c) /\ \E m \in MembersOf(NowIn(c)) : m.name = w /\ m.kind = "method" /\ IsOwn(m)

\* Pairs of a class and one that a walk goes on to from there; and what is
\* reached along some links: the least set that has C and follows them
LinksTo(Step(_)) == UNION {{c} \X Step(c) : c \in KnownClasses}
Closure(C, links) ==
    LET closed == {D \in SUBSET Classes :
                      C \subseteq D /\ \A e \in links : e[1] \in D => e[2] \in D}
    IN  {c \in Classes : \A D \in closed : c \in D}

------------------------------------------------------------------------------
CacheablePrivate(d) == MembersOf(d)
\* What the cache keeps: no private member
Cacheable(d) == {m \in MembersOf(d) : m.vis /= "private"}

\* lsp_class_member_cache_entry
Entry(c) ==
    LET e == cache[c]
        d == IF IsFresh(e, index[c]) THEN e.decl ELSE Built(c, index[c]).decl
    IN  [OrNothing(d) EXCEPT !.members = Cacheable(OrNothing(d))]

\* What the walks over the cache reach from some classes: these, their traits
\* and their parents; and what those reach that do not ask traits
EntryParents(c) == Known({ParentOf(Entry(c))})
EntryLinks(c)   == Known(Range(Entry(c).uses) \cup {ParentOf(Entry(c))})
Walked(names)   == Closure(Known(names), LinksTo(EntryLinks))
Lineage(c)      == Closure({c}, LinksTo(EntryParents))

Label(m)       == <<m.kind, m.name>>
Labels(M)      == {Label(m) : m \in M}
CachedIn(C)    == UNION {MembersOf(Entry(d)) : d \in C}
IsPublic(m)    == m.vis = "public"

\* lsp_add_cached_class_member_completions_ex
OfInstance(M) ==
    {m \in M : \/ m.kind = "method" /\ m.name /= "__construct"
               \/ m.kind = "property" /\ ~m.static}

\* lsp_add_cached_static_class_member_completions_ex
OfClass(M) ==
    {m \in M : m.kind = "constant" \/ m.static}

\* lsp_add_inherited_public_project_class_member_completions, for $object->
AfterArrow(c) == Labels({m \in OfInstance(CachedIn(Walked({c}))) : IsPublic(m)})

\* lsp_add_static_project_class_member_completions, for Name::
AfterColons(c) == Labels({m \in OfClass(CachedIn(Walked({c}))) : IsPublic(m)})

\* lsp_add_inherited_project_class_method_completions: the methods of the
\* parents, constructors included, and what traits bring in
ParentMethods(c) ==
    LET traits == UNION {Range(Entry(d).uses) : d \in Walked({c})}
    IN  {m \in CachedIn(Walked({c}) \ traits) : m.kind = "method"}
        \cup OfInstance(CachedIn(Walked({c}) \cap traits))

\* parent:: in the class c
AfterParent(c) ==
    LET p == ParentOf(NowIn(c))
    IN  IF p = None THEN {}
        ELSE Labels(OfClass(CachedIn(Walked({p}))) \cup ParentMethods(p))

\* lsp_add_this_member_completions in the class c: everything the class says
\* itself, private and static as well, then parents and traits
AfterThis(c) ==
    LET d == NowIn(c)
    IN  Labels({m \in MembersOf(d) : m.kind /= "constant"})
        \cup Labels(OfInstance(CachedIn(Walked({ParentOf(d)} \cup Range(d.uses)))))

\* self:: in the class c: lsp_add_current_static_member_completions, the
\* documented members, the public ones of the parent and of the class
AfterSelf(c) ==
    LET d == NowIn(c)
    IN  Labels({m \in MembersOf(d) : m.static /\ m.name /= "__construct"})
        \cup (IF ParentOf(d) = None THEN {} ELSE AfterColons(ParentOf(d)))
        \cup AfterColons(c)

------------------------------------------------------------------------------
DeclaresMethod(d, w) == \E m \in MembersOf(d) : m.name = w /\ m.kind = "method"

FirstIn(t) == CHOOSE c \in DOMAIN t : \A d \in DOMAIN t : t[c].at <= t[d].at

\* lsp_add_override_method_completions in the class c: the methods of the
\* first class of the parent's file, then of that one's parent
Overridable(d, c, vis, static) ==
    {m \in MembersOf(d) :
        /\ m.kind = "method" /\ IsOwn(m) /\ m.name /= "__construct"
        /\ ~DeclaresMethod(NowIn(c), m.name)
        /\ m.vis /= "private" /\ ~m.final
        /\ m.vis = vis /\ m.static = static}

FirstOnDisk(c) ==
    LET t == disk[index[c]].text IN IF DOMAIN t = {} THEN Nothing ELSE t[FirstIn(t)]
DiskParents(c) == Known({ParentOf(FirstOnDisk(c))})
OverrideOffers(c, vis, static) ==
    UNION {Overridable(FirstOnDisk(p), c, vis, static) :
              p \in Closure(Known({ParentOf(NowIn(c))}), LinksTo(DiskParents))}

\* lsp_project_class_extends_class
ExtendsClass(c, base) == \E d \in Lineage(c) : ParentOf(Entry(d)) = base

\* lsp_add_project_override_locations
OverrideLocations(base, w) ==
    {c \in Classes \ {base} :
        /\ IsKnown(c)
        /\ NowIn(c).kind = "class"
        /\ ExtendsClass(c, base)
        /\ \E m \in MembersOf(NowIn(c)) :
              m.name = w /\ m.kind = "method" /\ IsOwn(m) /\ m.vis /= "private"}

\* lsp_lsparrot_code_lens: the methods that get a lens
LensMethods(c) ==
    {m.name : m \in {n \in MembersOf(NowIn(c)) :
        /\ n.kind = "method" /\ IsOwn(n) /\ n.name /= "__construct"
        /\ n.vis /= "private" /\ ~n.final}}

------------------------------------------------------------------------------
\* lsp_hier_collect_header_names
HeaderNames(d) == Range(d.extends) \cup Range(d.implements)
HasHeader(c)   == IsKnown(c) /\ NowIn(c) /= Nothing

\* lsp_lsparrot_type_hierarchy_supertypes, of a class with a header
Supertypes(c) == {s \in HeaderNames(NowIn(c)) : HasHeader(s)}

\* lsp_lsparrot_type_hierarchy_subtypes
Subtypes(s) ==
    {c \in Classes \ {s} :
        /\ HasHeader(c)
        /\ NowIn(c).kind \in {"class", "interface", "enum"}
        /\ s \in HeaderNames(NowIn(c))}

\* lsp_refactor_add_implementation_locations_ex, of a type
Implementations(s) ==
    {c \in Classes \ {s} :
        /\ HasHeader(c)
        /\ NowIn(c).kind \in {"class", "interface"}
        /\ \/ s \in Range(NowIn(c).extends)
           \/ s \in Range(NowIn(c).implements)}

------------------------------------------------------------------------------
\* lsp_rename_collect_ancestors: the class and whatever it extends,
\* implements or uses, with the names nobody declares
Up(c) == HeaderNames(NowIn(c)) \cup Range(NowIn(c).uses)
AncestorsOf(C) == Closure(C, LinksTo(Up))

InFamilyInLine(c, owner) == owner \in AncestorsOf({c}) \/ c \in AncestorsOf({owner})
\* lsp_rename_class_in_family
InFamily(c, owner) == AncestorsOf({c}) \cap AncestorsOf({owner}) /= {}

ReceiverClass(c, d, call) ==
    CASE call.recv \in {"this", "self"} -> c
      [] call.recv = "parent"           -> ParentOf(d)
      [] OTHER                          -> call.of

\* lsp_rename_add_method_changes_in_contents: the declarations of a file
RenamedIn(f, owner, w) ==
    LET t == TextOf(f)
    IN  {c \in DOMAIN t :
            /\ \E m \in MembersOf(t[c]) : m.name = w /\ m.kind = "method" /\ IsOwn(m)
            /\ InFamily(c, owner)}

\* ... and the calls in the bodies of the class c of a file
CallRenamed(f, c, call, owner) ==
    LET R == ReceiverClass(c, TextOf(f)[c], call)
    IN  \/ call.recv = "var" /\ docs[f] = None
        \/ R = None
        \/ InFamily(R, owner)

\* lsp_refactor_add_method_rename_changes: the files of the index and the one
\* the rename was asked in
RenamedFiles(f) == {f} \cup {index[c] : c \in KnownClasses}
Renamed(f, owner, w) == UNION {RenamedIn(g, owner, w) : g \in RenamedFiles(f)}

------------------------------------------------------------------------------
(* The call hierarchy                                                      *)

\* lsp_lsparrot_prepare_call_hierarchy at a call in the class c of the document
\* f: the class that declares what is called, None if the receiver's does not
PreparedAt(f, c, call) ==
    LET R == ReceiverClass(c, TextOf(f)[c], call)
    IN  IF R /= None /\ OwnMethod(R, call.name) THEN R ELSE None

CalleeClassOfContainer(f, c, call) ==
    IF call.recv = "var" THEN call.of ELSE c

\* lsp_lsparrot_call_hierarchy_outgoing, from a method of the class c of f;
\* what a variable holds is known of documents only
CalleeClass(f, c, call) ==
    IF call.recv = "var" /\ docs[f] = None THEN None
    ELSE ReceiverClass(c, TextOf(f)[c], call)

\* lsp_hier_add_outgoing: calls are gathered by file and name of the callee;
\* the first that is declared where it is looked for makes the item, that call
\* and all later ones of its key are its sites
Outgoing(f, c, w) ==
    LET d == Found(TextOf(f), c)
        hasBody == d /= None /\ d.kind /= "interface"
                   /\ \E m \in MembersOf(d) : m.name = w /\ m.kind = "method" /\ IsOwn(m)
        Callee(i) == CalleeClass(f, c, d.calls[i])
        Key(i)    == <<index[Callee(i)], d.calls[i].name>>
        made      == {i \in DOMAIN d.calls : d.calls[i].in = w /\ Known({Callee(i)}) /= {}}
        located   == {i \in made : OwnMethod(Callee(i), d.calls[i].name)}
        first     == {i \in located : \A j \in located : Key(j) = Key(i) => i <= j}
    IN  IF hasBody
        THEN {[to |-> Callee(i),
               sites |-> {d.calls[j] : j \in {k \in made : i <= k /\ Key(k) = Key(i)}}] :
                  i \in first}
        ELSE {}

\* lsp_lsparrot_call_hierarchy_incoming: whoever calls a method of that name
CallersIn(f, w) ==
    UNION {{<<c, call.in>> : call \in {k \in Range(TextOf(f)[c].calls) : k.name = w}} :
              c \in DOMAIN TextOf(f)}
Incoming(w) == UNION {CallersIn(index[c], w) : c \in KnownClasses}

------------------------------------------------------------------------------
(* What PHP makes of the declarations.                                     *)

BasesOf(c)   == Known({ParentOf(NowIn(c))})
TraitsOf(c)  == Known(Range(NowIn(c).uses))
Bases(c)     == Closure({c}, LinksTo(BasesOf))
Composed(c)  == Closure({c}, LinksTo(TraitsOf))
Composing(c) == UNION {Composed(d) : d \in Bases(c)}
Inherited(c) == UNION {MembersOf(NowIn(d)) : d \in Composing(c)}
Rank(vis)    == CASE vis = "public" -> 2 [] vis = "protected" -> 1 [] OTHER -> 0

Acyclic == \A c \in KnownClasses : c \notin AncestorsOf(Up(c))

\* What is used is a trait: it has no parent and is nobody's
TraitsApart ==
    \A c, d \in KnownClasses : \A t \in TraitsOf(c) : BasesOf(t) = {} /\ t \notin BasesOf(d)

\* Nothing is redeclared with less visibility, or made static or not
Compatible(m, n) == Label(m) = Label(n) => Rank(m.vis) >= Rank(n.vis) /\ m.static = n.static
LegalProgram ==
    /\ Acyclic
    /\ TraitsApart
    /\ \A c \in KnownClasses :
          LET own   == Composed(c)
              whole == Composing(c)
              Overridden(d) == (Composed(d) \cup (whole \ own)) \ {d}
          IN  \A d \in own : \A e \in whole \cap Overridden(d) :
                  \A m \in MembersOf(NowIn(d)), n \in MembersOf(NowIn(e)) : Compatible(m, n)

Settled == leftover = {}
Saved   == \A f \in Files : docs[f] /= None => docs[f].text = disk[f].text

\* Completion offers what PHP lets the code reach: after -> and :: exactly the
\* public members of the class, its parents and all their traits, after
\* parent:: every constructor of a parent and, properties and constructors of
\* traits aside, exactly what is not private, after $this-> at least what the
\* class declares and what it inherits that is not private, and after self::
\* nothing that is neither.  An interface that extends several is left out, the
\* walk follows the first.
MembersOffered ==
    Settled /\ TraitsApart =>
        \A c \in {k \in KnownClasses : \A d \in Bases(k) : Len(NowIn(d).extends) <= 1} :
            LET all == {m \in Inherited(c) : m.vis /= "private"}
                pub == {m \in all : IsPublic(m)}
            IN  /\ AfterArrow(c) = Labels(OfInstance(pub))
                /\ AfterColons(c) = Labels(OfClass(pub))
                /\ \A p \in BasesOf(c) :
                      LET up == {m \in Inherited(p) : m.vis /= "private"}
                          methods == {m \in up : m.kind = "method"}
                          aside == {m \in up : ~m.static /\ \/ m.kind = "property"
                                                            \/ m.name = "__construct"}
                          made == {m \in UNION {MembersOf(NowIn(d)) : d \in Bases(p)} :
                                      m \in methods /\ m.name = "__construct"}
                      IN  /\ AfterParent(c) \ Labels(aside)
                                = Labels(OfClass(up) \cup methods) \ Labels(aside)
                          /\ Labels(made) \subseteq AfterParent(c)
                /\ Labels(OfInstance(all \cup MembersOf(NowIn(c)))) \subseteq AfterThis(c)
                /\ AfterSelf(c) \subseteq Labels(OfClass(all \cup MembersOf(NowIn(c))))

\* What is offered for overriding is what parent:: offers to call, although
\* one is read from the files and the other from the cache; where each file
\* declares one class and is saved.
OverridesOffered ==
    Settled /\ Saved
    /\ (\A c \in KnownClasses : DOMAIN disk[index[c]].text = {c})
    => \A c \in KnownClasses, vis \in {"public", "protected"}, static \in BOOLEAN :
           Labels(OverrideOffers(c, vis, static)) \subseteq AfterParent(c)

\* What completion offers is what PHP lets the code reach, among members as
\* well as for overriding.
OffersAreAccessible == MembersOffered /\ OverridesOffered

Below(s) == {d \in Subtypes(s) : ParentOf(NowIn(d)) = s}

\* The views of the hierarchy agree: a class is among the subtypes of its
\* supertypes and of no other type, the implementations of a type are its
\* subtypes but for enums, and the lens of a method counts the classes below
\* that declare it again.  Traits extend nothing.
TypeViewsAgree ==
    (Settled /\ Acyclic
     /\ \A c \in KnownClasses : NowIn(c).kind = "trait" => NowIn(c).extends = <<>>) =>
        \A s \in {c \in KnownClasses : HasHeader(c)} :
            LET subclasses == {c \in Closure({s}, LinksTo(Below)) \ {s} : NowIn(c).kind = "class"}
            IN  /\ \A c \in {d \in KnownClasses : HasHeader(d) /\ NowIn(d).kind /= "trait"} :
                      s \in Supertypes(c) <=> c \in Subtypes(s)
                /\ Implementations(s) = {c \in Subtypes(s) : NowIn(c).kind /= "enum"}
                /\ NowIn(s).kind = "class" =>
                      \A w \in LensMethods(s) :
                          OverrideLocations(s, w) =
                              {c \in subclasses : \E m \in MembersOf(NowIn(c)) :
                                  m.name = w /\ m.kind = "method" /\ IsOwn(m)
                                  /\ m.vis /= "private"}

\* The answers of the call hierarchy agree: what is prepared at a call is among
\* the callees of the method the call stands in, with that call, if no other
\* class of its file declares the name; and that method is among the callers
\* of the name.  The methods of an interface have no bodies.
CallViewsAgree ==
    \A f \in Files : docs[f] /= None =>
        \A c \in DOMAIN TextOf(f) : (index[c] = f /\ TextOf(f)[c].kind /= "interface") =>
            \A call \in Range(TextOf(f)[c].calls) :
                LET p == PreparedAt(f, c, call)
                    sharing == {d \in KnownClasses : index[d] = index[p] /\ OwnMethod(d, call.name)}
                IN  (p /= None /\ OwnMethod(c, call.in)) =>
                        /\ <<c, call.in>> \in Incoming(call.name)
                        /\ \E e \in Outgoing(f, c, call.in) :
                              call \in e.sites /\ (sharing = {p} => e.to = p)

\* Whoever asks about the hierarchy of types or of calls, from whichever end,
\* is told the same relation.
HierarchiesAgree == TypeViewsAgree /\ CallViewsAgree

\* Hierarchies in which no class has two parents of any sort
Forest == Acyclic /\ \A c \in KnownClasses : \A x, y \in Up(c) : x = y

\* Where a class finds the method of a call: the nearest declaration above
Nearest(R, w) ==
    LET above == {d \in AncestorsOf({R}) : OwnMethod(d, w)}
    IN  {d \in above : \A e \in above : e \in AncestorsOf({d})}

\* The rename of a method keeps every link of the program: of two related
\* classes that declare it either both are renamed or none, and a call is
\* renamed exactly when the declaration it reaches is; calls on variables of
\* files that are not open are renamed by name, and are left out, and so are
\* methods that are only documented.
RenameKeepsLinks ==
    Forest =>
        \A c \in KnownClasses, w \in Words : OwnMethod(c, w) =>
            LET R == Renamed(index[c], c, w)
            IN  /\ c \in R
                /\ \A d, e \in KnownClasses :
                      (OwnMethod(d, w) /\ OwnMethod(e, w) /\ d \in AncestorsOf({e}))
                          => (d \in R <=> e \in R)
                /\ \A e \in {d \in KnownClasses : HasHeader(d)} :
                      \A call \in {k \in Range(NowIn(e).calls) : k.name = w} :
                          LET target == ReceiverClass(e, NowIn(e), call)
                          IN  (target /= None /\ (call.recv = "var" => docs[index[e]] /= None))
                              => \A d \in Nearest(target, w) :
                                    CallRenamed(index[e], e, call, c) <=> d \in R
==============================================================================
