----------------------------- MODULE MemberCache -----------------------------
(***************************************************************************)
(* The cache of class members and the texts it is filled from.  A class is *)
(* found through the symbol index in one file; the text of the file is the *)
(* document the server holds for it or, without one, what is on disk.  An  *)
(* entry remembers the file, and the version of the document or the stamp  *)
(* of the file, and is used again while these have not changed.            *)
(*                                                                         *)
(* A text is a function from the classes it declares to what it says of    *)
(* them.  The stamp of a file (its modification time and size) is taken to *)
(* be a new one at every write.                                            *)
(***************************************************************************)
EXTENDS Integers, FiniteSets

CONSTANTS
    Files,      \* paths of PHP files
    Classes,    \* names of classes, interfaces, traits and enums
    Projects,   \* what may be on disk at the start: functions from Files
    Edits,      \* what a user may write into each file
    Budget,     \* bound: changes of a project that are explored
    MaxVersion, \* bound: version of a document
    None

Written(f) == Edits[f] \cup {p[f] : p \in Projects}
Texts      == UNION {Written(f) : f \in Files}
Decls      == UNION {{t[c] : c \in DOMAIN t} : t \in Texts}

ASSUME NoneAssumption ==
    /\ None \notin Files
    /\ None \notin [text : Texts, version : Nat]
    /\ None \notin [path : Files, version : Int, stamp : Int,
                    decl : Decls \cup {None}]

VARIABLES
    disk,     \* the files: a text and a stamp
    docs,     \* server->documents: a text and a version, or None
    open,     \* files the client has open
    index,    \* symbol index: the file of a class, or None
    cache,    \* server->member_cache: an entry or None
    notices,  \* files whose change the client is still going to report
    leftover, \* ghost: closed while entries of the document remained
    left      \* changes that may still be made

vars  == <<disk, docs, open, index, cache, notices, leftover, left>>
texts == <<disk, docs, open, notices, left>>

Found(t, c) == IF c \in DOMAIN t THEN t[c] ELSE None
TextOf(f)   == IF docs[f] /= None THEN docs[f].text ELSE disk[f].text

EntriesOf(f) == {c \in Classes : cache[c] /= None /\ cache[c].path = f}
Versioned(f) == {c \in EntriesOf(f) : cache[c].version >= 0}

------------------------------------------------------------------------------
IsFreshAnyStamp(e, f) ==
    /\ e /= None
    /\ e.path = f
    /\ IF docs[f] /= None THEN e.version = docs[f].version ELSE e.version = -1
\* lsp_class_member_cache_entry_is_fresh
IsFresh(e, f) ==
    /\ e /= None
    /\ e.path = f
    /\ IF docs[f] /= None THEN e.version = docs[f].version
                          ELSE e.stamp = disk[f].stamp

\* The entry that lsp_class_member_cache_entry builds
Built(c, f) ==
    [path    |-> f,
     version |-> IF docs[f] /= None THEN docs[f].version ELSE -1,
     stamp   |-> IF docs[f] /= None THEN -1 ELSE disk[f].stamp,
     decl    |-> Found(TextOf(f), c)]

\* The cache after lsp_class_member_cache_entry was asked for each of S: a
\* class that is not in the index changes nothing
Looked(S) ==
    [c \in Classes |->
        IF c \in S /\ index[c] /= None /\ ~IsFresh(cache[c], index[c])
        THEN Built(c, index[c]) ELSE cache[c]]

\* lsp_member_cache_invalidate_path
Invalidated(f) ==
    [c \in Classes |-> IF c \in EntriesOf(f) THEN None ELSE cache[c]]

\* lsp_index_refresh_file: the records of the file go, and of the classes of
\* the text those are added that no other file has
Refreshed(f, t) ==
    [c \in Classes |->
        IF c \in DOMAIN t /\ index[c] \in {None, f} THEN f
        ELSE IF index[c] = f THEN None ELSE index[c]]

------------------------------------------------------------------------------
FirstFile(p, c) == IF \E f \in Files : c \in DOMAIN p[f]
                   THEN CHOOSE f \in Files : c \in DOMAIN p[f] ELSE None

\* A project whose files have been indexed
Init ==
    \E p \in Projects :
        /\ disk = [f \in Files |-> [text |-> p[f], stamp |-> 0]]
        /\ docs = [f \in Files |-> None]
        /\ open = {}
        /\ index = [c \in Classes |-> FirstFile(p, c)]
        /\ cache = [c \in Classes |-> None]
        /\ notices = {}
        /\ leftover = {}
        /\ left = Budget[p]

Spend == left > 0 /\ left' = left - 1

\* textDocument/didOpen: the client has read the file and counts from 1
DidOpen(f) ==
    /\ Spend
    /\ f \notin open
    /\ open' = open \cup {f}
    /\ docs' = [docs EXCEPT ![f] = [text |-> disk[f].text, version |-> 1]]
    /\ UNCHANGED <<disk, index, cache, notices, leftover>>

\* textDocument/didChange with the whole text
DidChange(f, t) ==
    /\ Spend
    /\ f \in open
    /\ docs[f].version < MaxVersion
    /\ docs' = [docs EXCEPT ![f] = [text |-> t, version |-> @.version + 1]]
    /\ UNCHANGED <<disk, open, index, cache, notices, leftover>>

\* The client writes the file and sends textDocument/didSave; its watcher may
\* report the write as well
DidSave(f) ==
    /\ Spend
    /\ f \in open
    /\ disk' = [disk EXCEPT ![f] = [text |-> docs[f].text, stamp |-> @.stamp + 1]]
    /\ cache' = Invalidated(f)
    /\ leftover' = leftover \ {f}
    /\ index' = Refreshed(f, docs[f].text)
    /\ notices' \in {notices, notices \cup {f}}
    /\ UNCHANGED <<docs, open>>


\* textDocument/didClose: the entries that were read from the document stay
DidClose(f) ==
    /\ Spend
    /\ f \in open
    /\ open' = open \ {f}
    /\ docs' = [docs EXCEPT ![f] = None]
    /\ leftover' = IF Versioned(f) = {} THEN leftover ELSE leftover \cup {f}
    /\ UNCHANGED <<disk, index, cache, notices>>

\* Another program writes the file
WriteOutside(f, t) ==
    /\ Spend
    /\ t /= disk[f].text
    /\ disk' = [disk EXCEPT ![f] = [text |-> t, stamp |-> @.stamp + 1]]
    /\ notices' = notices \cup {f}
    /\ UNCHANGED <<docs, open, index, cache, leftover>>

\* workspace/didChangeWatchedFiles for one file
DidChangeWatchedFiles(f) ==
    /\ f \in notices
    /\ notices' = notices \ {f}
    /\ cache' = Invalidated(f)
    /\ leftover' = leftover \ {f}
    /\ index' = Refreshed(f, TextOf(f))
    /\ UNCHANGED <<disk, docs, open, left>>

\* A request about a file that is not open: lsp_document_from_uri reads it,
\* and the document stays
RequestReads(f) ==
    /\ Spend
    /\ docs[f] = None
    /\ docs' = [docs EXCEPT ![f] = [text |-> disk[f].text, version |-> 0]]
    /\ UNCHANGED <<disk, open, index, cache, notices, leftover>>

\* A request that asks for the entries of S
Query(S) ==
    /\ cache' = Looked(S)
    /\ UNCHANGED <<texts, index, leftover>>

FileStep ==
    \E f \in Files :
        \/ DidOpen(f)
        \/ \E t \in Edits[f] : DidChange(f, t)
        \/ DidSave(f)
        \/ DidClose(f)
        \/ \E t \in Edits[f] : WriteOutside(f, t)
        \/ DidChangeWatchedFiles(f)
        \/ RequestReads(f)

Next == FileStep \/ \E S \in SUBSET Classes : Query(S)

Spec == Init /\ [][Next]_vars

------------------------------------------------------------------------------
TypeOK ==
    /\ disk \in [Files -> [text : Texts, stamp : Nat]]
    /\ docs \in [Files -> [text : Texts, version : Nat] \cup {None}]
    /\ open \subseteq {f \in Files : docs[f] /= None}
    /\ index \in [Classes -> Files \cup {None}]
    /\ cache \in [Classes -> [path : Files, version : Int, stamp : Int,
                              decl : Decls \cup {None}]
                             \cup {None}]
    /\ notices \subseteq Files
    /\ leftover \subseteq Files

\* An entry that would be used again says what the text says now: whatever
\* was edited, saved, written by others or moved to another file since it was
\* built, the version or the stamp gives it away.  Files are left out whose
\* document was closed while entries that were read from it remained.
EntriesCurrent ==
    \A c \in Classes :
        (/\ index[c] /= None
         /\ index[c] \notin leftover
         /\ IsFresh(cache[c], index[c]))
        => cache[c].decl = Found(TextOf(index[c]), c)

==============================================================================
