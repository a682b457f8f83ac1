----------------------------- MODULE SymbolIndex -----------------------------
(***************************************************************************)
(* The arena that holds the symbols of a project.  Records are appended    *)
(* and never moved; a record whose file is scanned again becomes a         *)
(* tombstone and its room is not used again.  Two structures are derived   *)
(* from the arena: the hash table of keys, which is kept up to date by     *)
(* every operation, and the table of entries, which is thrown away when a  *)
(* record is appended and built again when somebody needs it.              *)
(*                                                                         *)
(* A symbol stands for a kind and a name without its case, which is what   *)
(* a key is made of.  A record takes one unit of room.                     *)
(***************************************************************************)
EXTENDS Naturals, Sequences, FiniteSets, SequencesExt

CONSTANTS
    Symbols,   \* kinds and names of declarations
    Files,     \* paths of PHP files
    Capacity   \* records that the arena has room for

ASSUME CapacityAssumption == Capacity \in Nat
ASSUME SymbolsAssumption == IsFiniteSet(Symbols)

Record(s, f) == [sym |-> s, path |-> f]
Tombstone    == [sym |-> {}]   \* the name and the path stay and are not read
Records      == [sym : Symbols, path : Files] \cup {Tombstone}

Live(records)         == {i \in DOMAIN records : records[i] /= Tombstone}
SymbolsOf(records, I) == {records[i].sym : i \in I}

NoTable == [valid |-> FALSE, entries |-> {}, deleted |-> {}]
NoKeys  == [s \in {} |-> 0]

\* lsp_symbol_index_reset
EmptyRegion == [records |-> <<>>, keys |-> NoKeys, table |-> NoTable]

\* lsp_symbol_index_table_ensure
Ensured(r) ==
    IF r.table.valid THEN r
    ELSE [r EXCEPT !.table =
              [valid |-> TRUE, entries |-> Live(r.records), deleted |-> {}]]

LoadedWithoutKeys(records) ==
    [records |-> records, keys |-> NoKeys, table |-> NoTable]

\* lsp_symbol_index_rebuild_keys on records that were copied into the arena:
\* of two live records with one key the earlier one gets it
Loaded(records) ==
    [records |-> records,
     keys |-> [s \in SymbolsOf(records, Live(records)) |->
                  CHOOSE i \in Live(records) :
                      /\ records[i].sym = s
                      /\ \A j \in Live(records) : records[j].sym = s => i <= j],
     table |-> NoTable]

\* lsp_symbol_index_add_symbol_kind for the declarations of one file: those
\* that are in the index already are refused, and so is what has no room
Accepted(r, declared) ==
    LET news == SetToSeq(declared \ DOMAIN r.keys)
        room == Capacity - Len(r.records)
    IN  IF Len(news) <= room THEN news ELSE SubSeq(news, 1, room)

AddedKeepsTable(r, f, declared) ==
    LET news  == Accepted(r, declared)
        start == Len(r.records)
    IN  IF news = <<>> THEN r
        ELSE [records |-> r.records \o [i \in DOMAIN news |-> Record(news[i], f)],
              keys |-> [s \in DOMAIN r.keys \cup {news[i] : i \in DOMAIN news} |->
                           IF s \in DOMAIN r.keys THEN r.keys[s]
                           ELSE start + CHOOSE i \in DOMAIN news : news[i] = s],
              table |-> r.table]

Added(r, f, declared) ==
    LET news  == Accepted(r, declared)
        start == Len(r.records)
    IN  IF news = <<>> THEN r
        ELSE [records |-> r.records \o [i \in DOMAIN news |-> Record(news[i], f)],
              keys |-> [s \in DOMAIN r.keys \cup {news[i] : i \in DOMAIN news} |->
                           IF s \in DOMAIN r.keys THEN r.keys[s]
                           ELSE start + CHOOSE i \in DOMAIN news : news[i] = s],
              table |-> NoTable]

\* lsp_symbol_index_remove_path: the entries of the file are found in the table
Removed(r, f) ==
    LET e    == Ensured(r)
        gone == {i \in e.table.entries \ e.table.deleted : e.records[i].path = f}
    IN  [records |-> [i \in DOMAIN e.records |->
                         IF i \in gone THEN Tombstone ELSE e.records[i]],
         keys |-> [s \in DOMAIN e.keys \ SymbolsOf(e.records, gone) |-> e.keys[s]],
         table |-> [e.table EXCEPT !.deleted = @ \cup gone]]

\* lsp_symbol_index_lookup: the file of the earliest record under one of some
\* keys (a name is looked up as a class, an interface, a trait and an enum)
Lookup(r, probes) ==
    LET hits == {r.keys[s] : s \in probes \cap DOMAIN r.keys}
    IN  {r.records[i].path : i \in {j \in hits : \A k \in hits : j <= k}}

-----------------------------------------------------------------------------
\* The keys are those of the live records, each with the place of its record,
\* and no two live records share one.
KeysMatch(r) ==
    /\ DOMAIN r.keys = SymbolsOf(r.records, Live(r.records))
    /\ \A i \in Live(r.records) : r.keys[r.records[i].sym] = i

\* A table that is valid shows exactly the live records.
TableMatches(r) ==
    r.table.valid => r.table.entries \ r.table.deleted = Live(r.records)

InSync(r) == KeysMatch(r) /\ TableMatches(r)
=============================================================================
