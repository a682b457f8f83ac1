---------------------------- MODULE ProjectIndex ----------------------------
(***************************************************************************)
(* The index of the symbols of a workspace: it is loaded from the cache    *)
(* file when the signature of the project has not changed, built by a      *)
(* forked worker that hands it over through that file, or built by the     *)
(* server itself; single files are scanned again when they are saved or    *)
(* were reported as changed, and the index is written back when the server *)
(* ends.                                                                   *)
(*                                                                         *)
(* A reader or a refresh that finds a worker running first waits for it    *)
(* (lsp_index_join_worker).  That wait is the action Join followed by the  *)
(* operation, which needs running = FALSE: Join is also what the poll of   *)
(* the loop does, and when the wait reaches its cap the worker is killed,  *)
(* which is WorkerDies.                                                    *)
(*                                                                         *)
(* The workspace has a first folder, which holds the cache file, and a     *)
(* second one that the client may add and remove.  The text of a file is   *)
(* the set of the symbols it declares; a file without any is as good as    *)
(* none.  The signature of a project is taken to change exactly when the   *)
(* folders or the texts do (the code mixes paths, sizes and times).        *)
(***************************************************************************)
EXTENDS SymbolIndex

CONSTANTS
    Primary,    \* files of the first folder
    Texts,      \* Texts[f]: the texts that f may have
    Editable,   \* files that are opened in the editor
    MayFail,    \* may processes, forks and writes fail?
    MayCrash,   \* may the server end without its shutdown?
    MayMove,    \* may the second folder be added and removed?
    MaxBuilds,  \* bound: builds
    MaxEvents   \* bound: starts, changes of folders and changes of texts

ASSUME FilesAssumption  == Primary \subseteq Files /\ Editable \subseteq Files
ASSUME TextsAssumption  == Texts \in [Files -> SUBSET SUBSET Symbols]
ASSUME FlagAssumption   ==
    MayFail \in BOOLEAN /\ MayCrash \in BOOLEAN /\ MayMove \in BOOLEAN
ASSUME BoundsAssumption == MaxBuilds \in Nat \ {0} /\ MaxEvents \in Nat

VARIABLES
    disk,       \* the texts on disk
    docs,       \* server->documents: the text of a file that is open
    notices,    \* files whose didSave or didChangeWatchedFiles is on its way
    server,     \* the server process
    index,      \* server->symbol_index
    workers,    \* forked processes that build the index
    cache,      \* the cache file in .lsparrot
    origin,     \* where the index is from (history)
    drafted,    \* files that were indexed with a text not on disk (history)
    events      \* starts, changes of folders and changes of texts so far

vars == <<disk, docs, notices, server, index, workers, cache, origin, drafted, events>>

Closed  == {"closed"}   \* the text of a document that is not open
NoBuild == 0
NoCache == [there |-> FALSE]

Builds == 1 .. MaxBuilds

\* Files in the folders of the workspace, the second one included or not.
Scope(both) == IF both THEN Files ELSE Primary

\* lsp_index_signature
Signature(both) == [both |-> both, text |-> [f \in Scope(both) |-> disk[f]]]

\* lsp_index_cache_save.  build is the build whose worker writes the file,
\* NoBuild when the server does.
CacheFile(both, records, build) ==
    [there |-> TRUE, signature |-> Signature(both), records |-> records,
     build |-> build]

\* lsp_index_cache_load_ex: a file that may be loaded without and with a look
\* at its signature
Loadable       == cache.there /\ Len(cache.records) <= Capacity
Verified(both) == Loadable /\ cache.signature = Signature(both)

\* A forked process and its own copy of the index, which it resets first.
Working(both, todo, region) ==
    [state |-> "alive", both |-> both, todo |-> todo, region |-> region]
NewWorker(both) == Working(both, Scope(both), EmptyRegion)
NoWorker == [state |-> "none"]
Ended    == [state |-> "ended"]

AllClosed == [f \in Files |-> Closed]
NoServer  == [up |-> FALSE, building |-> FALSE, todo |-> {}, both |-> FALSE,
              dirty |-> FALSE, running |-> FALSE, build |-> NoBuild]

Init ==
    /\ disk \in {d \in [Files -> SUBSET Symbols] : \A f \in Files : d[f] \in Texts[f]}
    /\ docs = AllClosed
    /\ notices = {}
    /\ server = NoServer
    /\ index = EmptyRegion
    /\ workers = [b \in Builds |-> NoWorker]
    /\ cache = NoCache
    /\ origin = "nothing"
    /\ drafted = {}
    /\ events = 0

Event == events < MaxEvents /\ events' = events + 1

\* The server takes messages from its queue.
Serving == server.up /\ ~ server.building

\* The number of the next build that is given to a worker.
NextBuild == Cardinality({b \in Builds : workers[b] /= NoWorker}) + 1

-----------------------------------------------------------------------------
\* The environment: the file system and the editor.

\* A file is written by somebody else.  The client watches the folders of the
\* workspace while the server runs.
DiskChanges(f) ==
    /\ \E t \in Texts[f] \ {disk[f]} : disk' = [disk EXCEPT ![f] = t]
    /\ Event
    /\ notices' = IF server.up /\ f \in Scope(server.both)
                  THEN notices \cup {f} ELSE notices
    /\ UNCHANGED <<docs, server, index, workers, cache, origin, drafted>>

\* Also a file that is read for a request: it stays in server->documents.
DidOpen(f) ==
    /\ Serving
    /\ f \in Editable /\ docs[f] = Closed
    /\ docs' = [docs EXCEPT ![f] = disk[f]]
    /\ UNCHANGED <<disk, notices, server, index, workers, cache, origin, drafted, events>>

\* didChange does not touch the index.
DidChange(f) ==
    /\ Serving
    /\ docs[f] /= Closed
    /\ \E t \in Texts[f] \ {docs[f]} : docs' = [docs EXCEPT ![f] = t]
    /\ Event
    /\ UNCHANGED <<disk, notices, server, index, workers, cache, origin, drafted>>

\* The editor writes the file and sends didSave.
EditorSaves(f) ==
    /\ Serving
    /\ docs[f] /= Closed
    /\ disk' = [disk EXCEPT ![f] = docs[f]]
    /\ notices' = notices \cup {f}
    /\ UNCHANGED <<docs, server, index, workers, cache, origin, drafted, events>>

\* didClose drops the document and leaves its symbols as they are.
DidClose(f) ==
    /\ Serving
    /\ docs[f] /= Closed
    /\ docs' = [docs EXCEPT ![f] = Closed]
    /\ UNCHANGED <<disk, notices, server, index, workers, cache, origin, drafted, events>>

-----------------------------------------------------------------------------
\* lsp_build_project_index for the folders of both, with the index old and the
\* workers ws: the cache, a worker, or an inline build if the fork fails.
Build(both, old, ws) ==
    \/ /\ Verified(both)
       /\ index' = Loaded(cache.records)
       /\ server' = [server EXCEPT !.up = TRUE, !.both = both, !.running = FALSE]
       /\ origin' = "cache"
       /\ workers' = ws
    \/ /\ ~ Verified(both)
       /\ NextBuild \in Builds
       /\ index' = old
       /\ server' = [server EXCEPT !.up = TRUE, !.both = both, !.running = TRUE,
                                   !.build = NextBuild]
       /\ workers' = [ws EXCEPT ![NextBuild] = NewWorker(both)]
       /\ UNCHANGED origin
    \/ /\ ~ Verified(both)
       /\ MayFail
       /\ index' = EmptyRegion
       /\ server' = [server EXCEPT !.up = TRUE, !.both = both, !.running = FALSE,
                                   !.building = TRUE, !.todo = Scope(both)]
       /\ origin' = "nothing"
       /\ workers' = ws

\* lsp_initialize: a new process, its folders given by the client.
Initialize(both) ==
    /\ ~ server.up
    /\ both => MayMove
    /\ Event
    /\ Build(both, EmptyRegion, workers)
    /\ UNCHANGED <<disk, docs, notices, cache, drafted>>

\* lsp_index_stop_worker: the workers that it leaves
Stopped == IF server.running THEN [workers EXCEPT ![server.build] = Ended] ELSE workers

\* lsp_workspace_did_change_folders
ChangeFolders ==
    /\ Serving
    /\ MayMove
    /\ Event
    /\ Build(~ server.both, index, Stopped)
    /\ UNCHANGED <<disk, docs, notices, cache, drafted>>

-----------------------------------------------------------------------------
\* A worker reads the files of its project in some order (the parts of a
\* parallel build are merged in an order of their own), writes the cache file,
\* and ends.
WorkerScans(b, f) ==
    /\ workers[b].state = "alive"
    /\ f \in workers[b].todo
    /\ workers' = [workers EXCEPT
           ![b] = Working(@.both, @.todo \ {f}, Added(@.region, f, disk[f]))]
    /\ UNCHANGED <<disk, docs, notices, server, index, cache, origin, drafted, events>>

WorkerSaves(b) ==
    /\ workers[b].state = "alive"
    /\ workers[b].todo = {}
    /\ cache' = CacheFile(workers[b].both, workers[b].region.records, b)
    /\ workers' = [workers EXCEPT ![b] = Ended]
    /\ UNCHANGED <<disk, docs, notices, server, index, origin, drafted, events>>

\* A worker ends without a cache file: a crash, a failed write, or the cap.
WorkerDies(b) ==
    /\ MayFail
    /\ workers[b].state = "alive"
    /\ workers' = [workers EXCEPT ![b] = Ended]
    /\ UNCHANGED <<disk, docs, notices, server, index, cache, origin, drafted, events>>


\* lsp_index_worker_finished, called by the poll and by the join: whatever
\* cache file is there is loaded without a look at its signature.
Join ==
    /\ Serving
    /\ server.running
    /\ workers[server.build].state = "ended"
    /\ \/ /\ Loadable
          /\ index' = Loaded(cache.records)
          /\ server' = [server EXCEPT !.running = FALSE]
          /\ origin' = IF cache.build = server.build THEN "built" ELSE "leftover"
          /\ drafted' = {}
       \/ /\ ~ Loadable
          /\ index' = EmptyRegion
          /\ server' = [server EXCEPT !.running = FALSE, !.building = TRUE,
                                      !.todo = Scope(server.both)]
          /\ origin' = "nothing"
          /\ UNCHANGED drafted
    /\ UNCHANGED <<disk, docs, notices, workers, cache, events>>

\* The cache file after lsp_index_cache_save by the server, which may fail.
SavedByServer ==
    {CacheFile(server.both, index.records, NoBuild)}
      \cup (IF MayFail THEN {cache} ELSE {})

\* lsp_build_project_index_sync: the server does nothing else meanwhile, but
\* files may change.
BuildScans(f) ==
    /\ server.up /\ server.building
    /\ f \in server.todo
    /\ index' = Added(index, f, disk[f])
    /\ server' = [server EXCEPT !.todo = @ \ {f}]
    /\ UNCHANGED <<disk, docs, notices, workers, cache, origin, drafted, events>>

BuildEnds ==
    /\ server.up /\ server.building
    /\ server.todo = {}
    /\ cache' \in SavedByServer
    /\ server' = [server EXCEPT !.building = FALSE]
    /\ origin' = "built"
    /\ drafted' = {}
    /\ UNCHANGED <<disk, docs, notices, index, workers, events>>

-----------------------------------------------------------------------------
RefreshUnjoined(f) ==
    LET text == IF docs[f] = Closed THEN disk[f] ELSE docs[f]
    IN  /\ Serving
        /\ f \in notices
        /\ notices' = notices \ {f}
        /\ index' = Added(Removed(index, f), f, text)
        /\ server' = [server EXCEPT !.dirty = TRUE]
        /\ drafted' = IF text = disk[f] THEN drafted \ {f} ELSE drafted \cup {f}
        /\ UNCHANGED <<disk, docs, workers, cache, origin, events>>

\* lsp_index_refresh_file, for a didSave or a didChangeWatchedFiles: the text
\* of the open document goes before that on disk.
Refresh(f) ==
    LET text == IF docs[f] = Closed THEN disk[f] ELSE docs[f]
    IN  /\ Serving
        /\ ~ server.running
        /\ f \in notices
        /\ notices' = notices \ {f}
        /\ index' = Added(Removed(index, f), f, text)
        /\ server' = [server EXCEPT !.dirty = TRUE]
        /\ drafted' = IF text = disk[f] THEN drafted \ {f} ELSE drafted \cup {f}
        /\ UNCHANGED <<disk, docs, workers, cache, origin, events>>

\* A completion or a hierarchy request: the table is built.
Read ==
    /\ Serving
    /\ ~ server.running
    /\ index' = Ensured(index)
    /\ UNCHANGED <<disk, docs, notices, server, workers, cache, origin, drafted, events>>

\* What is lost with the process.
Gone ==
    /\ server' = NoServer
    /\ docs' = AllClosed
    /\ notices' = {}
    /\ index' = EmptyRegion
    /\ origin' = "nothing"
    /\ drafted' = {}
    /\ UNCHANGED <<disk, events>>

\* The end of lsp_server_main: lsp_index_stop_worker and
\* lsp_project_index_persist.
Exit ==
    /\ Serving
    /\ workers' = Stopped
    /\ cache' \in IF server.dirty THEN SavedByServer ELSE {cache}
    /\ Gone

\* The process is killed; a worker goes on without it.
Crash ==
    /\ MayCrash
    /\ server.up
    /\ Gone
    /\ UNCHANGED <<workers, cache>>

-----------------------------------------------------------------------------
Next ==
    \/ \E f \in Files : \/ DiskChanges(f) \/ DidOpen(f) \/ DidChange(f)
                        \/ EditorSaves(f) \/ DidClose(f) \/ Refresh(f)
                        \/ BuildScans(f)
    \/ \E b \in Builds : \/ WorkerSaves(b) \/ WorkerDies(b)
                         \/ \E f \in Files : WorkerScans(b, f)
    \/ \E both \in BOOLEAN : Initialize(both)
    \/ ChangeFolders \/ Join \/ BuildEnds \/ Read \/ Exit \/ Crash

Spec == Init /\ [][Next]_vars

-----------------------------------------------------------------------------
\* Properties.

\* Keys and table show what the arena holds, in the server, in a worker and
\* when a cache file is loaded: a symbol is found where it was recorded last,
\* a name is not held twice, and a table is not used once it is out of date.
RegionsInSync ==
    /\ InSync(index)
    /\ \A b \in Builds : workers[b].state = "alive" => InSync(workers[b].region)
    /\ cache.there => KeysMatch(Loaded(cache.records))

\* A file of the workspace whose symbols should be in the index as they are on
\* disk: the index was built in this session, no message about the file is on
\* its way, and the server was not made to index a text that was never saved.
Settled(f) ==
    /\ Serving /\ ~ server.running
    /\ origin = "built"
    /\ f \in Scope(server.both) \ (notices \cup drafted)

\* What the index says of a settled file is so: files that change while they
\* are scanned, or while the worker's index is on its way, are corrected.
Sound ==
    \A f \in Files : Settled(f) =>
        \A s \in Symbols : Lookup(index, {s}) = {f} => s \in disk[f]

\* Declared by at most one file, whatever is edited.
Private(s) ==
    \A f, g \in Files :
        (\E t \in Texts[f] : s \in t) /\ (\E t \in Texts[g] : s \in t) => f = g

\* As long as the arena is not full, a symbol that a settled file declares is
\* found, if no other file ever declares it.
Complete ==
    \A f \in Files : Settled(f) /\ Len(index.records) < Capacity =>
        \A s \in disk[f] : Private(s) => Lookup(index, {s}) = {f}

=============================================================================
