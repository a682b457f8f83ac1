# A TLA+ model of the lsparrot language server

lsparrot is a PHP extension, written in C (`ext/`), whose function
`LSParrot\start_lsp` turns the PHP process into a language server on standard
input and output. One thread does everything: it reads framed JSON-RPC
messages, answers them, and between them looks after the processes it has
started (project runs of PHPStan and Psalm, a resident "runner" per analyzer
and project, Psalm's own language server, a forked index worker). There are no
locks and no threads, so the hard part is not the data race but the *order*:
what a handler finds in a table that another handler, the end of a process or
the next message in the queue has changed since the table was last looked at.

These modules model that: the tables, the queues, the processes on the other
side of the pipes, and every order in which they may meet.

## 1. The system: components, state, operations

| component (files in `ext/`) | state it keeps | operations | hard behaviour | what makes it correct |
|---|---|---|---|---|
| Server loop and transport (`lsp_server_documents.c` 588-1121, `lsp_server_protocol.c` 1440-1514, SIGTERM guard of `lsp_server_process.c`) | receive buffer, pending queue, cancelled ids, end-of-input flag, SIGTERM flag, `saw_shutdown` | read, parse frames, pop, cancel, look ahead, answer, stop | messages in one batch, cancellation before / in / after its request, signal between check and `poll` | every request answered once and in order; nothing dropped at end of input; skipped diagnostics made up for |
| Project analyzers (`lsp_server_analyzers.c`, `..._phpstan.c`, `..._psalm.c`, reaping in `..._documents.c`) | state per project and analyzer (absent, pending, running, ready, error), job per project and analyzer, output file on disk | schedule, reschedule on save, start pending, reap, commit, publish, restart | a save while a run is in progress, shared worker budget, failed spawns, output files that outlive the server | budget respected; a ready project is fresh; the screen shows the committed file; everything settles |
| Type queries (`lsp_server_runner.c`, `*_type_for_expression`, `lsp_analyzer_deferred_type_completed`) | type cache, shadow files, runner session with parked queries | query, wait, park, pump, drop, reap idle | an answer after the budget, after a save, after the runner's death; shadow files with one name | no answer lost or misdelivered; no stale type after a save; no leftovers |
| Document store (`lsp_server_documents.c` 18-101, handlers in `..._protocol.c`) | open documents, completion cache | open, change, save, close, read from disk for a request | documents that are cached without being open | a document is that of the editor, or of the disk |
| Psalm language server proxy (`lsp_server_psalm_ls.c`) | sessions, pending requests, restart counters | start, forward, pump, time out, restart | crash with requests open, replay of documents | answers match requests; restarts bounded |
| Index worker and cache (`lsp_server_index.c`) | worker process, part files, cache file | fork, poll, merge, persist, stop | refresh of a file while the worker scans it, new workspace during a scan | the index is that of the newest files |
| Symbol index (`lsp_server_symbols.c`) | arena of records, tombstones, keys, table of entries | add, remove, rebuild, look up | running out of the configured size | no entry of a removed file is found |
| Workspace folders (`lsp_server_workspace.c`) | roots | add, remove | change during background work | no result for a removed root |
| Names and imports (`lsp_server_symbols.c`, `..._phpdoc.c`, `..._refactor.c`) | none (two memories keyed by the text) | collect imports, insert an import, resolve a name, organize | reading a text in the middle of an edit, later imports that capture what was written earlier | what was accepted keeps its meaning; two readers agree |
| Member cache (`lsp_server_member_cache.c`) and its readers (completion, hover, signature, definition, override) | entries with version and modification time | look up, validate, invalidate, walk parents and traits | stale entries, an entry that moves under its reader, readers of different sources | a hit is as good as a rebuild; the readers name one member |
| Hierarchies (`lsp_server_hierarchy.c`), code lens, implementations, rename of methods | none | walk supertypes and subtypes, scan for calls, rename a family | answers given from either end of a relation | the views agree; no link is broken |
| Semantic tokens (`lsp_server_semantic_tokens.c`) | last result per document | full, range, delta | a delta against a result that was replaced; nesting in one pass | applying the delta gives the full result |
| Outline, folding, selection (`lsp_server_protocol.c`), formatting (`lsp_server_formatting.c`), rename of variables (`lsp_server_refactor.c`) | none (outline by version) | one pass over tokens | bounded stacks, locked lines, scopes | what brackets alone tell |
| Processes (`lsp_server_process.c` and the owners of children) | ids, pipes and flags of five owners | spawn, capture with deadline, terminate, escalate, tear down | pid reuse, descendants that keep pipes open, inherited descriptors | no signal to a process that is not ours; bounded waits; nothing outlives the server |
| Inference and PHPDoc, positions, code actions that write text, analyzer configuration | none | text analysis and generation | recursion, encodings | not modelled but for what the rows above use |

Interaction: the loop calls `lsp_reap_analyzer_jobs` before every message and
on every idle tick; that reaps project runs (which publish and start others),
polls the index worker, pumps the Psalm language server and the runner. The
document handlers call the analyzers (schedule, reschedule), the caches (evict)
and the index (refresh). A change looks ahead in the queue of the transport
before it publishes. The project states are also what publication reads.

`PROJECT.json` lists every component with its status, and under `hazards`
every place where the order matters, with the properties that guard it.

## 2. Modules

| module | models | abstract specification |
|---|---|---|
| `AnalyzerJobs` | project runs of both analyzers | |
| `AnalyzerJobsProofs` | theorems of `AnalyzerJobs` | |
| `Transport` | the loop, its queue and the client | `RpcService` (refined) |
| `RpcService` | what a JSON-RPC client expects | |
| `TransportProofs` | theorems of `Transport`, the refinement among them | |
| `TypeQueries` | type cache, runner, parked queries | |
| `TypeQueriesProofs` | theorems of `TypeQueries` | |
| `PsalmLs`, `PsalmLsProofs` | the proxy of Psalm's language server; its theorems | |
| `SymbolIndex` | the arena of symbols, its keys and its table | |
| `ProjectIndex` | workers, cache file, refreshes; extends `SymbolIndex` | |
| `ProjectIndexProofs` | lemmas of the arena, theorems of `ProjectIndex` | |
| `Names` | namespaces, imports, completion items of project symbols, resolution of names | PHP's rules (`PhpMeaning`, `PhpImports`) |
| `Processes`, `ProcessesProofs` | children, pipes and process ids; its theorems | |
| `MemberCache` | the cache of class members and the texts behind it | |
| `Hierarchy` | what is said of members, hierarchies and calls as sets; extends `MemberCache` | the declarations (`Composing`, `Nearest`) |
| `HierarchyProofs` | theorems of `MemberCache` and `Hierarchy` | |
| `Members` | the answers that depend on the order of a walk, and the requests; extends `Hierarchy` | the declarations |
| `PhpTexts` | lines, tokens, braces, scopes and what the rename of a variable takes | |
| `SemanticTokens`, `Formatting`, `Outline` | one pass over the tokens each; extend `PhpTexts` | |
| `Editing`, `EditingProofs` | one document under edits and requests; extends the three; theorems on differences, ranges and formatting | brackets alone (`Declared`, `Partner`, `Owner`) |
| `MC*` | values of the constants for TLC | |

Mutants. A definition that directly precedes another and has its name as
prefix (`LaunchMarksFailed` before `Launch`) is a slip the latter must not
make. No specification uses it; `PROJECT.json` names, for each property of a
passing run, the slip that violates it.

### AnalyzerJobs

| module | code |
|---|---|
| `state`, `job` | `phpstan_projects` / `psalm_projects`, `phpstan_jobs` / `psalm_jobs`, indexed by (analyzer, project) |
| `saved`, `job.seen`, `file.seen` | revisions: how often the project was saved, which of them a run has read, which the output file describes (ghost state) |
| `file` | `project-diagnostics.json` of the slot |
| `open`, `clean`, `shown` | `documents`, "no parser diagnostics", the last `publishDiagnostics` |
| `unscanned` | the progress of `lsp_schedule_workspace_analyzers` in `initialize` |
| `Schedule`, `Reschedule`, `StartPending` | the functions of the same names, for both analyzers |
| `Reap` = `DiscardRun` or `SettleRun` | `lsp_reap_analyzer_job` with `lsp_analyzer_project_finished` |

A handler touches the tables several times (a save reschedules two analyzers
and then publishes, which schedules both again), so the operations are
operators from a table to the set of tables they may leave, composed by the
actions in source order. Abstractions: the order of the hash table (any pending
project may be the first that is taken); one document stands for the documents
of a project; one reap of the whole table is a sequence of `Reap` steps, which
no handler interrupts in the code and any may interrupt in the model; an
analyzer reads its project at some moment between its start and its exit.

### Transport

The client (`Send`, `CloseInput`), the signal (`Sigterm`) and the loop
(`Server`) interleave. `sent` is everything the client has sent, in order; a
message carries its place there, which identifies a request beyond its id.
A frame that has arrived only in part counts as not yet sent. The loop pops a
message and handles it in one step (no other party can see the difference),
while the ends of the wait — the check of the flags, the call of `poll`, its
return — are separate steps, because the signal may fall between them. Methods
are reduced to the classes the loop tells apart; `change` and `close` also
update `text` and `shown`, the change a document's text and its diagnostics
come from. With `Rpc == INSTANCE RpcService` the answers, in the order they
are given, refine the service that answers every request once and in order.

### TypeQueries

One document, one analyzer, one project. `shadow` maps a version to the content
of the shadow file of that name; `cache` is the type cache; `jobs`, `running`
and `frames` are the pipe to the runner, its work and the pipe back; `pending`
the parked queries; `query` the one the server waits for. A type is represented
by the probe it was found for, (expression, version), which is what the
properties need to tell. `Line` gives the lines of the expressions: PHPStan's
dump messages are matched by line, Psalm's also by expression.

### PsalmLs

One project. `session` is the entry of `psalm_ls_projects`, `psalm` the process
behind it with the texts it was told (`text`), the questions it works on
(`jobs`) and the pipe from it (`out`). Psalm reads what it is sent in order, so
a text takes effect when it is sent and a question is about the text of that
moment; what it reads is therefore not queued. A handler that waits is two steps,
`Begin` and `Finish`, and `Pump` may handle messages between them if, and only if,
the code pumps there. `Scheduled`, `Sent` and `Asked` lead from a world (the
session, its process and the ghosts) to the worlds an operation may leave, as in
`AnalyzerJobs`. Time is the age of the session, cut off above the longest limit.
The two waits of `didOpen` after a restart (in the scheduling and in the handler)
are one, with the replay behind it: it repeats texts that have been sent.
A text is a number of its own, and the version of a document is the client's: 1 when
it is opened, one more with each change, so a document that is closed and opened again
has old versions again, and with them old keys of the completion cache. Questions and
answers carry two ghosts, the text they are about and whether the document was closed
since (`Left`).

### SymbolIndex and ProjectIndex

`SymbolIndex` has no variables: an arena is a record (`lsp_symbol_index`), and its
operations are operators from arenas to arenas. `records` are the live records and
tombstones in order, `keys` the hash of keys with the place of each record, `table`
the array of entries, which is dropped by an append and built by whoever needs it.
Offsets are places, and a record takes one unit of the capacity. The server and
each worker have one arena.

| `ProjectIndex` | code |
|---|---|
| `disk`, `docs`, `notices` | texts of the files (a text is the set of what it declares), `server->documents`, `didSave` and `didChangeWatchedFiles` on their way |
| `server` | the process: `symbol_index_dirty` (`dirty`), `index_worker_running` (`running`), which build the worker is, an inline build in progress (`building`, `todo`) |
| `index`, `workers[b].region` | `server->symbol_index` and a forked worker's copy |
| `cache` | `.lsparrot/` cache file: signature, records, and who wrote it (ghost) |
| `origin`, `drafted` | where the index is from; files that were indexed with a text that is not on disk (ghosts) |
| `Build` | `lsp_build_project_index`, in `Initialize` and `ChangeFolders` |
| `Join` | `lsp_index_worker_finished`, called by the poll and by the wait; an operation that waits for the worker is `Join` followed by its action, which needs `running = FALSE` |
| `WorkerScans`, `WorkerSaves`, `WorkerDies` | the child of the fork |
| `BuildScans`, `BuildEnds` | `lsp_build_project_index_sync` in the server |
| `Refresh`, `Read` | `lsp_index_refresh_file`, completion over the project |
| `Exit`, `Crash` | `lsp_index_stop_worker` and `lsp_project_index_persist`; a kill |

The signature changes exactly when folders or texts do; two texts of one size and
time, which the code takes for the same, are not told apart here either. The parts
of a parallel build and their merge are one scan per file, in any order.

### Names

A file is a sequence of statements (namespace, `use`, class, function); a name is a
sequence of segments and separators, so that what the code does character by
character with `\\` stays visible while spelling does not. `Tokens` and `Uses` are
PHP's lexer and parser; the server's two readers, of the tree and of the tokens, are
`ImportsInTree` and `ImportsInTokens`. `AcceptItem`, `AcceptInUse`,
`AcceptImportAction` and `OrganizeImports` change the file the way the edits of the
server do; a reference that was accepted carries the symbol that was chosen
(`means`), and PHP's rules (`PhpMeaning`) say what it is now.

### Processes

`proc` is the process table of the operating system, in which strangers take ids that
are free; `handle`, `running` and `ends` are what the owners keep (id, flag, and who
holds the write end of a session's input). The server has one thread: while it waits,
`call` says where, and nothing else of it runs. Fork and exec are two steps for what
descriptors do (`EndsAfterExec`, `WorkerClosesPipes`). Time is left out: a grace
period may end at any moment, except that a wait after SIGKILL is taken to be long
enough for the child to die.

### MemberCache, Hierarchy and Members

`MemberCache` has the files, the documents, the index and the cache of entries with
their version or stamp, and one action per handler; `Query(S)` stands for any
request that asks for the entries of the classes `S`. A declaration is a record of
members, supertypes, traits and calls; its text is left out.

`Hierarchy` has the features whose answer is a set: completion after `->`, `::`,
`parent::`, `$this->` and `self::`, completion of overrides, code lenses, the type and
the call hierarchy, go to implementation and the rename of a method. Each walk is
given by its links, from a class to those it goes on to (`EntryLinks` and
`EntryParents` through the cache, `DiskParents` through the files, `Up` through the
headers), and by the classes it reaches along them: `Closure`, the least set that
follows the links. The code's sets of visited names make its recursion just that; its
limit of eight levels is left out. `Members` has the features that name the *first*
class found, with the walks in source order, and puts requests on top (`MSpec`), among
them those that hold an entry while the walk may move the table (`WalkParentLast`);
`WalksReach` says that a walk in order reaches what its closure says.

The refinement is by agreement: what two features say of one member, type or call
must be the same, and what is offered must be what the declarations make accessible.

### PhpTexts, SemanticTokens, Formatting, Outline and Editing

A text is a sequence of lines with blanks in front and behind and the tokens that
begin on them; a token may run over lines, and is then the last of its line (`IsText`,
what a tokenizer makes of a file). Each feature is a pass of one step over the tokens,
as in the code, with the code's state in a record (`Collect`, `Plan`, `OutlineOf`,
`Folds`, `SelectionAt`, `EnclosingDecl`). The passes that theorems are about are
recursive functions (`Collected`, `Passed`), the others folds. The pass of the tokens
keeps what it reads (`scan`) apart from what it sends (`sent`); the plan of the
formatter is a partial function from lines, with `PlanOf` for the lines that nobody
marked. The reference definitions are in `Editing`: `Partner` pairs brackets by level, `Declared`, `Bodies` and `Holders`
find declarations by brackets, `Owner` the function of a variable. `Editing` is also
the session: the client opens, types, saves, closes, formats, renames and asks for
tokens, whole or as a difference to what it shows, while answers are on their way.

## 3. Runs

| run | question | instance | result |
|---|---|---|---|
| `analyzers_shared` | do the tables, the files and the screen stay consistent under failures, saves during runs and a restart, within the budget? | 2 analyzers, 2 projects of which one only competes for 2 workers, 2 saves or a save and a restart, any output, failing starts | pass |
| `analyzers_settle` | does everything settle once saving stops? | 1 analyzer, 2 projects, 1 worker, restart, fairness | pass |
| `transport` | are requests answered, in order, and refused only when cancelled? is a skipped publication made up for? does the end of input end the server? | 3 messages of any kind, 2 ids, 2 documents, SIGTERM, fairness | pass |
| `types_psalm` | do answers reach the right query, whatever times out, dies or is saved? is every parked query collected while the runner lives? | 2 expressions, 2 versions, 3 jobs, fairness | pass |
| `types_shadow` | does the shadow file of a parked query survive? | 2 expressions, 1 version | **violated** |
| `psalm_ls` | has Psalm the editor's text when it is ready? is each answer found only for the text it was asked about, is each settled, are restarts bounded? | 1 document, 2 texts, 2 questions, back-off 1, health 2, 1 restart, stalls, fairness | pass |
| `index_session` | is what the index says of a file true, and complete, once the messages about it are handled? do keys and table match the records? | 2 files in 2 folders that may declare one name, 2 builds, 4 events, room for 4 records, any failure or crash | pass |
| `names` | do completions and import actions write what keeps its meaning? do both readers agree, and resolve like PHP? | files of 2 namespaces with 3 written statements each, 2 accepted references, 7 symbols of which two share a short name | pass |
| `processes` | is only a child ever signalled? are captures complete, waits bounded, and is nothing left behind? | 3 ids, 3 processes started, 1 chunk written, fairness | pass |
| `members` | is the cache current? do all readers of members, types and calls agree with the declarations and each other? | every hierarchy of a class, a parent, a trait and an interface from the members listed; one of them under 3 changes | pass |
| `editing` | do tokens, their differences and ranges, formatting, renaming, outline, folding, selection and call places fit the text? | 2335 texts: all of up to 2 blocks of 18 kinds and of 3 of the 12 common ones, classes in methods of classes, named and anonymous, with declarations behind them; stacks of 2; one of them under 3 edits and requests | pass |
| `editing_rename` | does renaming a variable leave those of other functions alone, wherever the cursor is? | two functions | **violated** |

Why the bounds are enough. *Analyzers*: a slot has five states and a run is
overtaken by a save, and that save by another, so two saves per project; four slots
compete for two workers in one run, across analyzers and projects, and two for one
worker in the other. In the first the second project only competes (the constraint
`Rival`: its documents stay closed and its runs leave JSON), and there are two saves,
or one and a restart (`Few`); the theorems below remove the bounds. *Transport*:
a request, its cancellation and one message before or between them (a change, a
close, another request, garbage) show every way the look-ahead can go wrong, in
every batching. *Type queries*: two queries on one version, and a third after the
document changed or the first was abandoned; three jobs per runner. *Psalm LS*: two
questions to one process, about two texts, and room in the window of health for one
start more than is allowed; time has no bound there. *Index*: two files are what a
rivalry for a name needs, two builds what a worker that is overtaken needs, and four
records fill up, with the tombstones of two refreshes, within the four events.
*Names*: a capture takes two references and the import of one; namespaces, aliases
and groups need one statement each in front of them, and a second namespace has the
same room as the first. A file that is misread is not followed further (`Followed`: no
property speaks of it), and Organize Imports is asked for only where it deletes nothing
(`NothingBetween`). *Processes*: an id is reused
after one exit; three ids let a stranger, a session and a second child live at once,
and new processes take the lowest free id (an action constraint that only makes reuse
more frequent). *Members*: a walk has no more than three levels before it repeats
itself, and cycles are among the hierarchies. *Editing*: what a pass carries over
shows within two nested blocks and a line after them, and for the class a pass is in
behind a class, closure or anonymous class in a method; bounded stacks are given room
for two, so that three levels overflow them.

`CHECK_DEADLOCK FALSE` stands where the environment may fall silent and the server
waits for it, which every one of these systems does.

A run marked violated checks what a comment of the repository says and shows that
the code does otherwise; `findings` in `PROJECT.json` quotes both.

1. Parked type queries share their shadow file with any other query on the same
   version, which overwrites or removes it.
2. With the cursor on a parameter, or on a variable outside of functions, a rename
   takes every variable of that name in the file.

### Observations

Met while modelling, and left out of the properties above or excepted from them by
name.

*Analyzers.* With two workers or more, which is the default on any machine with as
many processors (`analyzers.c` 830-848), a run that a save overtook loses the mark that
it is outdated as soon as anything offers a free worker, a second save or the start of
another project: the start fails because the job is running (`analyzers.c` 1023) and the
failing start deletes the mark (`phpstan.c` 115); the outdated run is then reported
ready. `OutdatedOnlyIfUnmarked` says that this is the only way. The end of a run offers its worker only to the same analyzer, so with one
worker the other analyzer's pending project can wait forever (`analyzers.c` 1169).
Nothing ends a project run that does not exit by itself, though
`workers.analyzerDiagnosticsTimeout` is documented as the timeout of the diagnostics
commands.

*Transport.* A SIGTERM between the check (`documents.c` 1108) and `poll` (853) is not
noticed until the client writes or closes, where `process.c` 1026-1028 and 1057-1058
speak of a prompt stop. A cancellation that comes after the answer lingers and
cancels a later request with the same id, which only a client that uses ids again
would send (`ReuseIds`). A queued change with a range, which a conforming client does
not send, suppresses the publication of the change before it and is then ignored
itself (`Ignored`).

*Type queries.* A query that was parked before a save fills the type cache after it,
with a type of the text before the save. One that is parked on a runner that dies is
collected by nobody until another query is asked (`runner.c` 435).

*Psalm's language server.* The time a process was dead counts as health, so a
process that crashed at once clears the strikes when it is scheduled two minutes
later, where the comments at `psalm_ls.c` 1239 and 1249-1250 promise otherwise. When
its pipe is found closed before it could be reaped (`NoticeClosed`), its process
stays a zombie until the session is replaced or the server ends, and no error is
reported. An answer that was under way while its
document was closed is kept, and is found under a version of the document opened again
whose text it is not about (`closed` in `AnswersFit`; against `documents.c` 18-19,
where "entries for older versions can never hit again").

*Index.* A class that moves to another file is lost if the new file is refreshed
before the old one: the arena refuses it as a duplicate (`symbols.c` 189), where
`index.c` 1969-1970 promises that new classes stay available. When a worker fails or
has to be killed, the join loads the cache file of an earlier build if there is one,
although comments (`index.c` 1876, 1884) promise a synchronous build
(`origin = "leftover"`). An index that was refreshed before a change of folders is
written at the end although the build for the new folders was stopped, under the new
signature; files may also change between their scan and the signature (351); the next
start takes such a cache for fresh (`origin = "cache"`). A document that was only
read from disk for a request counts as open, so a refresh indexes its old text when
another program changes the file (1987, `drafted`).

*Names.* In a text that does not parse, the kind read from `function` or `const`
inside a group stays in force for the elements after it (`symbols.c` 1861-1869), and
the `use (...)` of a closure is read as imports (1848), where 1806-1809 says that
this reading mirrors the parser's (`Misread`). A symbol of the file's own namespace
is written bare although its short name is imported from elsewhere, and a later
import captures an earlier bare name (`Overshadowed`). The resolver asks the tokens
even of a text that parses, against `phpdoc.c` 3388. Behind a qualified prefix the
inserted name lacks its leading backslash. In a file with several namespaces, class
names find the imports of all of them (`Approximated`, admitted at `phpdoc.c` 3407-3408),
and in a text that does not parse none that stands behind a class (`symbols.c` 1840, `phpdoc.c` 3203,
`BehindClass`); completion and the import action take the first namespace for the whole
file, so the model accepts nothing there (`OneNamespace`). Organize Imports deletes whatever stands
between the first and the last single-line `use`, and takes constants that differ in
case for one.

*Processes.* The forked index worker inherits the server's SIGTERM handler, which
only sets a flag, so stopping it always costs the full grace and a SIGKILL
(`index.c` 1934-1942; against `process.c` 1023).

*Members.* Entries survive `didClose`, and versions start at 1 again when a document
is opened again, so an entry of the earlier session may be used (`leftover`; against
`protocol.c` 240-241). Under the walk over traits the table may grow and move the
entry that is read afterwards (`MayHaveMoved`; `member_cache.c` 290, 1100). The
readers differ: signature help ignores traits, static definition and override
completion read the disk, override completion takes the first class of the file and
skips what a nearer override makes final, constants of interfaces are not offered,
constructors of traits are not offered after `parent::`, implementations leave out
enums, the lens counts nothing for interface methods, and
private members of own traits are missed. The family of a rename is not closed over
several supertypes (against `refactor.c` 979), and calls in files that are not open
are renamed by name. Incoming calls are by name alone; a call whose receiver's class
does not declare the method falls through to a plain function of that name.

*Editing.* The brace of an interpolation is counted only when it closes
(`semantic_tokens.c` 411-424). Semantic tokens know no anonymous classes: their methods
are shown as methods only in the body of a named class, their properties never as
declarations. A named class in the body of another (PHP rejects it, an editor shows it
while it is typed) ends the outer one too (417-420): what follows is shown as functions
and plain variables. `KindsFitNesting` states the first for every token and leaves out
what follows in the second case. A formatter that "must never change runtime values"
(`formatting.c` 21-25) does so in four places: blanks at the end of the first line of a
string of several lines are trimmed, since only the lines after it are locked (344,
466-471); so are those of markup that begins on a line on which a comment ends (366); a
final newline is written behind trailing markup (510-514); and CRLF becomes LF on every
line that is not locked, the first of a string included (467-475). `InteriorsKept` names
the first three as what may change and shows that nothing else does. A rename from a
function takes locals of that name in its closures, one inside a closure leaves `use
($x)`; one of a property from its declaration writes `$this->$new`. A parameter whose
default is `X::class` makes the call hierarchy lose its function (against `hierarchy.c`
142-144).

## 4. Fairness

* `AnalyzerJobs!FairSpec`: the loop wakes at least every 50 ms while a job runs
  (`lsp_server_has_background_work`), so reaping is weakly fair; a scan that has
  begun continues. That analyzers exit is an assumption about them, kept apart
  (`AnalyzersExit`).
* `Transport!FairSpec`: the thread runs: a step of the loop that stays enabled is
  taken. `poll` without input and without background work is not enabled and
  owes nothing. The client and the signal are not fair.
* `TypeQueries!FairSpec`: a wait ends (it has a deadline), the pump runs (a parked
  query is background work), and a live runner reads and answers its jobs. The
  client, the passing of deadlines and the death of the runner are not fair.
* `PsalmLs!FairSpec`: the loop pumps before every message, so a pump that is
  possible again and again is taken (strong fairness); a handler ends; Psalm
  answers the questions it has while it lives. Its death, its greeting and its
  reports are not fair.
* `Processes!Spec`: a step of a wait is taken, the deadline of a capture passes, and
  the operating system ends a process that was killed; a process that heeds the end
  of its input ends at it, and a forked worker gets to close its copies of the pipes.
  That a child exits by itself, writes or obeys SIGTERM is not assumed.
* `ProjectIndex`, `Names`, `Members` and `Editing` have no liveness property: nothing
  obliges a worker to end, and the rest are answers, not waits.

## 5. Proofs

TLAPS checks the following for every value of the constants that satisfies the
named assumptions.

`AnalyzerJobsProofs`: the inductive invariant is `JobsInv == TypeOK /\
TableOK(Now)`. `TableOK` says of a table that its states and jobs have their
types, that no more than `Workers` slots are busy, and how the state and the job
of each slot agree. It is stated of a *table*, not of the variables, since a
handler passes through several tables: one lemma per table operation
(`StartPendingOK`, `ScheduleOK`, `RescheduleOK`, ...) says that the operation
leaves only good tables when given one, and the proof of each action chains
those lemmas in the order in which the handler calls the operations. From it
follow `TypeCorrect`, `BudgetHolds` and `StatesAgree`. `NeverRegresses` needs in
addition that a run never has seen less than the file it will replace
(`SeenInv`).

Of freshness, `OutdatedOnlyAfterLoss` proves for every budget what is true of the
code: a project is reported as ready with the diagnostics of an earlier save only when
its run had lost its mark (see the observations), and a mark is lost only beside a
second worker. The operations are compared slot by slot: what a start or a publication
leaves behind `Follows` the table it was given (no slot becomes ready, and a mark is
lost only to a free worker), and what a save leaves `Renews` it. `RunsInv` says that a
running slot that counts has read the last save.
`ScreenAgrees` is
the invariant `ShownInv`, which also covers closed documents.

`TypeQueriesProofs`: a job is followed by its id through the pipe to the runner,
the runner and the pipe back. `JobsInv` says that ids were given by the session
(`IdsGiven`), that no two jobs under way have one (`IdsDistinct`) and that
somebody waits for each (`AllOwned`); without distinctness the answer taken for
one query could leave another of that id without an owner. `NoAnswerLost`
follows. `OwnInv` adds what the file of the job that is waited for may hold: its
own probe, or nothing if a parked query of the same version took the file away.
From it follows `WaitedForIsOwn`, for both analyzers. `ShadowsGone` and
`PsalmCachesItsOwn` are inductive as they stand; the latter needs the assumption
`Analyzer = "psalm"`, and the finding about shadow files shows why.

`TransportProofs`: `AnswersInOrder` is the refinement of `RpcService`, for any ids,
documents, batching and length of the stream. The queue is described by the places
its messages have in the stream: they increase, and what was taken from the stream
and is a request is either still in the queue or answered (`QueueInv`, `AnswersInv`).
The answer `k` is to the request with `k - 1` requests before it (`InTurn`), so the
request at the head of the queue is always the next one the abstract service owes an
answer. Two things need care: frames that are no JSON objects never reach the queue,
and `QueuedCancellation` takes a message out of its middle; neither loses a request.
That the list of a finite set of places in increasing order (`InOrder`) is what it
says is a lemma by counting (`Listed`), with no induction.
`CancelsRefuse` adds that what is remembered as cancelled, and what was refused for it,
has a cancellation of its id in the stream (`RefusalsInv`), and that no id is that of
two requests and a cancellation comes after the request of its id (`IdsInv`); it
assumes `~ ReuseIds`, without which it is false (see the observations). `PublishesInTime` adds that a
document whose publication is behind has a change or a close in the queue before the next
request (`PublishInv`): the skip in `lsp_protocol_queue_supersedes_change` only looks
that far, and a close or a handled change must leave that promise standing.

`PsalmLsProofs`: a handler leads through several *worlds* (a session, its process and
the recent starts), so what a world must satisfy is stated of worlds (`Good`) and
there is a lemma for each part of a handler: telling Psalm of texts (`SentFacts`),
scheduling a start (`ScheduledFacts`), asking (`GoodAsked`), settling a question
(`SettledGood`). The inductive invariant has five parts. `Bounded`: the starts within
the window are covered by the strikes, and none is younger than the last attempt; this
gives `StartsBounded`. `Current`: a Psalm that is ready has the texts of all open
documents but the one of which the handler under way has yet to tell it; this gives
`PsalmInSync`, and the exception is why `InSync` alone is not inductive. `OpenOK`: a
handler is only about a document that is open. `Fits`: one question, and one job or
one reply, for each id, each about the text of its question; with `CacheOK` this gives
`AnswersFound`. It holds only while the pipes are those of the process (`Fits` is
conditional on `pipes`): a session whose pipes are closed keeps questions that nobody
answers. What a cached answer is found for is a second invariant, `TimelyInv`: a
question or an answer whose document was not closed since is about a document that is
open, of a version that is not newer than the document's, and if the version is that of
now, about the text of now. A change raises the version above all of them, a close marks
the questions and evicts the answers.

`ProjectIndexProofs`: an arena is `Good` if it has its type
and `InSync` holds of it. One lemma per operation says that it leads from good
arenas to good ones: `AddedGood` rests on what `SetToSeq` makes of a finite set
(each member once, hence no key twice) and needs that the accepted symbols are new;
`RemovedGood` needs that no two live records share a key, as the key of a symbol
would otherwise go with the wrong record; `LoadedGood` needs the same of the records
in a cache file. The inductive invariant `IInv` therefore says that the arenas of
the server and of the living workers are good and within their room, and that a
cache file, whoever wrote it, holds records that are `Unique`. `RegionsStayInSync`
and `ArenaKeepsToItsRoom` follow for any number of files, folders, builds and
crashes.

`IndexSound` and `IndexComplete` rest on a second invariant, `Truth`, which adds
`Content` to the first. It follows a file's text through the places that hold it: the
server's own index while it builds (`BuildShows`), the arena of a worker (`WorkerShows`),
the cache file that the worker leaves and the server reads at the join (`CacheShows`),
and the index in use (`IndexShows`). In each, a file that is still to be scanned is not
mentioned, and any other is there with its text, unless a notice about it is still to
come: a file that changes under a running worker has one, and it is handled after the
join. `Numbered` and `CacheNumbered` are needed for the file: the server takes the one
that bears its build's number, which no build to come has. `Complete` in addition
needs that an arena that was never full refused nothing (`Covered`). TLC checked
`Truth` on the instance of the run `index_session` before the proof was tried.

`ProcessesProofs`: `OnlyChildrenSignalled`. `NeverSignalsStranger` is not inductive:
a kept id whose process was reaped would become a stranger's. `KeptIsChild` adds that
every id an owner keeps and would signal is that of its living or unreaped child, and
that the wait in progress is about the child it started; each path that reaps a
process has to forget the id in the same step. `CapturesComplete` proves the action
property `CompleteUnlessOverdue` from an invariant of the pipes, `CaptureOK`: what was
written was read or is unread (`Conserved`), and a pipe whose end was read is empty
and has no writer left (`EndsAreEnds`), which the writes of a descendant that outlives
the command would break if an end were taken for final before the last writer is gone.

`HierarchyProofs`: `CachedEntriesCurrent`. `CacheSound` says that an entry whose
version or stamp *could* still be met is right, not only one that is met now:
versions and stamps of a file only grow, so an entry that is behind stays behind.
`ReadAtZero` (a document read from disk has version 0) keeps documents of the client
and of the disk apart. The other theorems follow from that invariant in every state,
for `Spec` and so for `MSpec`, whose requests are queries. While nothing is left over
an entry *is* the declaration without its private members (`EntryNow`), hence the
links of the walks through the cache are those of the declarations (`CachedLinks`).
The rest is about closures, and what takes the place of an induction over a walk is
minimality: to show that all a walk reaches has some property, take the classes that
have it and show that they follow the links (`ClosureLeast`).
`CompletionOffersAccessible`: one walk over parents and traits together reaches what
the traits of all parents compose (`WalkedIsComposing`), because what is used has no
parent (`TraitsApart`). `HierarchyViewsAgree`: a class is below another when its chain
of parents leads there (`UpAndDown`, each direction by minimality of the other's
closure); for calls, the first call of a key makes the item, and `Least` gives it.
`RenamedLinksKept`: the ancestors of a class are a chain where no class has two
parents (`AncestorsAreChain`), so a class and one above it are in the same families.
The proofs corrected the model: a method that is only documented is not renamed, and
a constructor that a trait declares is not offered after `parent::`; neither was in
the instance the run checked, and now both are. The assumption on the declarations
(`DeclAssumption`) is their type.

`EditingProofs`: `DifferenceApplies` says of any two sequences that the edit built
from their longest common beginning and the longest common end of the rest turns the
first into the second; `GreatestExists` gives the maximum its meaning.
`ClientShowsTokens` lifts it to the session. Its invariant says that answers on their
way are numbered without gaps up to the counter (`Numbered`), what the snapshot is
(`Snapshot`), and that a difference is only ever the first of them, made against what
the client shows (`Pending`): the server makes one only if the client has its last
answer, and then none is on its way. That `FullTokens` is a list of groups at all
(`TokensAreGroups`) is one of the lemmas on ranges.

`RangesAgree` follows two passes over the same tokens, one that sends everything and
one that sends the lines asked for, token by token (`Alike`): they have read the same
(`scan` never looks at what was sent), and what the second has sent decodes to the
chosen lines of what the first has sent. `lsp_semantic_emit` drops a token whose place
is before the base; that it never does so to a token with a type (`EmittedSends`) needs
that tokens come in the order of their places (`TokensInPlace`), which in turn is how
`FlattenSeq` orders the rows of a text (`FlatOrder`). Moving the base for a token that
is not sent, as the mutant does, breaks `Sound`.

`FormattingIsSettled` covers every text, option and range of all lines. The plan depends
on the tokens of each line alone (`SameToksSamePlaces`), and writing a line keeps its
tokens and changes its blanks to what the plan says, so a second pass makes the same
plan and writes the same blanks (`LineFormatted`, `FormattedSettles`); lines at the end
that `insertFinalNewline` adds or keeps are the special case (`FinishedStays`). For the
lines that a string, a heredoc or markup runs over, what is locked when the token is
passed stays locked (`TokenLocks`, `PlanLocksInteriors`): the first plan of a line
stays, and no earlier token has planned these lines, because each token begins where
those before it have ended (`TokensInOrder`). The line a token begins on is planned with
it, as code unless markup begins or a comment ends there (`Begins`, `TokenBegins`,
`PlanBegins`), which `BeginningKept` rests on. What a history of edits, formattings and
renames makes of a text is a text (`StaysOneText`), so both hold in every state.

These are statements about passes over data, for which an induction is needed, and the
library's induction theorems cannot be instantiated here. Each induction is done by
hand instead: the set of numbers for which the statement holds is closed under
successor, and a least number outside it would contradict that (`Inductive`, from the
library's well-foundedness of `<` on `Nat`). That the recursive functions exist at all,
which a definition does not say, is shown in the same way (`FlatsExist`, `PassedIs`,
`CollectedIs`, `PlacesIs`, `SelectedIs`). The assumptions are that what may be opened
or typed is a text, that the new name of a variable makes a token, and that an
indentation is a number.

The proofs corrected the model: the texts now say that no token begins between the
lines of one that runs over them. Without that an earlier token could have planned
those lines, and the first plan of a line stays.

What stays with TLC:

* all liveness properties (`SavesSettle`, `RequestsServed`, `Collected` and the others):
  TLAPS has no ENABLED, hence no fairness;
* what relates a pass with a stack to brackets that match: `KindsFitNesting`,
  `RenameKeepsBindings`, `DeclarationsFound` and `PairsSurface` of `Editing`. The
  inductions of `EditingProofs` would carry over, but the invariant of each pass is a
  theory of matching brackets (with `Cardinality` and `Max` over ranges of tokens),
  and the passes are folds, which the provers cannot expand;
* `Names` (`CollectorsAgree`, `ResolvesLikePhp`, `AcceptedStays`): two readers of the
  statements in front of a class, also folds, over strings taken apart at backslashes;
* `AnswersAgree` of `Members`: which class a recursive walk comes to *first*.

The type invariants of `AnalyzerJobs`, `TypeQueries`, `PsalmLs`, `Processes` and
`MemberCache` are proved (the last three as part of the inductive invariant) and need
no run.

## 6. Plan

Done: `AnalyzerJobs`, `Transport` with `RpcService`, `TypeQueries`, `PsalmLs`,
`ProjectIndex` with `SymbolIndex`, `Names`, `Processes`, `MemberCache` with `Hierarchy` and
`Members`,
`PhpTexts` with `SemanticTokens`, `Formatting`, `Outline` and `Editing`, and their
proofs. Next, in this order:

1. `Documents`: the document store as a module of its own, with documents read from
   disk and the caches keyed by uri and version, to be composed with `MemberCache`,
   `ProjectIndex` and `Editing`, which each model their part of it.
2. Hover questions of `PsalmLs`, the merge of a parallel index build, several
   projects and documents in `TypeQueries`.
3. `WorkspaceRoots`: roots and their prefixes, composed with the analyzers.
4. The caps on results (hierarchies, workspace symbols) as properties of what may be
   left out.
5. UTF-16 positions, URI decoding and the overlap of text edits, as pure operators.
6. Proofs: `Names`, with its readers as recursive functions; a lemma on matching
   brackets, for `PairsSurface` and `KindsFitNesting`.

## 7. Not modelled

The Windows variants (a blocking reader, other process calls) are left out: the
code compiles to them only there. Parsing of PHP, of PHPDoc and of the
analyzers' JSON, wording and layout are abstracted to what the properties tell
apart; the inference of expression types and the grammar of PHPDoc types are
recursive text analysis without state or protocol, and the code actions that only
write text have no property beyond their wording. The analyzer configuration is
string formatting, the extension entry a binding to the engine. The index is modelled
with its cache: `LSPARROT_NO_INDEX` and an arena that could not be allocated are not.
Memory management is below the model, except where an entry may move under its
reader: a table is a function, and an iteration over a table that is being extended
is taken to be sound. Failures of `write` to the client are not modelled: the code
ignores them and the client then closes its end, which is. Two writes of a file
within one stamp (modification time and size) are not told apart by the code and not
by the models. `#[` of attributes, by-reference functions, carriage returns and
caps on the number of results are left out of the passes over tokens.
