---------------------------- MODULE AnalyzerJobs ----------------------------
(***************************************************************************)
(* Project-wide PHPStan and Psalm runs: the project state tables, the job  *)
(* tables, the analyzer processes and the diagnostics they end up as.      *)
(*                                                                         *)
(* The server is single threaded: a handler runs to its end before the     *)
(* next one starts, and only the analyzer processes run beside it.  A      *)
(* handler may touch the tables several times (a save reschedules both     *)
(* analyzers and then publishes, which schedules both again), so every     *)
(* operation on the tables is an operator from a table to the SET of       *)
(* tables it may leave behind, and an action composes them in source order.*)
(*                                                                         *)
(* A definition that directly precedes another and has its name as prefix  *)
(* (LaunchMarksFailed before Launch) is a slip the latter must not make;   *)
(* the specification does not use it, the mutation checks do.              *)
(***************************************************************************)
EXTENDS Naturals, FiniteSets

CONSTANTS
    Enabled,      \* the CLI analyzers that are enabled and installed
    Projects,     \* Composer projects that have a scope to analyse
    Workers,      \* lsp_analyzer_parallel_workers: workers.count or the CPUs
    SpawnMayFail, \* may the command of a run fail to be built or spawned?
    Exits,        \* what a run may leave in its output file
    MaxSaves,     \* bound: saves per project
    MaxRestarts   \* bound: restarts of the server

ASSUME EnabledAssumption  == Enabled \subseteq {"phpstan", "psalm"}
ASSUME ProjectsAssumption == IsFiniteSet(Projects)
ASSUME WorkersAssumption  == Workers \in Nat \ {0}
ASSUME SpawnAssumption    == SpawnMayFail \in BOOLEAN
ASSUME ExitsAssumption    == Exits \subseteq {"json", "junk", "empty"} /\ Exits /= {}
ASSUME BoundsAssumption   == MaxSaves \in Nat /\ MaxRestarts \in Nat

Slots  == Enabled \X Projects
States == {"absent", "pending", "running", "ready", "error"}

\* A job of the job table. `exit` is what the process has done so far: it is
\* alive, or it has exited leaving JSON, other text or nothing in its output
\* file. `seen` is the saved revision of the project it has read.
Jobs   == [running : BOOLEAN, exit : {"alive"} \cup Exits, seen : Nat]
NoJob  == [running |-> FALSE, exit |-> "alive", seen |-> 0]

\* The file project-diagnostics.json of a slot, and the revision it describes.
Outputs  == [kind : {"none", "json", "junk"}, seen : Nat]
NoOutput == [kind |-> "none", seen |-> 0]

\* What the client shows for the document of a project: whether analyzer
\* output was part of the last publication, and which.
Views    == [analyzers : BOOLEAN, out : [Enabled -> Outputs]]
NoView   == [analyzers |-> FALSE, out |-> [a \in Enabled |-> NoOutput]]

Tables == [state : [Slots -> States], job : [Slots -> Jobs],
           saved : [Projects -> Nat]]

VARIABLES
    state,      \* phpstan_projects and psalm_projects
    job,        \* phpstan_jobs and psalm_jobs
    saved,      \* how often documents of the project were saved to disk
    file,       \* the committed output files, which outlive the server
    open,       \* projects with a document in server->documents
    clean,      \* those whose document has no diagnostics of the parser
    shown,      \* what the client shows for that document
    unscanned,  \* projects `initialize` has still to schedule
    restarts    \* number of restarts so far

vars == <<state, job, saved, file, open, clean, shown, unscanned, restarts>>

Now == [state |-> state, job |-> job, saved |-> saved]

-----------------------------------------------------------------------------
\* Operations on the tables.

BusyByState(t) == {s \in Slots : t.state[s] = "running"}
Busy(t) == {s \in Slots : t.job[s].running}
PendingSlots(t, a) == {s \in Slots : s[1] = a /\ t.state[s] = "pending"}

WithState(t, s, v) == [t EXCEPT !.state[s] = v]

HasRoom(t) == Cardinality(Busy(t)) < Workers

\* One pass of the loop of lsp_start_pending_*_project_analyzer, which takes
\* pending projects one by one while there is room, has started those in
\* c.start and dropped those in c.drop from the state table. A project whose
\* job still runs cannot be started again, so the loop drops it. (The order of
\* the hash table is abstracted: any pending project may be taken first.)
LoopOutcome(t, pending, c) ==
    /\ c.start \cap c.drop = {}
    /\ c.start \cap Busy(t) = {}
    /\ SpawnMayFail \/ c.drop \subseteq Busy(t)
    /\ Cardinality(Busy(t)) + Cardinality(c.start) <= Workers
    /\ \/ c.start \cup c.drop = pending
       \/ Cardinality(Busy(t)) + Cardinality(c.start) = Workers

\* The tables after the runs of `started` were spawned and `dropped` removed.
LaunchMarksFailed(t, started, dropped) ==
    [state |-> [s \in Slots |-> IF s \in started \cup dropped THEN "running"
                                ELSE t.state[s]],
     job   |-> [s \in Slots |-> IF s \in started
                                THEN [running |-> TRUE, exit |-> "alive",
                                      seen |-> t.saved[s[2]]]
                                ELSE t.job[s]],
     saved |-> t.saved]
Launch(t, started, dropped) ==
    [state |-> [s \in Slots |-> IF s \in started THEN "running"
                                ELSE IF s \in dropped THEN "absent"
                                ELSE t.state[s]],
     job   |-> [s \in Slots |-> IF s \in started
                                THEN [running |-> TRUE, exit |-> "alive",
                                      seen |-> t.saved[s[2]]]
                                ELSE t.job[s]],
     saved |-> t.saved]

StartPending(t, a) ==
    LET pending == PendingSlots(t, a)
    IN  IF ~ HasRoom(t) THEN {t}
        ELSE { Launch(t, c.start, c.drop) :
                 c \in { d \in [start : SUBSET pending, drop : SUBSET pending] :
                           LoopOutcome(t, pending, d) } }

Schedule(t, a, p) ==
    IF a \notin Enabled \/ t.state[<<a, p>>] /= "absent" THEN {t}
    ELSE StartPending(WithState(t, <<a, p>>, "pending"), a)

ScheduleAll(t, p) ==
    UNION { Schedule(u, "psalm", p) : u \in Schedule(t, "phpstan", p) }

\* A save reschedules its project: a run in progress will not count, anything
\* else is forgotten and scheduled anew.
RescheduleKeepsRun(t, a, p) ==
    IF a \notin Enabled \/ t.state[<<a, p>>] = "running" THEN {t}
    ELSE Schedule(WithState(t, <<a, p>>, "absent"), a, p)
Reschedule(t, a, p) ==
    IF a \notin Enabled THEN {t}
    ELSE IF t.state[<<a, p>>] = "running"
         THEN {WithState(t, <<a, p>>, "pending")}
         ELSE Schedule(WithState(t, <<a, p>>, "absent"), a, p)

RescheduleAll(t, p) ==
    UNION { Reschedule(u, "psalm", p) : u \in Reschedule(t, "phpstan", p) }

-----------------------------------------------------------------------------
\* Diagnostics.

\* What the cached diagnostics of an analyzer say of a document: the messages
\* of the committed file, or that it is not the JSON it should be.
Cached(a, p, files) == files[<<a, p>>]

\* Analyzer output is published only for a document the parser accepts.
Published(p, isClean, files) ==
    [analyzers |-> isClean,
     out |-> [a \in Enabled |-> IF isClean THEN Cached(a, p, files) ELSE NoOutput]]

\* An empty output is unlinked and leaves the previous file in place; any
\* other output replaces it, whether the analyzer succeeded or not.
CommitUnlinksFinal(f, s, j) ==
    [f EXCEPT ![s] = IF j.exit = "empty" THEN NoOutput
                     ELSE [kind |-> j.exit, seen |-> j.seen]]
Commit(f, s, j) ==
    IF j.exit = "empty" THEN f
    ELSE [f EXCEPT ![s] = [kind |-> j.exit, seen |-> j.seen]]

-----------------------------------------------------------------------------
Init ==
    /\ state     = [s \in Slots |-> "absent"]
    /\ job       = [s \in Slots |-> NoJob]
    /\ saved     = [p \in Projects |-> 0]
    /\ file      = [s \in Slots |-> NoOutput]
    /\ open      = {}
    /\ clean     = {}
    /\ shown     = [p \in Projects |-> NoView]
    /\ unscanned = Projects
    /\ restarts  = 0

Becomes(t) ==
    /\ state' = t.state
    /\ job'   = t.job
    /\ saved' = t.saved

\* The server is between two handlers.
Idle == unscanned = {}

\* lsp_schedule_workspace_analyzers, called by `initialize`, schedules one
\* project after the other; no other handler runs before it is through.
Scan(p) ==
    /\ p \in unscanned
    /\ unscanned' = unscanned \ {p}
    /\ \E t \in ScheduleAll(Now, p) : Becomes(t)
    /\ UNCHANGED <<file, open, clean, shown, restarts>>

\* didOpen, or a didChange that no queued change supersedes.
OpenOrChange(p, isClean) ==
    /\ Idle
    /\ open'  = open \cup {p}
    /\ clean' = IF isClean THEN clean \cup {p} ELSE clean \ {p}
    /\ \E t \in ScheduleAll(Now, p) : Becomes(t)
    /\ shown' = [shown EXCEPT ![p] = Published(p, isClean, file)]
    /\ UNCHANGED <<file, unscanned, restarts>>

\* A didChange whose publication is left to a newer change in the queue.
SupersededChange(p, isClean) ==
    /\ Idle
    /\ open'  = open \cup {p}
    /\ clean' = IF isClean THEN clean \cup {p} ELSE clean \ {p}
    /\ UNCHANGED <<state, job, saved, file, shown, unscanned, restarts>>

\* didSave of an open document, with the saved text.
Save(p, isClean) ==
    /\ Idle
    /\ p \in open
    /\ saved[p] < MaxSaves
    /\ clean' = IF isClean THEN clean \cup {p} ELSE clean \ {p}
    /\ \E t \in RescheduleAll([Now EXCEPT !.saved[p] = @ + 1], p) :
         \E u \in ScheduleAll(t, p) : Becomes(u)
    /\ shown' = [shown EXCEPT ![p] = Published(p, isClean, file)]
    /\ UNCHANGED <<file, open, unscanned, restarts>>

Close(p) ==
    /\ Idle
    /\ p \in open
    /\ open'  = open \ {p}
    /\ clean' = clean \ {p}
    /\ shown' = [shown EXCEPT ![p] = NoView]
    /\ UNCHANGED <<state, job, saved, file, unscanned, restarts>>

\* The analyzer exits. It has read the project at some moment of its run.
ProcessExit(s) ==
    /\ job[s].running
    /\ job[s].exit = "alive"
    /\ \E e \in Exits, n \in job[s].seen .. saved[s[2]] :
         job' = [job EXCEPT ![s] = [running |-> TRUE, exit |-> e, seen |-> n]]
    /\ UNCHANGED <<state, saved, file, open, clean, shown, unscanned, restarts>>

\* A run that a save overtook: the output is thrown away, the project stays
\* pending and is among those the freed worker may be given to.
DiscardRunForgets(s) ==
    /\ state[s] = "pending"
    /\ Becomes([Now EXCEPT !.job[s] = NoJob])
    /\ UNCHANGED <<file, shown>>
DiscardRun(s) ==
    /\ state[s] = "pending"
    /\ \E t \in StartPending([Now EXCEPT !.job[s] = NoJob], s[1]) : Becomes(t)
    /\ UNCHANGED <<file, shown>>

\* lsp_publish_project_document_diagnostics
RepublishOnlyReady(s, f) ==
    IF s[2] \in open /\ job[s].exit = "json"
    THEN [shown EXCEPT ![s[2]] = Published(s[2], s[2] \in clean, f)]
    ELSE shown
Republish(s, f) ==
    IF s[2] \in open
    THEN [shown EXCEPT ![s[2]] = Published(s[2], s[2] \in clean, f)]
    ELSE shown

\* A run that counts: its output is committed, the project is settled, its
\* documents are published again (which schedules its analyzers), and then
\* the freed worker goes to a pending project of the same analyzer.
SettleRun(s) ==
    LET verdict == IF job[s].exit = "json" THEN "ready" ELSE "error"
        settled == WithState([Now EXCEPT !.job[s] = NoJob], s, verdict)
        files   == Commit(file, s, job[s])
    IN  /\ state[s] /= "pending"
        /\ file'  = files
        /\ shown' = Republish(s, files)
        /\ \E t \in (IF s[2] \in open THEN ScheduleAll(settled, s[2])
                                      ELSE {settled}) :
             \E u \in StartPending(t, s[1]) : Becomes(u)

\* lsp_reap_analyzer_job finds that the process has exited.
Reap(s) ==
    /\ Idle
    /\ job[s].running
    /\ job[s].exit /= "alive"
    /\ DiscardRun(s) \/ SettleRun(s)
    /\ UNCHANGED <<open, clean, unscanned, restarts>>

\* The server ends: it terminates its jobs and unlinks their output. The next
\* server finds the committed files of this one.
Restart ==
    /\ Idle
    /\ restarts < MaxRestarts
    /\ restarts'  = restarts + 1
    /\ state'     = [s \in Slots |-> "absent"]
    /\ job'       = [s \in Slots |-> NoJob]
    /\ open'      = {}
    /\ clean'     = {}
    /\ shown'     = [p \in Projects |-> NoView]
    /\ unscanned' = Projects
    /\ UNCHANGED <<saved, file>>

Edit(p) == \E isClean \in BOOLEAN :
    \/ OpenOrChange(p, isClean)
    \/ SupersededChange(p, isClean)
    \/ Save(p, isClean)

Next ==
    \/ \E p \in Projects : Scan(p) \/ Edit(p) \/ Close(p)
    \/ \E s \in Slots : ProcessExit(s) \/ Reap(s)
    \/ Restart

Spec == Init /\ [][Next]_vars

\* The poll loop wakes every 50 ms while a job runs and reaps, and a handler
\* that started finishes. That an analyzer exits is assumed of the analyzers:
\* nothing in the server ends a project run.
ServerFairness ==
    /\ \A p \in Projects : WF_vars(Scan(p))
    /\ \A s \in Slots : WF_vars(Reap(s))
AnalyzersExit == \A s \in Slots : WF_vars(ProcessExit(s))

FairSpec == Spec /\ ServerFairness /\ AnalyzersExit

-----------------------------------------------------------------------------
\* Properties.

\* The variables have their types.
TypeOK ==
    /\ state \in [Slots -> States]
    /\ job   \in [Slots -> Jobs]
    /\ saved \in [Projects -> Nat]
    /\ file  \in [Slots -> Outputs]
    /\ open \subseteq Projects
    /\ clean \subseteq Projects
    /\ shown \in [Projects -> Views]
    /\ unscanned \subseteq Projects
    /\ restarts \in Nat

\* The runs of both analyzers together never exceed the worker budget, by
\* whichever of the entry points (initialize, open, change, save, the end of
\* another run) they were started.
CapacityRespected == Cardinality({s \in Slots : job[s].running}) <= Workers

\* The state a client is told agrees with the processes: a project reported as
\* running has a live job, and no project is reported as ready or failed while
\* a job of it still runs and may yet replace its diagnostics.
StateAgreesWithJob ==
    \A s \in Slots :
      /\ state[s] = "running" => job[s].running
      /\ job[s].running => state[s] \notin {"ready", "error"}

\* A project that is reported as ready with other diagnostics than those of its
\* last save, and one whose job runs although the table of states has no entry
\* for it: the mark that the run is overtaken was deleted.
Outdated(s) == state[s] = "ready" /\ file[s].seen /= saved[s[2]]
Unmarked(s) == state[s] = "absent" /\ job[s].running

\* With any number of workers, there is one way for a project to be reported as
\* ready although it was saved later: the run that counted had lost its mark. A
\* run loses it only to a starter that has a second worker to give away, and
\* tries to start again what is running (lsp_start_analyzer_project_job). So a
\* save during a run makes the run count for nothing, and with one worker ready
\* diagnostics are always those of the last save.
OutdatedOnlyIfUnmarked ==
    [][\A s \in Slots :
         /\ ~ Outdated(s) /\ Outdated(s)' => Unmarked(s)
         /\ Unmarked(s)' => job[s].running /\ Workers > 1]_vars

\* Analyzer diagnostics on the client's screen are those of the committed
\* file: whatever replaces the file also publishes the project's documents.
ShownIsCommitted ==
    \A p \in open : shown[p].analyzers =>
      \A a \in Enabled : shown[p].out[a] = file[<<a, p>>]

\* A committed file is never replaced by diagnostics of an older revision.
CommittedNeverRegresses ==
    [][\A s \in Slots : file'[s].seen >= file[s].seen]_vars

\* When the saves have stopped every project that was scheduled settles, and a
\* project left ready or failed has no run and no wait outstanding.
SavesSettle == \A s \in Slots : []<>(state[s] \in {"ready", "error"})
=============================================================================
