----------------------------- MODULE TypeQueries -----------------------------
(***************************************************************************)
(* Type queries of hover and completion: the version-less type cache, the  *)
(* resident runner of one analyzer in one project, and the queries parked  *)
(* on it when an answer does not come within the interactive budget.       *)
(*                                                                         *)
(* The server waits for the runner at most for the budget and then goes on *)
(* to other messages; the answer is collected whenever it looks at the     *)
(* pipe again.  The runner works its jobs off one by one and reads the     *)
(* shadow file of a job only when it gets to it.  One document is modelled;*)
(* the name of a shadow file is the version of the document.               *)
(*                                                                         *)
(* A definition that directly precedes another and has its name as prefix  *)
(* is a slip the latter must not make (see AnalyzerJobs).                  *)
(***************************************************************************)
EXTENDS Naturals, Sequences

CONSTANTS
    Exprs,         \* expressions of the document that are asked for
    Line,          \* the line each of them is on
    Analyzer,      \* "phpstan" or "psalm"
    RunnerMayDie,  \* may the runner process die?
    StartMayFail,  \* may starting it fail?
    MaxVersion,    \* bound: versions of the document
    MaxJobs        \* bound: jobs given to one runner

ASSUME LineAssumption     == Line \in [Exprs -> Nat]
ASSUME AnalyzerAssumption == Analyzer \in {"phpstan", "psalm"}
ASSUME FlagAssumption     == RunnerMayDie \in BOOLEAN /\ StartMayFail \in BOOLEAN
ASSUME LimitAssumption    == MaxVersion \in Nat \ {0} /\ MaxJobs \in Nat

Versions == 1 .. MaxVersion

\* What a shadow file holds: the text of a version with a probe for an
\* expression; and the type that an analyzer finds for the probe.
Probes == [expr : Exprs, version : Versions]
NoFile == [expr |-> "none", version |-> 0]
Files  == Probes \cup {NoFile}

\* An entry of the type cache: a type, FALSE for none found, or the mark of a
\* query still running, with its deadline ahead or passed.
Entry(kind) == [kind |-> kind, of |-> NoFile]
TypeOf(f)   == [kind |-> "type", of |-> f]
Absent      == Entry("absent")
Entries     == {Entry(k) : k \in {"absent", "false", "inflight", "overdue"}}
                 \cup {TypeOf(f) : f \in Probes}

Jobs    == [id : 1 .. MaxJobs, file : Versions]
Frames  == [id : 1 .. MaxJobs, output : Files]
Parked  == [id : 1 .. MaxJobs, expr : Exprs, file : Versions]
NoQuery == [id |-> 0, expr |-> "none"]
Resting == [id |-> 0, output |-> NoFile]

VARIABLES
    version,  \* of the document
    cache,    \* server->type_cache
    shadow,   \* the shadow files on disk
    session,  \* the runner session: none, or one with a live or a dead process
    nextId,   \* session->next_job_id
    jobs,     \* jobs in the pipe to the runner
    running,  \* the job the runner works on, with the file as it read it
    frames,   \* answers in the pipe from the runner
    pending,  \* session->pending
    query     \* the query the server waits for

runner == <<session, nextId, jobs, running, frames>>
vars   == <<version, cache, shadow, session, nextId, jobs, running,
            frames, pending, query>>

Init ==
    /\ version = 1
    /\ cache   = [e \in Exprs |-> Absent]
    /\ shadow  = [v \in Versions |-> NoFile]
    /\ session = "none"
    /\ nextId  = 1
    /\ jobs    = <<>>
    /\ running = Resting
    /\ frames  = <<>>
    /\ pending = {}
    /\ query   = NoQuery

Idle == query = NoQuery

-----------------------------------------------------------------------------
\* The document.

Change ==
    /\ Idle
    /\ version < MaxVersion
    /\ version' = version + 1
    /\ UNCHANGED <<cache, shadow, runner, pending, query>>

\* didSave evicts the type cache of the document.
Save ==
    /\ Idle
    /\ cache' = [e \in Exprs |-> Absent]
    /\ UNCHANGED <<version, shadow, runner, pending, query>>

-----------------------------------------------------------------------------
\* Answers.

\* What the output for a file may say of expression e: PHPStan's messages are
\* told apart by the line of the probe, Psalm's also by the expression.
Verdicts(e, f) ==
    {Entry("false")}
      \cup {TypeOf(g) : g \in {h \in Probes \cap {f} :
              IF Analyzer = "psalm" THEN h.expr = e ELSE Line[h.expr] = Line[e]}}

\* An answer nobody waits for goes to the query parked under its id, whose
\* shadow file is removed; without one it is dropped.
ResolveKeepsShadow(f) ==
    \/ \E d \in pending :
         /\ d.id = f.id
         /\ \E v \in Verdicts(d.expr, f.output) : cache' = [cache EXCEPT ![d.expr] = v]
         /\ pending' = pending \ {d}
         /\ UNCHANGED shadow
    \/ /\ \A d \in pending : d.id /= f.id
       /\ UNCHANGED <<cache, shadow, pending>>
ResolveKeepsPending(f) ==
    \E d \in pending :
      /\ d.id = f.id
      /\ \E v \in Verdicts(d.expr, f.output) : cache' = [cache EXCEPT ![d.expr] = v]
      /\ shadow' = [shadow EXCEPT ![d.file] = NoFile]
      /\ UNCHANGED pending
Resolve(f) ==
    \/ \E d \in pending :
         /\ d.id = f.id
         /\ \E v \in Verdicts(d.expr, f.output) : cache' = [cache EXCEPT ![d.expr] = v]
         /\ shadow' = [shadow EXCEPT ![d.file] = NoFile]
         /\ pending' = pending \ {d}
    \/ /\ \A d \in pending : d.id /= f.id
       /\ UNCHANGED <<cache, shadow, pending>>

\* The query of e ends with the output for file f: `files` are the shadow
\* files left by what went before, of which its own is now removed.
Finish(e, f, files) ==
    /\ \E v \in Verdicts(e, f) : cache' = [cache EXCEPT ![e] = v]
    /\ shadow' = [files EXCEPT ![version] = NoFile]
    /\ query' = NoQuery

\* lsp_runner_session_drop: the process is ended, the parked queries are
\* forgotten and their shadow files removed.
Dropped(files) ==
    [v \in Versions |-> IF \E d \in pending : d.file = v THEN NoFile ELSE files[v]]
DropSession ==
    /\ session' = "none"
    /\ nextId'  = 1
    /\ jobs'    = <<>>
    /\ running' = Resting
    /\ frames'  = <<>>
    /\ pending' = {}

\* Without a runner a process of its own analyses the file at once.
OneShot(e, files) == Finish(e, files[version], files)

-----------------------------------------------------------------------------
\* lsp_phpstan_type_for_expression, lsp_psalm_type_for_expression

Written(e) == [shadow EXCEPT ![version] = [expr |-> e, version |-> version]]

\* The cache has no answer and no query is running in time: one is needed.
Needed(e) == Idle /\ cache[e].kind \in {"absent", "overdue"}

\* The job goes to the runner, which is started if there is none.
QuerySent(e) ==
    /\ Needed(e)
    /\ session /= "dead"
    /\ nextId <= MaxJobs
    /\ session' = "live"
    /\ nextId'  = nextId + 1
    /\ jobs'    = Append(jobs, [id |-> nextId, file |-> version])
    /\ shadow'  = Written(e)
    /\ cache'   = [cache EXCEPT ![e] = Absent]
    /\ query'   = [id |-> nextId, expr |-> e]
    /\ UNCHANGED <<version, running, frames, pending>>

\* There is none and none can be started.
QueryUnstarted(e) ==
    /\ Needed(e)
    /\ session = "none"
    /\ StartMayFail
    /\ OneShot(e, Written(e))
    /\ UNCHANGED <<version, runner, pending>>

\* The runner is found dead when the job is written to it.
QueryUnsent(e) ==
    /\ Needed(e)
    /\ session = "dead"
    /\ DropSession
    /\ OneShot(e, Dropped(Written(e)))
    /\ UNCHANGED version

-----------------------------------------------------------------------------
\* lsp_runner_wait_response: answers are taken from the pipe until the one
\* that is waited for is there, the pipe is closed or the time is up.

WaitMatchedAnyId ==
    /\ ~ Idle
    /\ frames /= <<>>
    /\ Finish(query.expr, Head(frames).output, shadow)
    /\ frames' = Tail(frames)
    /\ UNCHANGED <<version, session, nextId, jobs, running, pending>>
WaitMatched ==
    /\ ~ Idle
    /\ frames /= <<>>
    /\ Head(frames).id = query.id
    /\ Finish(query.expr, Head(frames).output, shadow)
    /\ frames' = Tail(frames)
    /\ UNCHANGED <<version, session, nextId, jobs, running, pending>>

WaitOther ==
    /\ ~ Idle
    /\ frames /= <<>>
    /\ Head(frames).id /= query.id
    /\ Resolve(Head(frames))
    /\ frames' = Tail(frames)
    /\ UNCHANGED <<version, session, nextId, jobs, running, query>>

WaitClosed ==
    /\ ~ Idle
    /\ frames = <<>>
    /\ session = "dead"
    /\ DropSession
    /\ OneShot(query.expr, Dropped(shadow))
    /\ UNCHANGED version

\* The budget is used up: the query is parked and its key marked.
WaitTimeoutForgets ==
    /\ ~ Idle
    /\ frames = <<>>
    /\ session = "live"
    /\ cache' = [cache EXCEPT ![query.expr] = Entry("inflight")]
    /\ query' = NoQuery
    /\ UNCHANGED <<version, shadow, runner, pending>>
WaitTimeout ==
    /\ ~ Idle
    /\ frames = <<>>
    /\ session = "live"
    /\ pending' = pending \cup
         {[id |-> query.id, expr |-> query.expr, file |-> version]}
    /\ cache' = [cache EXCEPT ![query.expr] = Entry("inflight")]
    /\ query' = NoQuery
    /\ UNCHANGED <<version, shadow, runner>>

-----------------------------------------------------------------------------
\* Between requests.

\* lsp_runner_pump_pending, before every message and every 50 ms.
Pump ==
    /\ Idle
    /\ pending /= {}
    /\ frames /= <<>>
    /\ Resolve(Head(frames))
    /\ frames' = Tail(frames)
    /\ UNCHANGED <<version, session, nextId, jobs, running, query>>

\* A runner with nothing parked is let go after 300 seconds without a query.
ReapIdle ==
    /\ Idle
    /\ session /= "none"
    /\ pending = {}
    /\ DropSession
    /\ UNCHANGED <<version, cache, shadow, query>>

\* A status request finds the runner dead and closes its pipes.
Status ==
    /\ Idle
    /\ session = "dead"
    /\ frames' = <<>>
    /\ UNCHANGED <<version, cache, shadow, session, nextId, jobs,
                   running, pending, query>>

\* The deadline of a mark passes.
Expire(e) ==
    /\ cache[e].kind = "inflight"
    /\ cache' = [cache EXCEPT ![e] = Entry("overdue")]
    /\ UNCHANGED <<version, shadow, runner, pending, query>>

-----------------------------------------------------------------------------
\* The runner process.

RunnerRead ==
    /\ session = "live"
    /\ running = Resting
    /\ jobs /= <<>>
    /\ running' = [id |-> Head(jobs).id, output |-> shadow[Head(jobs).file]]
    /\ jobs' = Tail(jobs)
    /\ UNCHANGED <<version, cache, shadow, session, nextId, frames,
                   pending, query>>

RunnerAnswer ==
    /\ running /= Resting
    /\ frames' = Append(frames, running)
    /\ running' = Resting
    /\ UNCHANGED <<version, cache, shadow, session, nextId, jobs,
                   pending, query>>

RunnerDie ==
    /\ RunnerMayDie
    /\ session = "live"
    /\ session' = "dead"
    /\ jobs' = <<>>
    /\ running' = Resting
    /\ UNCHANGED <<version, cache, shadow, nextId, frames, pending, query>>

Ask(e) == QuerySent(e) \/ QueryUnstarted(e) \/ QueryUnsent(e)
Wait   == WaitMatched \/ WaitOther \/ WaitClosed \/ WaitTimeout

Next ==
    \/ Change \/ Save
    \/ \E e \in Exprs : Ask(e) \/ Expire(e)
    \/ Wait
    \/ Pump \/ ReapIdle \/ Status
    \/ RunnerRead \/ RunnerAnswer \/ RunnerDie

Spec == Init /\ [][Next]_vars

\* The loop wakes every 50 ms while a query is parked, a wait ends, and a live
\* runner works its jobs off.
FairSpec ==
    /\ Spec
    /\ WF_vars(Wait) /\ WF_vars(Pump)
    /\ WF_vars(RunnerRead) /\ WF_vars(RunnerAnswer)

-----------------------------------------------------------------------------
\* Properties.

\* The variables have their types.
TypeOK ==
    /\ version \in Versions
    /\ cache \in [Exprs -> Entries]
    /\ shadow \in [Versions -> Files]
    /\ session \in {"none", "live", "dead"}
    /\ nextId \in 1 .. MaxJobs + 1
    /\ jobs \in Seq(Jobs)
    /\ running \in Frames \cup {Resting}
    /\ frames \in Seq(Frames)
    /\ pending \subseteq Parked
    /\ query \in [id : 1 .. MaxJobs, expr : Exprs] \cup {NoQuery}

\* The ids of jobs that are given to the runner and not yet accounted for.
Unread      == {jobs[i].id : i \in DOMAIN jobs}
Outstanding == Unread \cup {frames[i].id : i \in DOMAIN frames}
                 \cup ({running.id} \ {0})

\* No answer of the runner is lost: somebody waits for every outstanding job,
\* either the request that asked or a parked query, and not both.
JobsAreOwned ==
    /\ \A i \in Outstanding : i = query.id \/ \E d \in pending : d.id = i
    /\ \A d \in pending : d.id /= query.id

\* Shadow files do not accumulate: each is that of a query still under way.
ShadowsAccountedFor ==
    \A v \in Versions : shadow[v] /= NoFile =>
      \/ ~ Idle /\ v = version
      \/ \E d \in pending : d.file = v

\* The type cached for an expression is the type of that expression.
CachedIsOwn == \A e \in Exprs : cache[e].kind = "type" => cache[e].of.expr = e

\* A type that a request waited for is that of its expression in the text the
\* request was about, whatever was parked before it.
AnswersAreOwn ==
    [][ ~ Idle /\ query' = NoQuery /\ cache'[query.expr].kind = "type" =>
          cache'[query.expr].of = [expr |-> query.expr, version |-> version] ]_vars

\* The shadow file of a parked query survives until its analysis has read it.
ShadowSurvives ==
    \A d \in pending : d.id \in Unread =>
      shadow[d.file] = [expr |-> d.expr, version |-> d.file]

\* While its runner lives a parked query is collected without the client doing
\* anything, whatever else was parked, answered or dropped meanwhile.
DrainsWhileAlive ==
    \A i \in 1 .. MaxJobs :
      (\E d \in pending : d.id = i) ~>
        (session = "dead" \/ ~ (\E d \in pending : d.id = i))
=============================================================================
