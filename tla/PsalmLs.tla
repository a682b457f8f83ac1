------------------------------- MODULE PsalmLs -------------------------------
(***************************************************************************)
(* The proxy of Psalm's own language server: one session with a process,   *)
(* which is told of the documents of its project, sends diagnostics, and   *)
(* is asked for completions whose answers fill the completion cache.  The  *)
(* process may die at any moment; it is started again by whatever next     *)
(* schedules the project, with a bounded number of strikes.                *)
(*                                                                         *)
(* The session answers only when it is pumped: on every tick of the loop,  *)
(* and inside the handlers that wait for it to become ready.  A handler is *)
(* therefore two steps, up to its wait and from there (Begin and Finish),  *)
(* and the messages of Psalm may be handled in between.                    *)
(*                                                                         *)
(* A text is a number that no other text has.  The version of a document   *)
(* is the client's: 1 when it is opened and one more with every change, so *)
(* a document that is closed and opened again has its versions again.      *)
(* Psalm handles what it is sent in order, so its texts are those sent     *)
(* last and a question is about the text of the moment it was sent.        *)
(***************************************************************************)
EXTENDS Naturals, Sequences, FiniteSets

CONSTANTS
    Docs,         \* documents in the analysis paths of the project
    OnChange,     \* the option psalm_on_change
    MayStall,     \* may a live process stop reading for the write timeout?
    MaxRestarts,  \* LSP_PSALM_LS_MAX_RESTARTS
    Backoff,      \* LSP_PSALM_LS_RESTART_BACKOFF_SECONDS, in ticks
    Healthy,      \* LSP_PSALM_LS_HEALTHY_SECONDS, in ticks
    MaxText,      \* bound: texts
    MaxId,        \* bound: ids of one session
    MaxWire       \* bound: unread messages that make Psalm hold back diagnostics

ASSUME FlagAssumption == OnChange \in BOOLEAN /\ MayStall \in BOOLEAN
ASSUME TimeAssumption ==
    /\ MaxRestarts \in Nat \ {0} /\ Backoff \in Nat \ {0} /\ Healthy \in Nat
    /\ Backoff <= Healthy
ASSUME LimitAssumption ==
    MaxText \in Nat \ {0} /\ MaxId \in Nat \ {0} /\ MaxWire \in Nat

Texts  == 1 .. MaxText
NoText == 0
Ids    == 1 .. MaxId
Nowhere == [d \in Docs |-> NoText]

\* Messages from Psalm. A question in session->pending has an id, the document
\* and its version, which make the key of its answer, and two ghosts: the text
\* it is about, and whether the document was closed since. Psalm works on jobs
\* with an id, the document and the text it has of it.
Greeting          == [kind |-> "greeting"]
Answer(id, t)     == [kind |-> "answer", id |-> id, text |-> t]
Failure(id)       == [kind |-> "failure", id |-> id]
Diagnostics(d)    == [kind |-> "diagnostics", doc |-> d]

VARIABLES
    documents,  \* server->documents: texts; NoText if not in the table
    version,    \* and their versions; 0 for a text that was read from disk
    editor,     \* the documents that the client has open
    disk,       \* the texts on disk
    last,       \* the last text that was written
    cache,      \* server->completion_cache: the key (doc, version), the text
                \* the answer is for, and the ghosts of its question
    session,    \* the entry of the project in server->psalm_ls_projects
    psalm,      \* the process of that session and the pipe from it
    recent,     \* ages of the starts of the last Healthy ticks (ghost)
    call        \* the handler that is waiting

vars == <<documents, version, editor, disk, last, cache, session, psalm, recent, call>>
store == <<documents, version, editor, disk, last, cache>>

\* A process that was just started, and the session that goes with it; id 1
\* is that of the initialize request.
NewPsalm == [state |-> "alive", greeted |-> FALSE, text |-> Nowhere,
             jobs |-> {}, out |-> <<>>]
NewSession(strikes) ==
    [there |-> TRUE, up |-> TRUE, ready |-> FALSE, failed |-> FALSE,
     pipes |-> TRUE, strikes |-> strikes, age |-> 0, next |-> 2,
     pending |-> {}]
NoSession == [NewSession(0) EXCEPT !.there = FALSE, !.up = FALSE, !.pipes = FALSE]
NoPsalm   == [NewPsalm EXCEPT !.state = "gone"]
NoCall    == [op |-> "none", doc |-> {}, pump |-> FALSE, again |-> FALSE]

Init ==
    /\ documents = Nowhere
    /\ version = [d \in Docs |-> 0]
    /\ editor = {}
    /\ disk = [d \in Docs |-> 1]
    /\ last = 1
    /\ cache = {}
    /\ session = NoSession
    /\ psalm = NoPsalm
    /\ recent = {}
    /\ call = NoCall

Idle == call = NoCall

-----------------------------------------------------------------------------
\* What handlers do to the session is described on worlds: an operation leads
\* from one world to the set of worlds it may leave behind.

World == [session |-> session, psalm |-> psalm, recent |-> recent]
Become(w) ==
    /\ session' = w.session
    /\ psalm' = w.psalm
    /\ recent' = w.recent

\* The session has failed.
Down(w) == [w EXCEPT !.session.up = FALSE, !.session.failed = TRUE]

Listening(w) == w.session.up /\ w.session.ready

\* Messages to Psalm that set the texts of some documents.  Nothing is sent
\* before Psalm is ready; a write that fails ends the session.
Sent(w, texts) ==
    IF ~ Listening(w)
    THEN {w}
    ELSE (IF w.psalm.state = "alive"
          THEN {[w EXCEPT !.psalm.text =
                     [d \in Docs |-> IF d \in DOMAIN texts THEN texts[d] ELSE @[d]]]}
          ELSE {})
           \cup (IF w.psalm.state /= "alive" \/ MayStall THEN {Down(w)} ELSE {})

Opened(table) == [d \in {e \in Docs : table[e] /= NoText} |-> table[d]]
OnlyOf(d, t)  == [e \in {d} |-> t]

\* A long time since the last start clears the strikes.
Cleared(s) == IF s.strikes > 0 /\ s.age > Healthy THEN 0 ELSE s.strikes

Due(s) ==
    /\ s.there /\ ~ s.up /\ s.failed
    /\ Cleared(s) < MaxRestarts
    /\ s.age >= Backoff

\* lsp_psalm_ls_schedule_project: nothing to do, no tool, no configuration or
\* process (a strike, for a session that is started again), or a new session.
StartedForgetsStrikes(w) ==
    [w EXCEPT !.session = NewSession(0), !.psalm = NewPsalm, !.recent = @ \cup {0}]
Started(w) ==
    [w EXCEPT !.session = NewSession(IF w.session.there THEN Cleared(w.session) + 1 ELSE 0),
              !.psalm = NewPsalm, !.recent = @ \cup {0}]
Unstarted(w) ==
    IF ~ w.session.there THEN w
    ELSE [w EXCEPT !.session.strikes = Cleared(w.session) + 1, !.session.age = 0]
Scheduled(w) ==
    IF w.session.there /\ ~ Due(w.session)
    THEN {w}
    ELSE {[w EXCEPT !.session.strikes = Cleared(w.session)],
          Unstarted(w), Started(w)}

-----------------------------------------------------------------------------
\* The pump: the process is reaped, its pipe is read, its messages handled.

Pumping == Idle \/ call.pump

Reap ==
    /\ Pumping
    /\ session.up /\ psalm.state = "exited"
    /\ session' = [session EXCEPT !.up = FALSE, !.failed = TRUE, !.pipes = FALSE]
    /\ UNCHANGED <<store, psalm, recent, call>>

\* The pipe is found closed before the process can be reaped: what was read
\* last is not looked at, and the session will never be reaped.
NoticeClosed ==
    /\ Pumping
    /\ session.up /\ psalm.state = "closing"
    /\ Become(Down(World))
    /\ UNCHANGED <<store, call>>

\* The message at the head of the pipe.
Received(m) ==
    /\ Pumping
    /\ session.pipes /\ psalm.state = "alive"
    /\ psalm.out /= <<>>
    /\ m = Head(psalm.out)
Read == [World EXCEPT !.psalm.out = Tail(@)]

\* Psalm is ready: it is told of all documents in the table.
HandleGreetingOnly ==
    /\ Received(Greeting)
    /\ Become([Read EXCEPT !.session.ready = TRUE])
    /\ UNCHANGED <<store, call>>
HandleGreeting ==
    /\ Received(Greeting)
    /\ \E w \in Sent([Read EXCEPT !.session.ready = TRUE],
                     Opened(documents)) : Become(w)
    /\ UNCHANGED <<store, call>>

\* An answer is stored under the key that its question had when it was asked;
\* an error response settles the question and stores nothing.
Keep(q, t) ==
    {c \in cache : ~ (c.doc = q.doc /\ c.version = q.version)}
      \cup {[doc |-> q.doc, version |-> q.version, text |-> t,
             about |-> q.about, closed |-> q.closed]}
HandleAnswerOfAny ==
    \E id \in Ids, t \in Texts \cup {NoText}, q \in session.pending :
      /\ Received(Answer(id, t))
      /\ cache' = Keep(q, t)
      /\ Become([Read EXCEPT !.session.pending = @ \ {q}])
      /\ UNCHANGED <<documents, version, editor, disk, last, call>>
HandleAnswer ==
    \E id \in Ids, t \in Texts \cup {NoText}, q \in session.pending :
      /\ Received(Answer(id, t))
      /\ q.id = id
      /\ cache' = Keep(q, t)
      /\ Become([Read EXCEPT !.session.pending = @ \ {q}])
      /\ UNCHANGED <<documents, version, editor, disk, last, call>>
HandleFailureKeepsQuestion ==
    \E id \in Ids, q \in session.pending :
      /\ Received(Failure(id))
      /\ q.id = id
      /\ Become(Read)
      /\ UNCHANGED <<store, call>>
HandleFailure ==
    \E id \in Ids, q \in session.pending :
      /\ Received(Failure(id))
      /\ q.id = id
      /\ Become([Read EXCEPT !.session.pending = @ \ {q}])
      /\ UNCHANGED <<store, call>>

\* Diagnostics (what they say is left out) are published, for which a document
\* that is not in the table is read from disk; publishing schedules the project.
HandleDiagnostics ==
    \E d \in Docs :
      /\ Received(Diagnostics(d))
      /\ documents' = [documents EXCEPT ![d] = IF @ = NoText THEN disk[d] ELSE @]
      /\ \E w \in Scheduled(Read) : Become(w)
      /\ UNCHANGED <<version, editor, disk, last, cache, call>>

Pump == \/ Reap \/ NoticeClosed \/ HandleGreeting \/ HandleAnswer
        \/ HandleFailure \/ HandleDiagnostics

-----------------------------------------------------------------------------
\* The handlers, up to their wait.

Evicted(d) == {c \in cache : c.doc /= d}

\* Handler op has led to world w; it waits if Psalm is up and not yet ready.
Begin(op, ds, w) ==
    /\ Become(w)
    /\ call' = [op    |-> op, doc |-> ds,
                pump  |-> w.session.up /\ ~ w.session.ready /\ (op = "change" => OnChange),
                again |-> session.there /\ w.recent /= recent]

\* initialize, and changes of the workspace folders
Scan ==
    /\ Idle
    /\ \E w \in Scheduled(World) : Begin("scan", {}, w)
    /\ UNCHANGED store

\* What the cache has of a document is evicted if the document is in the table.
DidOpen(d) ==
    /\ Idle
    /\ d \notin editor
    /\ editor' = editor \cup {d}
    /\ documents' = [documents EXCEPT ![d] = disk[d]]
    /\ version' = [version EXCEPT ![d] = 1]
    /\ cache' = IF documents[d] = NoText THEN cache ELSE Evicted(d)
    /\ \E w \in Scheduled(World) : Begin("open", {d}, w)
    /\ UNCHANGED <<disk, last>>

DidChange(d) ==
    /\ Idle
    /\ d \in editor
    /\ last < MaxText
    /\ last' = last + 1
    /\ documents' = [documents EXCEPT ![d] = last + 1]
    /\ version' = [version EXCEPT ![d] = @ + 1]
    /\ cache' = Evicted(d)
    /\ Begin("change", {d}, World)
    /\ UNCHANGED <<editor, disk>>

DidSave(d) ==
    /\ Idle
    /\ d \in editor
    /\ disk' = [disk EXCEPT ![d] = documents[d]]
    /\ cache' = Evicted(d)
    /\ \E w \in Scheduled(World) : Begin("save", {d}, w)
    /\ UNCHANGED <<documents, version, editor, last>>

\* A completion that the cache does not answer.
Complete(d) ==
    /\ Idle
    /\ d \in editor
    /\ session.next <= MaxId
    /\ \A c \in cache : ~ (c.doc = d /\ c.version = version[d])
    /\ \E w \in Scheduled(World) : Begin("complete", {d}, w)
    /\ UNCHANGED store

\* didClose does not wait. Questions about the document stay pending.
Left(w, d) ==
    [w EXCEPT !.session.pending =
        {[q EXCEPT !.closed = @ \/ q.doc = d] : q \in @}]
DidClose(d) ==
    /\ Idle
    /\ d \in editor
    /\ editor' = editor \ {d}
    /\ documents' = [documents EXCEPT ![d] = NoText]
    /\ version' = [version EXCEPT ![d] = 0]
    /\ cache' = Evicted(d)
    /\ \E w \in Sent(Left(World, d), OnlyOf(d, NoText)) : Become(w)
    /\ UNCHANGED <<disk, last, call>>

-----------------------------------------------------------------------------
\* The handlers, from their wait to the end.

\* A question is noted as pending before it is sent.
Asked(w, d) ==
    IF ~ Listening(w) THEN {w}
    ELSE LET v == [w EXCEPT !.session.next = @ + 1,
                            !.session.pending = @ \cup
                     {[id |-> w.session.next, doc |-> d, version |-> version[d],
                       about |-> documents[d], closed |-> FALSE]}]
             job == [id |-> w.session.next, doc |-> d, text |-> w.psalm.text[d]]
         IN {IF Listening(u) THEN [u EXCEPT !.psalm.jobs = @ \cup {job}] ELSE u :
               u \in Sent(v, <<>>)}

\* A restarted session that is ready by now is told of the open documents,
\* then comes what the handler has to say, then (except for a completion, a scan
\* and a superseded change) it publishes, which schedules the project once more.
Replayed(w) == IF call.again THEN Sent(w, Opened(documents)) ELSE {w}
Told(w, d) ==
    CASE call.op \in {"open", "save"} -> Sent(w, OnlyOf(d, documents[d]))
      [] call.op = "change"   -> IF OnChange THEN Sent(w, OnlyOf(d, documents[d])) ELSE {w}
      [] call.op = "complete" -> Asked(w, d)
Finish ==
    /\ ~ Idle
    /\ \E w \in Replayed(World) :
         \/ call.op = "scan" /\ Become(w)
         \/ \E d \in call.doc : \E v \in Told(w, d) :
              \/ call.op \in {"complete", "change"} /\ Become(v)
              \/ call.op /= "complete" /\ \E u \in Scheduled(v) : Become(u)
    /\ call' = NoCall
    /\ UNCHANGED store

-----------------------------------------------------------------------------
\* Psalm.  It greets when it is ready for the first time, reports on the texts
\* it was given, answers or fails, and may die; its pipes close before it can
\* be waited for.

Others == <<store, session, recent, call>>

PsalmGreets ==
    /\ psalm.state = "alive" /\ ~ psalm.greeted
    /\ psalm' = [psalm EXCEPT !.greeted = TRUE, !.out = Append(@, Greeting)]
    /\ UNCHANGED Others

PsalmAnswers(id) ==
    /\ psalm.state = "alive"
    /\ \E j \in psalm.jobs :
         /\ j.id = id
         /\ \E m \in {Answer(id, j.text), Failure(id)} :
              psalm' = [psalm EXCEPT !.out = Append(@, m), !.jobs = @ \ {j}]
    /\ UNCHANGED Others

PsalmReports(d) ==
    /\ psalm.state = "alive"
    /\ psalm.text[d] /= NoText
    /\ Len(psalm.out) < MaxWire
    /\ psalm' = [psalm EXCEPT !.out = Append(@, Diagnostics(d))]
    /\ UNCHANGED Others

\* Its death closes the pipe, and takes with it what is unread in there.
PsalmDies ==
    /\ psalm.state = "alive"
    /\ psalm' = [psalm EXCEPT !.state = "closing", !.jobs = {}, !.out = <<>>]
    /\ UNCHANGED Others
PsalmExits ==
    /\ psalm.state = "closing" /\ session.up
    /\ psalm' = [psalm EXCEPT !.state = "exited"]
    /\ UNCHANGED Others

\* Time passes, as far as the limits can tell.
Tick ==
    /\ session.there
    /\ session' = [session EXCEPT !.age = IF @ > Healthy THEN @ ELSE @ + 1]
    /\ recent' = {a + 1 : a \in recent} \cap 0 .. Healthy
    /\ UNCHANGED <<store, psalm, call>>

Client == Scan \/ \E d \in Docs :
    DidOpen(d) \/ DidChange(d) \/ DidSave(d) \/ Complete(d) \/ DidClose(d)
Psalm  == \/ PsalmGreets \/ \E id \in Ids : PsalmAnswers(id)
          \/ \E d \in Docs : PsalmReports(d)
          \/ PsalmDies \/ PsalmExits
Next == Client \/ Finish \/ Pump \/ Psalm \/ Tick

Spec == Init /\ [][Next]_vars

\* The loop pumps before every message and on every tick (a session is
\* background work); a handler ends; Psalm answers while it lives.
Fairness ==
    /\ SF_vars(Pump)
    /\ WF_vars(Finish)
    /\ \A id \in 2 .. MaxId : WF_vars(PsalmAnswers(id))
FairSpec == Spec /\ Fairness
-----------------------------------------------------------------------------

\* When no handler is under way and changes are passed on, a Psalm that is
\* ready has of every document that the editor has open the text that the
\* editor has: whatever was skipped while it was starting is made up for
\* (lsp_psalm_ls_send_open_documents, _replay_open_documents).
InSync ==
    Idle /\ OnChange /\ Listening(World) =>
        \A d \in editor : psalm.text[d] = documents[d]

UnderWay == {j.id : j \in psalm.jobs}
              \cup {psalm.out[i].id : i \in {k \in 1 .. Len(psalm.out) :
                        psalm.out[k].kind \in {"answer", "failure"}}}

\* Every question that Psalm works on, and every answer on its way, has one
\* pending entry of the session under its id: no answer will be dropped or
\* taken for another. A cached completion was computed on the text that the
\* document had when it was asked for, in spite of changes and restarts while
\* it was under way. And one that a completion would find, under the version
\* that the document has now, is about the text of now, unless the document
\* was closed while it was under way: then its key may have come back
\* (lsp_psalm_ls_completion_key), against lsp_server_documents.c 18-19.
AnswersFit ==
    /\ session.pipes => \A id \in UnderWay :
           Cardinality({q \in session.pending : q.id = id}) = 1
    /\ OnChange => \A c \in cache :
           /\ c.text = c.about
           /\ ~ c.closed /\ c.version = version[c.doc] => c.text = documents[c.doc]

\* In any stretch of Healthy ticks Psalm is started at most MaxRestarts + 1
\* times, whatever crashes and however often the project is scheduled.
BurstsBounded == Cardinality(recent) <= MaxRestarts + 1

\* A question that Psalm was asked is settled, unless Psalm dies or its
\* session fails.
Pending(id) == session.up /\ \E q \in session.pending : q.id = id
Collected == \A id \in Ids :
    Pending(id) ~> ~ Pending(id) \/ psalm.state /= "alive"

=============================================================================
