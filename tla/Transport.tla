----------------------------- MODULE Transport ------------------------------
(***************************************************************************)
(* The server loop and its transport: reading framed messages from the     *)
(* client, the queue of pending messages, cancellation, the coalescing of  *)
(* document changes, and the ways the loop ends (exit, end of input after  *)
(* the queue is drained, SIGTERM).                                         *)
(*                                                                         *)
(* One thread pops a message, handles it to the end and answers it.  Only  *)
(* when the queue is empty does it look for SIGTERM and poll for input, so *)
(* everything the client sent in one batch is queued at once and a handler *)
(* can look ahead in the queue.  The client, the signal and the loop       *)
(* interleave freely; the signal may also fall between the check and poll. *)
(*                                                                         *)
(* A definition that directly precedes another and has its name as prefix  *)
(* is a slip the latter must not make (see AnalyzerJobs).                  *)
(***************************************************************************)
EXTENDS Naturals, FiniteSets, Sequences, SequencesExt

CONSTANTS
    Ids,          \* request ids
    Uris,         \* documents
    Kinds,        \* the kinds of messages the client sends
    ReuseIds,     \* may the client use the id of an answered request again?
    MaxSent       \* bound: messages of the client

RequestKinds == {"request", "unknown", "throws", "shutdown", "invalid"}
NoteKinds    == {"cancel", "change", "close", "note", "exit", "garbage"}

ASSUME KindsAssumption == Kinds \subseteq RequestKinds \cup NoteKinds
ASSUME FlagAssumption  == ReuseIds \in BOOLEAN
ASSUME BoundAssumption == MaxSent \in Nat

\* A message, with its place in the stream of the client. An "invalid" request
\* has no method, an "unknown" one a method the server does not know, and one
\* that "throws" makes its handler raise an exception. A "ranged" change, which
\* the server does not support, is ignored. "garbage" is a frame
\* whose body is not a JSON object.
Messages ==
    [kind : RequestKinds, id : Ids, place : Nat]
      \cup [kind : {"cancel"}, id : Ids, place : Nat]
      \cup [kind : {"change"}, uri : Uris, ranged : BOOLEAN, place : Nat]
      \cup [kind : {"close"}, uri : Uris, place : Nat]
      \cup [kind : {"note", "exit", "garbage"}, place : Nat]

HasId(m) == m.kind \in RequestKinds

VARIABLES
    sent,        \* everything the client sent, in order
    taken,       \* how much of it the server has read
    closed,      \* the client closed its end
    queue,       \* lsp_pending_messages from lsp_pending_head on
    cancelled,   \* lsp_cancelled_ids
    answers,     \* the answers: the place of the request and the outcome
    pc,          \* where the loop is
    background,  \* will poll time out, for there is background work?
    eof,         \* lsp_rx_eof
    sigterm,     \* lsp_terminate_requested_flag
    sawShutdown, \* server->saw_shutdown
    text,        \* place of the change a document's text is from, 0 if none
    shown        \* place of the change its published diagnostics are from

client == <<sent, closed>>
docs   == <<text, shown>>
vars   == <<sent, taken, closed, queue, cancelled, answers, pc, background,
            eof, sigterm, sawShutdown, text, shown>>

\* The numbers of a finite set in increasing order.
InOrder(I) ==
    [k \in 1 .. Cardinality(I) |->
        CHOOSE i \in I : Cardinality({j \in I : j < i}) = k - 1]

Init ==
    /\ sent = <<>>
    /\ taken = 0
    /\ closed = FALSE
    /\ queue = <<>>
    /\ cancelled = {}
    /\ answers = <<>>
    /\ pc = "loop"
    /\ background = FALSE
    /\ eof = FALSE
    /\ sigterm = FALSE
    /\ sawShutdown = FALSE
    /\ text = [u \in Uris |-> 0]
    /\ shown = [u \in Uris |-> 0]

-----------------------------------------------------------------------------
\* The client and the operating system.

Place == Len(sent) + 1

Answered(i) == \E k \in DOMAIN answers : answers[k].place = i

\* An id is free if it was never used, or is free again once answered.
FreeId(id) ==
    \A i \in DOMAIN sent :
      HasId(sent[i]) /\ sent[i].id = id => ReuseIds /\ Answered(i)

\* The client cancels only requests it has made.
Used(id) == \E i \in DOMAIN sent : HasId(sent[i]) /\ sent[i].id = id

\* The messages the client may send next.
NextMessages ==
    [kind : Kinds \cap RequestKinds, id : {i \in Ids : FreeId(i)}, place : {Place}]
      \cup [kind : Kinds \cap {"cancel"}, id : {i \in Ids : Used(i)}, place : {Place}]
      \cup [kind : Kinds \cap {"change"}, uri : Uris,
            ranged : BOOLEAN, place : {Place}]
      \cup [kind : Kinds \cap {"close"}, uri : Uris, place : {Place}]
      \cup [kind : Kinds \cap {"note", "exit", "garbage"}, place : {Place}]

Send ==
    /\ ~ closed
    /\ Len(sent) < MaxSent
    /\ \E m \in NextMessages : sent' = Append(sent, m)
    /\ UNCHANGED <<taken, closed, queue, cancelled, answers, pc, background, eof,
                   sigterm, sawShutdown, text, shown>>

CloseInput ==
    /\ ~ closed
    /\ closed' = TRUE
    /\ UNCHANGED <<sent, taken, queue, cancelled, answers, pc, background, eof,
                   sigterm, sawShutdown, text, shown>>

\* The signal handler only sets a flag; a poll that is under way is
\* interrupted and lets the loop run again, one not yet entered is not.
Sigterm ==
    /\ pc /= "done"
    /\ ~ sigterm
    /\ sigterm' = TRUE
    /\ pc' = IF pc = "poll" THEN "loop" ELSE pc
    /\ background' = (pc = "topoll" /\ background)
    /\ UNCHANGED <<sent, taken, closed, queue, cancelled, answers,
                   eof, sawShutdown, text, shown>>

-----------------------------------------------------------------------------
\* Cancellation and coalescing: looking ahead in the queue.

\* The first cancellation of the id that waits in the queue, 0 if none.
QueuedCancellationAnyId(id, q) ==
    SelectInSeq(q, LAMBDA m : m.kind = "cancel")
QueuedCancellation(id, q) ==
    SelectInSeq(q, LAMBDA m : m.kind = "cancel" /\ m.id = id)

\* A queued change or close of the document, with no request before it.
SupersedesAnyDocument(uri, q) ==
    \E i \in DOMAIN q :
      /\ q[i].kind \in {"change", "close"}
      /\ \A j \in 1 .. i : ~ HasId(q[j])
Supersedes(uri, q) ==
    \E i \in DOMAIN q :
      /\ q[i].kind \in {"change", "close"} /\ q[i].uri = uri
      /\ \A j \in 1 .. i : ~ HasId(q[j])

Respond(m, outcome) ==
    answers' = Append(answers, [place |-> m.place, outcome |-> outcome])

-----------------------------------------------------------------------------
\* The handlers: m was popped and q is what remains of the queue.

\* A message without a method.
HandleInvalid(m, q) ==
    /\ m.kind = "invalid"
    /\ Respond(m, "InvalidRequest")
    /\ queue' = q
    /\ UNCHANGED <<cancelled, pc, sawShutdown, docs>>

\* A request whose cancellation has passed the queue or waits in it; either is
\* used up.
IsCancelled(m, q) == m.id \in cancelled \/ QueuedCancellation(m.id, q) /= 0
HandleCancelledSilently(m, q) ==
    /\ HasId(m) /\ m.kind /= "invalid"
    /\ IsCancelled(m, q)
    /\ cancelled' = cancelled \ {m.id}
    /\ queue' = IF m.id \in cancelled THEN q
                ELSE RemoveAt(q, QueuedCancellation(m.id, q))
    /\ UNCHANGED <<answers, pc, sawShutdown, docs>>
HandleCancelled(m, q) ==
    /\ HasId(m) /\ m.kind /= "invalid"
    /\ IsCancelled(m, q)
    /\ Respond(m, "RequestCancelled")
    /\ cancelled' = cancelled \ {m.id}
    /\ queue' = IF m.id \in cancelled THEN q
                ELSE RemoveAt(q, QueuedCancellation(m.id, q))
    /\ UNCHANGED <<pc, sawShutdown, docs>>

Live(m, q) == m.kind /= "invalid" /\ ~ (HasId(m) /\ IsCancelled(m, q))

\* After shutdown only the exit notification is honoured.
HandleAfterShutdown(m, q) ==
    /\ sawShutdown
    /\ Live(m, q)
    /\ m.kind /= "exit"
    /\ IF HasId(m) THEN Respond(m, "InvalidRequest") ELSE UNCHANGED answers
    /\ queue' = q
    /\ cancelled' = IF m.kind = "cancel" THEN cancelled \cup {m.id} ELSE cancelled
    /\ UNCHANGED <<pc, sawShutdown, docs>>

HandleRequest(m, q) ==
    /\ ~ sawShutdown
    /\ Live(m, q)
    /\ HasId(m)
    /\ Respond(m, CASE m.kind = "unknown" -> "MethodNotFound"
                    [] m.kind = "throws"  -> "InternalError"
                    [] OTHER              -> "result")
    /\ sawShutdown' = (m.kind = "shutdown")
    /\ queue' = q
    /\ UNCHANGED <<cancelled, pc, docs>>

\* A cancellation that was not taken from the queue by its request.
HandleCancel(m, q) ==
    /\ ~ sawShutdown
    /\ m.kind = "cancel"
    /\ cancelled' = cancelled \cup {m.id}
    /\ queue' = q
    /\ UNCHANGED <<answers, pc, sawShutdown, docs>>

HandleChange(m, q) ==
    /\ ~ sawShutdown
    /\ m.kind = "change"
    /\ IF m.ranged THEN UNCHANGED docs
       ELSE /\ text' = [text EXCEPT ![m.uri] = m.place]
            /\ shown' = IF Supersedes(m.uri, q) THEN shown
                        ELSE [shown EXCEPT ![m.uri] = m.place]
    /\ queue' = q
    /\ UNCHANGED <<cancelled, answers, pc, sawShutdown>>

HandleClose(m, q) ==
    /\ ~ sawShutdown
    /\ m.kind = "close"
    /\ text' = [text EXCEPT ![m.uri] = 0]
    /\ shown' = [shown EXCEPT ![m.uri] = 0]
    /\ queue' = q
    /\ UNCHANGED <<cancelled, answers, pc, sawShutdown>>

HandleNote(m, q) ==
    /\ ~ sawShutdown
    /\ m.kind = "note"
    /\ queue' = q
    /\ UNCHANGED <<cancelled, answers, pc, sawShutdown, docs>>

HandleExit(m, q) ==
    /\ m.kind = "exit"
    /\ pc' = "done"
    /\ queue' = q
    /\ UNCHANGED <<cancelled, answers, sawShutdown, docs>>

\* One turn of lsp_server_loop with a message.
HandleNext ==
    /\ pc = "loop"
    /\ queue /= <<>>
    /\ LET m == Head(queue)  q == Tail(queue)
       IN  \/ HandleInvalid(m, q) \/ HandleCancelled(m, q)
           \/ HandleAfterShutdown(m, q) \/ HandleRequest(m, q)
           \/ HandleCancel(m, q) \/ HandleChange(m, q) \/ HandleClose(m, q)
           \/ HandleNote(m, q) \/ HandleExit(m, q)
    /\ UNCHANGED <<client, taken, background, eof, sigterm>>

-----------------------------------------------------------------------------
\* lsp_protocol_next_message with an empty queue.

\* The input ended or a signal came: the loop is over.
Stop ==
    /\ pc = "loop"
    /\ queue = <<>>
    /\ eof \/ sigterm
    /\ pc' = "done"
    /\ UNCHANGED <<client, taken, queue, cancelled, answers, background, eof,
                   sigterm, sawShutdown, docs>>

\* No reason to stop: choose the timeout, then enter poll.
ChooseTimeout ==
    /\ pc = "loop"
    /\ queue = <<>>
    /\ ~ eof /\ ~ sigterm
    /\ pc' = "topoll"
    /\ background' \in BOOLEAN
    /\ UNCHANGED <<client, taken, queue, cancelled, answers, eof, sigterm,
                   sawShutdown, docs>>

EnterPoll ==
    /\ pc = "topoll"
    /\ pc' = "poll"
    /\ UNCHANGED <<client, taken, queue, cancelled, answers, background, eof,
                   sigterm, sawShutdown, docs>>

\* Input is ready: some of the frames that were sent are read and all that
\* are complete are queued. Frames that are no JSON object are skipped.
ReadStopsAtGarbage ==
    /\ pc = "poll"
    /\ \E n \in taken + 1 .. Len(sent) :
         /\ taken' = n
         /\ LET batch == SubSeq(sent, taken + 1, n)
                bad   == SelectInSeq(batch, LAMBDA m : m.kind = "garbage")
            IN  queue' = IF bad = 0 THEN batch ELSE SubSeq(batch, 1, bad - 1)
    /\ pc' = "loop"
    /\ background' = FALSE
    /\ UNCHANGED <<client, cancelled, answers, eof, sigterm,
                   sawShutdown, docs>>
Read ==
    /\ pc = "poll"
    /\ \E n \in taken + 1 .. Len(sent) :
         /\ taken' = n
         /\ LET good == {i \in taken + 1 .. n : sent[i].kind /= "garbage"}
            IN  queue' = [k \in 1 .. Cardinality(good) |-> sent[InOrder(good)[k]]]
    /\ pc' = "loop"
    /\ background' = FALSE
    /\ UNCHANGED <<client, cancelled, answers, eof, sigterm,
                   sawShutdown, docs>>

ReadEof ==
    /\ pc = "poll"
    /\ closed
    /\ taken = Len(sent)
    /\ eof' = TRUE
    /\ pc' = "loop"
    /\ background' = FALSE
    /\ UNCHANGED <<client, taken, queue, cancelled, answers, sigterm,
                   sawShutdown, docs>>

\* With background work poll times out after 50 ms and the work is reaped.
Tick ==
    /\ pc = "poll"
    /\ background
    /\ taken = Len(sent) /\ ~ closed
    /\ pc' = "loop"
    /\ background' = FALSE
    /\ UNCHANGED <<client, taken, queue, cancelled, answers, eof,
                   sigterm, sawShutdown, docs>>

Server == HandleNext \/ Stop \/ ChooseTimeout \/ EnterPoll \/ Read \/ ReadEof \/ Tick

Next == Send \/ CloseInput \/ Sigterm \/ Server

Spec == Init /\ [][Next]_vars

\* The thread runs: poll returns when there is input, and handlers end. The
\* client owes nothing.
FairSpec == Spec /\ WF_vars(Server)

-----------------------------------------------------------------------------
\* Properties.

Requests == {i \in DOMAIN sent : HasId(sent[i])}

\* The server answers the requests in the order they were sent, each once:
\* it implements the service a JSON-RPC client expects.
Rpc == INSTANCE RpcService WITH
         asked    <- InOrder(Requests),
         answered <- [k \in DOMAIN answers |-> answers[k].place]
ImplementsRpc == Rpc!Spec

\* A request is refused as cancelled only if the client cancelled that very
\* request, after it was sent.
RefusedWasCancelled ==
    \A k \in DOMAIN answers : answers[k].outcome = "RequestCancelled" =>
      LET i == answers[k].place
      IN  \E j \in i + 1 .. Len(sent) :
            sent[j].kind = "cancel" /\ sent[j].id = sent[i].id

\* Ignored changes aside, which suppress publications like any other:
Ignored(u) == \E i \in DOMAIN sent :
                sent[i].kind = "change" /\ sent[i].uri = u /\ sent[i].ranged
UpToDate == \A u \in Uris : shown[u] = text[u] \/ Ignored(u)

\* When a request is answered, and when nothing is left to handle, the
\* diagnostics of every document are those of its last change: a publication
\* is skipped only if another will follow in time.
PublishedInTime == [][answers' /= answers \/ queue = <<>> => UpToDate]_vars

\* Closing the input ends the server, and a request is answered, unless the
\* client made the server exit or a signal did: the end of the input is acted
\* upon after the queue is drained, and a frame that is no JSON object takes no
\* other along.
RequestsServed ==
    /\ closed ~> pc = "done"
    /\ \A i \in 1 .. MaxSent :
         (i <= Len(sent) /\ HasId(sent[i])) ~>
           \/ Answered(i)
           \/ pc = "done" /\ (sigterm \/ \E j \in DOMAIN sent : sent[j].kind = "exit")

=============================================================================
