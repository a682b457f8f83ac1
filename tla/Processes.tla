----------------------------- MODULE Processes -----------------------------
(***************************************************************************)
(* The child processes of the server: lsp_server_process.c (its POSIX      *)
(* side) and the places that own a child.  Five owners are told apart: a   *)
(* capture (a command run to its end inside of one request), a batch       *)
(* analyzer, the resident runner, the Psalm language server and the forked *)
(* index worker.                                                           *)
(*                                                                         *)
(* The operating system gives a freed process id to anybody, a stranger    *)
(* included, and nothing stops kill(2) from reaching that stranger.  What  *)
(* a process does is free: it writes, it exits, it ignores SIGTERM, it     *)
(* leaves a descendant behind that holds its pipes, it hangs.  The server  *)
(* has one thread, so that while it waits for a child nothing else of it   *)
(* runs; `call` is what it is waiting in.                                  *)
(***************************************************************************)
EXTENDS Naturals, Sequences, FiniteSets

CONSTANTS
  Pids,      \* process ids, positive
  MaxSpawns, \* bound: processes started
  MaxWrites  \* bound: chunks written by a captured command

ASSUME PidsAssumption == Pids \subseteq Nat \ {0}

VARIABLES
  proc,    \* the process table
  ends,    \* of a session, the processes that hold the write end of its input
  handle,  \* the process id an owner keeps, 0 for none
  running, \* the owner's flag of that name
  capture, \* pipes and result of the capture
  call,    \* the wait the server is in
  server,  \* what the server is about
  spawns

vars == <<proc, ends, handle, running, capture, call, server, spawns>>

Sessions == {"runner", "psalm"}
Keepers == Sessions \cup {"job", "worker"}
Owners == Keepers \cup {"capture"}
Streams == {"output", "error"}
None == 0

\* A stubborn process ignores SIGTERM.
Process(state, kind, stubborn) ==
  [state |-> state, kind |-> kind, stubborn |-> stubborn, hit |-> FALSE]
Free == Process("none", "none", FALSE)

NoCall == [op |-> "none", owner |-> "none", pid |-> None, stage |-> "none"]
Call(op, owner, pid, stage) == [op |-> op, owner |-> owner, pid |-> pid, stage |-> stage]

NoCapture == [unread |-> [s \in Streams |-> 0], writers |-> {}, closed |-> {}, exited |-> FALSE,
              overdue |-> FALSE, written |-> 0, got |-> 0]

-----------------------------------------------------------------------------
(* waitpid(2) and kill(2).                                                  *)

IsChild(p) == proc[p].kind \in Owners

\* lsp_process_wait_nonblocking: an error of waitpid counts as an exit.
Exited(p) == p = None \/ ~IsChild(p) \/ proc[p].state = "zombie"

Reaped(p) == IF p # None /\ IsChild(p) /\ proc[p].state = "zombie"
             THEN [proc EXCEPT ![p] = Free] ELSE proc

\* The worker is a fork without an exec: it has the server's SIGTERM handler,
\* which only notes the signal.
Heeds(p, signal) == signal = "kill" \/ ~(proc[p].stubborn \/ proc[p].kind = "worker")

Signalled(p, signal) ==
  IF p = None \/ proc[p].state # "running" THEN proc
  ELSE IF proc[p].kind = "stranger" THEN [proc EXCEPT ![p].hit = TRUE]
  ELSE IF Heeds(p, signal) THEN [proc EXCEPT ![p].state = "dying"]
  ELSE proc

-----------------------------------------------------------------------------
(* The other processes.                                                     *)

DropEnds(p) == [u \in Sessions |-> ends[u] \ {p}]

Ends(p) ==
  /\ proc' = IF server = "crashed" THEN [proc EXCEPT ![p] = Free] ELSE [proc EXCEPT ![p].state = "zombie"]
  /\ ends' = DropEnds(p)
  /\ capture' = IF proc[p].kind = "capture" THEN [capture EXCEPT !.writers = @ \ {"child"}] ELSE capture
  /\ UNCHANGED <<handle, running, call, server, spawns>>

Exit(p) == proc[p].state = "running" /\ IsChild(p) /\ Ends(p)
Die(p) == proc[p].state = "dying" /\ IsChild(p) /\ Ends(p)

\* The script of the runner ends at the end of its input, and so does Psalm.
ReadEof(p) ==
  /\ proc[p].state = "running" /\ proc[p].kind \in Sessions /\ ~proc[p].stubborn
  /\ ends[proc[p].kind] = {}
  /\ Ends(p)

\* A captured command writes to one of its pipes.
Write(s) ==
  /\ call.op = "capture" /\ capture.writers # {} /\ capture.written < MaxWrites
  /\ capture' = [capture EXCEPT !.unread[s] = @ + 1, !.written = @ + 1]
  /\ UNCHANGED <<proc, ends, handle, running, call, server, spawns>>

LeaveDescendant ==
  /\ call.op = "capture" /\ capture.writers = {"child"}
  /\ capture' = [capture EXCEPT !.writers = @ \cup {"descendant"}]
  /\ UNCHANGED <<proc, ends, handle, running, call, server, spawns>>

DescendantEnds ==
  /\ "descendant" \in capture.writers
  /\ capture' = [capture EXCEPT !.writers = @ \ {"descendant"}]
  /\ UNCHANGED <<proc, ends, handle, running, call, server, spawns>>

StrangerStarts(p) ==
  /\ proc[p] = Free /\ spawns > 0 /\ server # "crashed"
  /\ proc' = [proc EXCEPT ![p] = Process("running", "stranger", FALSE)]
  /\ UNCHANGED <<ends, handle, running, capture, call, server, spawns>>

\* The forked worker lets go of the sessions' pipes before it starts to build.
WorkerClosesPipes(p) ==
  /\ proc[p].kind = "worker" /\ proc[p].state = "running"
  /\ \E u \in Sessions : p \in ends[u]
  /\ ends' = DropEnds(p)
  /\ UNCHANGED <<proc, handle, running, capture, call, server, spawns>>

-----------------------------------------------------------------------------
(* Starting a process.  The server's ends of a pipe are closed in the child *)
(* (its own by hand, the others on exec).                                   *)

Idle == server = "serving" /\ call = NoCall

Started(u, p, stubborn) ==
  /\ spawns < MaxSpawns
  /\ proc[p] = Free
  /\ proc' = [proc EXCEPT ![p] = Process("running", u, stubborn)]
  /\ spawns' = spawns + 1

EndsAfterExecLeaking(u, p) ==
  [v \in Sessions |-> IF v = u THEN {0} ELSE IF 0 \in ends[v] THEN ends[v] \cup {p} ELSE ends[v]]

EndsAfterExec(u, p) == [v \in Sessions |-> IF v = u THEN {0} ELSE ends[v]]

StartRunner(p, stubborn) ==
  /\ Idle /\ ~running["runner"]
  /\ Started("runner", p, stubborn)
  /\ ends' = EndsAfterExec("runner", p)
  /\ handle' = [handle EXCEPT !["runner"] = p]
  /\ running' = [running EXCEPT !["runner"] = TRUE]
  /\ UNCHANGED <<capture, call, server>>

\* A session that failed stays in the table until its replacement has started,
\* and is stopped then.
StartPsalm(p, stubborn) ==
  LET old == handle["psalm"] IN
  /\ Idle /\ ~running["psalm"]
  /\ Started("psalm", p, stubborn)
  /\ ends' = EndsAfterExec("psalm", p)
  /\ handle' = [handle EXCEPT !["psalm"] = p]
  /\ running' = [running EXCEPT !["psalm"] = TRUE]
  /\ call' = IF old = None THEN NoCall ELSE Call("stop", "psalm", old, "grace")
  /\ UNCHANGED <<capture, server>>

StartJob(p, stubborn) ==
  /\ Idle /\ ~running["job"]
  /\ Started("job", p, stubborn)
  /\ ends' = EndsAfterExec("job", p)
  /\ handle' = [handle EXCEPT !["job"] = p]
  /\ running' = [running EXCEPT !["job"] = TRUE]
  /\ UNCHANGED <<capture, call, server>>

StartWorker(p) ==
  /\ Idle /\ ~running["worker"]
  /\ Started("worker", p, FALSE)
  /\ ends' = [u \in Sessions |-> IF 0 \in ends[u] THEN ends[u] \cup {p} ELSE ends[u]]
  /\ handle' = [handle EXCEPT !["worker"] = p]
  /\ running' = [running EXCEPT !["worker"] = TRUE]
  /\ UNCHANGED <<capture, call, server>>

StartCapture(p, stubborn) ==
  /\ Idle
  /\ Started("capture", p, stubborn)
  /\ ends' = EndsAfterExec("capture", p)
  /\ capture' = [NoCapture EXCEPT !.writers = {"child"}]
  /\ call' = Call("capture", "capture", p, "output")
  /\ UNCHANGED <<handle, running, server>>

-----------------------------------------------------------------------------
(* lsp_process_run_capture: read both pipes until nothing is left, see      *)
(* whether the command has exited, then decide whether to go on.            *)

InCapture(stage) == call.op = "capture" /\ call.stage = stage
CaptureGoesOn(stage) == call' = [call EXCEPT !.stage = stage]

CaptureRead(s, stage, next) ==
  /\ InCapture(stage)
  /\ capture' = [capture EXCEPT !.got = @ + capture.unread[s], !.unread[s] = 0,
                               !.closed = IF capture.writers = {} THEN @ \cup {s} ELSE @]
  /\ CaptureGoesOn(next)
  /\ UNCHANGED <<proc, ends, handle, running, server, spawns>>

CaptureWait ==
  /\ InCapture("wait")
  /\ proc' = IF capture.exited THEN proc ELSE Reaped(call.pid)
  /\ capture' = [capture EXCEPT !.exited = @ \/ Exited(call.pid)]
  /\ CaptureGoesOn("decide")
  /\ UNCHANGED <<ends, handle, running, server, spawns>>

CaptureDoneOnExit == capture.exited
CaptureDone == capture.closed = Streams /\ capture.exited

CaptureDecide ==
  /\ InCapture("decide")
  /\ \/ /\ ~CaptureDone /\ ~capture.overdue
        /\ CaptureGoesOn("output")
        /\ UNCHANGED <<proc, capture>>
     \/ /\ CaptureDone \/ (capture.overdue /\ capture.exited)
        /\ call' = NoCall
        /\ capture' = NoCapture
        /\ UNCHANGED proc
     \/ /\ ~CaptureDone /\ capture.overdue /\ ~capture.exited
        /\ proc' = Signalled(call.pid, "term")
        /\ call' = Call("stop", "capture", call.pid, "term")
        /\ capture' = NoCapture
  /\ UNCHANGED <<ends, handle, running, server, spawns>>

CaptureOverdue ==
  /\ call.op = "capture" /\ ~capture.overdue
  /\ capture' = [capture EXCEPT !.overdue = TRUE]
  /\ UNCHANGED <<proc, ends, handle, running, call, server, spawns>>

-----------------------------------------------------------------------------
(* Stopping a process: wait, SIGTERM, wait, SIGKILL, wait.  Psalm, which is *)
(* asked to exit first, and a worker that is joined start with a wait.      *)

ClosePipes(u) == IF u \in Sessions THEN [ends EXCEPT ![u] = @ \ {0}] ELSE ends

\* The owners whose teardown goes by the process id, and those that look at
\* their flag too.
OwnedById(u) == handle[u] # None

Owned(u) == IF u \in Sessions THEN handle[u] # None ELSE running[u] /\ handle[u] # None

BeginStop(u, op) ==
  LET stage == IF u = "psalm" \/ op = "join" THEN "grace" ELSE "term"
  IN  /\ call' = Call(op, u, handle[u], stage)
      /\ proc' = IF stage = "term" THEN Signalled(handle[u], "term") ELSE proc
      /\ ends' = ClosePipes(u)
      /\ UNCHANGED <<handle, running, capture, server, spawns>>

Stopping == call.op \in {"stop", "join"}

\* The stop of a worker leaves its process id behind, the flag is what counts.
StopEnds ==
  LET u == call.owner
      kept == u = "capture" \/ handle[u] # call.pid
  IN  /\ Stopping /\ Exited(call.pid)
      /\ proc' = Reaped(call.pid)
      /\ handle' = IF kept \/ (u = "worker" /\ call.op = "stop") THEN handle ELSE [handle EXCEPT ![u] = None]
      /\ running' = IF kept THEN running ELSE [running EXCEPT ![u] = FALSE]
      /\ call' = NoCall
      /\ UNCHANGED <<ends, capture, server, spawns>>

StopEscalatesOnce ==
  /\ Stopping /\ ~Exited(call.pid)
  /\ call.stage = "grace"
  /\ proc' = Signalled(call.pid, "term")
  /\ call' = [call EXCEPT !.stage = "term"]
  /\ UNCHANGED <<ends, handle, running, capture, server, spawns>>

\* The wait that follows a SIGKILL is long enough for it.
StopEscalates ==
  /\ Stopping /\ ~Exited(call.pid)
  /\ \/ /\ call.stage = "grace"
        /\ proc' = Signalled(call.pid, "term")
        /\ call' = [call EXCEPT !.stage = "term"]
     \/ /\ call.stage = "term"
        /\ proc' = Signalled(call.pid, "kill")
        /\ call' = [call EXCEPT !.stage = "kill"]
  /\ UNCHANGED <<ends, handle, running, capture, server, spawns>>

DropRunner == Idle /\ Owned("runner") /\ BeginStop("runner", "stop")
StopWorker == Idle /\ Owned("worker") /\ BeginStop("worker", "stop")
JoinWorker == Idle /\ Owned("worker") /\ BeginStop("worker", "join")

-----------------------------------------------------------------------------
(* The probes of the loop.                                                  *)

Forget(u) ==
  /\ proc' = Reaped(handle[u])
  /\ handle' = [handle EXCEPT ![u] = None]
  /\ ends' = ClosePipes(u)
  /\ UNCHANGED <<capture, call, server, spawns>>

ReapJob == Idle /\ Owned("job") /\ Exited(handle["job"]) /\ Forget("job")
           /\ running' = [running EXCEPT !["job"] = FALSE]
PollWorker == Idle /\ Owned("worker") /\ Exited(handle["worker"]) /\ Forget("worker")
              /\ running' = [running EXCEPT !["worker"] = FALSE]
ReapPsalm == Idle /\ running["psalm"] /\ Owned("psalm") /\ Exited(handle["psalm"]) /\ Forget("psalm")
             /\ running' = [running EXCEPT !["psalm"] = FALSE]


\* The session stays in its table with no process, until it is dropped.
RunnerStatus ==
  /\ Idle /\ Owned("runner") /\ Exited(handle["runner"])
  /\ Forget("runner")
  /\ UNCHANGED running

DropDeadRunner ==
  /\ Idle /\ running["runner"] /\ handle["runner"] = None
  /\ running' = [running EXCEPT !["runner"] = FALSE]
  /\ UNCHANGED <<proc, ends, handle, capture, call, server, spawns>>


\* The pipe of Psalm is found closed, which may be before it can be reaped.
PsalmPipeClosed ==
  /\ Idle /\ running["psalm"]
  /\ running' = [running EXCEPT !["psalm"] = FALSE]
  /\ UNCHANGED <<proc, ends, handle, capture, call, server, spawns>>

-----------------------------------------------------------------------------
(* The end of the server: its loop returns and it stops what it owns, or it *)
(* is killed.                                                               *)

TeardownOrder == <<"worker", "runner", "psalm", "job">>

BeginTeardown ==
  /\ Idle
  /\ server' = "teardown"
  /\ UNCHANGED <<proc, ends, handle, running, capture, call, spawns>>

Teardown ==
  /\ server = "teardown" /\ call = NoCall
  /\ \E i \in DOMAIN TeardownOrder :
       /\ Owned(TeardownOrder[i])
       /\ \A j \in 1..(i - 1) : ~Owned(TeardownOrder[j])
       /\ BeginStop(TeardownOrder[i], "stop")

TeardownEnds ==
  /\ server = "teardown" /\ call = NoCall
  /\ \A i \in DOMAIN TeardownOrder : ~Owned(TeardownOrder[i])
  /\ server' = "down"
  /\ ends' = [u \in Sessions |-> ends[u] \ {0}]
  /\ UNCHANGED <<proc, handle, running, capture, call, spawns>>

\* Killed: the system takes its descriptors back and reaps its children.
Crash ==
  /\ server = "serving"
  /\ server' = "crashed"
  /\ call' = NoCall
  /\ ends' = [u \in Sessions |-> ends[u] \ {0}]
  /\ proc' = [p \in Pids |-> IF proc[p].state = "zombie" THEN Free ELSE proc[p]]
  /\ capture' = NoCapture
  /\ UNCHANGED <<handle, running, spawns>>

-----------------------------------------------------------------------------

Init ==
  /\ proc = [p \in Pids |-> Free]
  /\ ends = [u \in Sessions |-> {}]
  /\ handle = [u \in Keepers |-> None]
  /\ running = [u \in Keepers |-> FALSE]
  /\ capture = NoCapture
  /\ call = NoCall
  /\ server = "serving"
  /\ spawns = 0

Reads == CaptureRead("output", "output", "error") \/ CaptureRead("error", "error", "wait")

ServerStep ==
  \/ Reads \/ CaptureWait \/ CaptureDecide
  \/ StopEnds \/ StopEscalates
  \/ Teardown \/ TeardownEnds

ServerRequest ==
  \/ \E p \in Pids, stubborn \in BOOLEAN :
       StartRunner(p, stubborn) \/ StartPsalm(p, stubborn) \/ StartJob(p, stubborn) \/ StartCapture(p, stubborn)
  \/ \E p \in Pids : StartWorker(p)
  \/ DropRunner \/ DropDeadRunner \/ StopWorker \/ JoinWorker
  \/ ReapJob \/ PollWorker \/ ReapPsalm \/ RunnerStatus \/ PsalmPipeClosed
  \/ BeginTeardown \/ Crash

Environment ==
  \/ \E p \in Pids : Exit(p) \/ Die(p) \/ ReadEof(p) \/ StrangerStarts(p) \/ WorkerClosesPipes(p)
  \/ \E s \in Streams : Write(s)
  \/ LeaveDescendant \/ DescendantEnds \/ CaptureOverdue

Next == ServerStep \/ ServerRequest \/ Environment

\* The server goes on, time passes, a process that was killed dies, one that
\* reads the end of its input ends, and the worker closes the pipes.  No
\* process is assumed to exit by itself.
Fairness ==
  /\ WF_vars(ServerStep)
  /\ WF_vars(CaptureOverdue)
  /\ \A p \in Pids : WF_vars(Die(p)) /\ WF_vars(ReadEof(p)) /\ WF_vars(WorkerClosesPipes(p))

Spec == Init /\ [][Next]_vars /\ Fairness

-----------------------------------------------------------------------------

ProcessType == [state : {"none", "running", "dying", "zombie"},
                kind : Owners \cup {"none", "stranger"}, stubborn : BOOLEAN, hit : BOOLEAN]
CallType == [op : {"none", "capture", "stop", "join"}, owner : Owners \cup {"none"},
             pid : Pids \cup {None},
             stage : {"none", "output", "error", "wait", "decide", "grace", "term", "kill"}]
CaptureType == [unread : [Streams -> Nat], writers : SUBSET {"child", "descendant"}, closed : SUBSET Streams,
                exited : BOOLEAN, overdue : BOOLEAN, written : Nat, got : Nat]

TypeOK ==
  /\ proc \in [Pids -> ProcessType]
  /\ ends \in [Sessions -> SUBSET (Pids \cup {0})]
  /\ handle \in [Keepers -> Pids \cup {None}]
  /\ running \in [Keepers -> BOOLEAN]
  /\ capture \in CaptureType
  /\ call \in CallType
  /\ server \in {"serving", "teardown", "down", "crashed"}

(* A process id that some later step may signal is that of the child it was *)
(* kept for, not reaped yet: those of the owners that are still to be       *)
(* stopped, and that of the wait the server is in.                          *)
KeptIsChild ==
  /\ server = "crashed" => call = NoCall
  /\ server # "crashed" =>
       /\ \A u \in Keepers : Owned(u) => proc[handle[u]].kind = u
       /\ Stopping \/ (call.op = "capture" /\ ~capture.exited)
            => /\ call.pid # None /\ proc[call.pid].kind = call.owner
               /\ call.owner \in IF call.op = "capture" THEN {"capture"} ELSE Owners

(* A process id that was reaped may belong to anybody: no path of the       *)
(* server signals one (the deadline of lsp_process_run_capture,             *)
(* lsp_runner_status, lsp_index_worker_finished).                           *)
NeverSignalsStranger == \A p \in Pids : ~proc[p].hit

(* A capture that was not cut off by its deadline returns everything the    *)
(* command and its descendants wrote, however the writes, the exit and the  *)
(* reads interleave (lsp_process_run_capture).                              *)
CompleteUnlessOverdue ==
  [][capture # NoCapture /\ capture' = NoCapture /\ server' # "crashed"
     => capture.overdue \/ capture.got = capture.written]_vars

(* Every wait of the server for a child ends, even when the child hangs,    *)
(* ignores SIGTERM, or leaves a descendant with its pipes, and so does the  *)
(* teardown (lsp_process_wait_timeout and its escalation); when the server  *)
(* has returned, every process it started was reaped, those of failed       *)
(* sessions included (lsp_server_run).                                      *)
ServerReturns ==
  (call # NoCall \/ server = "teardown") ~>
    /\ call = NoCall
    /\ server # "teardown"
    /\ server = "down" => \A p \in Pids : ~IsChild(p)

(* When the server is killed, the runner and the Psalm language server see  *)
(* the end of their input and end, whatever else the server had started and *)
(* left running (lsp_process_set_cloexec, lsp_runner_close_pipes_in_child). *)
SessionsEndWithServer ==
  server = "crashed" ~> \A p \in Pids : proc[p].kind \in Sessions => proc[p].stubborn
=============================================================================
