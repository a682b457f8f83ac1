--------------------------- MODULE ProcessesProofs ---------------------------
(* Proofs about Processes: whatever number of processes is started, stopped *)
(* and probed, no signal reaches a process that is not the server's own.    *)
EXTENDS Processes, TLAPS

IInv == TypeOK /\ KeptIsChild /\ NeverSignalsStranger

(* What waitpid leaves of the process table: types, and the kinds of all    *)
(* processes but the reaped one.                                            *)
LEMMA ReapedFacts ==
  ASSUME TypeOK, NEW p \in Pids \cup {None}
  PROVE  /\ Reaped(p) \in [Pids -> ProcessType]
         /\ \A q \in Pids : q # p => Reaped(p)[q] = proc[q]
         /\ ~Exited(p) => Reaped(p) = proc
         /\ \A q \in Pids : Reaped(p)[q].hit => proc[q].hit
  BY PidsAssumption, SMTT(30) DEF TypeOK, Reaped, Free, Process, ProcessType, Exited, IsChild, None, Owners, Keepers, Sessions

(* A signal to a child changes no kind and hits no stranger.                *)
LEMMA SignalledFacts ==
  ASSUME TypeOK, NEW p \in Pids \cup {None}, NEW signal, p # None => proc[p].kind # "stranger"
  PROVE  /\ Signalled(p, signal) \in [Pids -> ProcessType]
         /\ \A q \in Pids : /\ Signalled(p, signal)[q].kind = proc[q].kind
                            /\ Signalled(p, signal)[q].hit = proc[q].hit
  <1>1. CASE Signalled(p, signal) = proc BY <1>1 DEF TypeOK
  <1>2. CASE Signalled(p, signal) # proc
    <2>1. p \in Pids /\ Signalled(p, signal) = [proc EXCEPT ![p].state = "dying"]
      BY <1>2, PidsAssumption DEF Signalled, None
    <2>. QED BY <2>1 DEF TypeOK, ProcessType
  <1>. QED BY <1>1, <1>2

LEMMA NoCaptureType == NoCapture \in CaptureType
  <1>1. [s \in Streams |-> 0] \in [Streams -> Nat] OBVIOUS
  <1>. QED BY <1>1 DEF NoCapture, CaptureType

LEMMA InitInv == Init => IInv
  <1>. SUFFICES ASSUME Init PROVE IInv OBVIOUS
  <1>1. TypeOK
    <2>1. Free \in ProcessType BY DEF Free, Process, ProcessType
    <2>2. NoCall \in CallType BY DEF NoCall, CallType
    <2>3. NoCapture \in CaptureType BY NoCaptureType
    <2>. QED BY <2>1, <2>2, <2>3 DEF Init, TypeOK
  <1>2. KeptIsChild
    BY DEF Init, KeptIsChild, Owned, Stopping, NoCall, None, Keepers, Sessions
  <1>3. NeverSignalsStranger BY DEF Init, NeverSignalsStranger, Free, Process
  <1>. QED BY <1>1, <1>2, <1>3 DEF IInv

-----------------------------------------------------------------------------
(* The other processes.                                                     *)

(* What keeps KeptIsChild without a closer look: owners, waits and the kinds *)
(* of all processes stay as they are.                                        *)
LEMMA KindsKept ==
  ASSUME TypeOK, KeptIsChild, UNCHANGED <<handle, running, server>>,
         call' = call \/ (call.op # "none" /\ call'.op = call.op /\ call'.pid = call.pid /\ call'.owner = call.owner),
         capture.exited => capture'.exited,
         \A q \in Pids : proc'[q].kind = proc[q].kind
  PROVE  KeptIsChild'
  <1>. SUFFICES ASSUME server # "crashed" PROVE KeptIsChild' BY DEF KeptIsChild, NoCall
  <1>1. \A u \in Keepers : Owned(u) => handle[u] \in Pids BY DEF TypeOK, Owned
  <1>2. call.pid # None => call.pid \in Pids BY DEF TypeOK, CallType
  <1>. QED BY <1>1, <1>2 DEF KeptIsChild, Owned, Stopping

LEMMA EndsStep ==
  ASSUME IInv, NEW p \in Pids, IsChild(p), Ends(p)
  PROVE  IInv'
  <1>. USE DEF IInv
  <1>1. TypeOK'
    <2>1. proc' \in [Pids -> ProcessType]
      BY DEF Ends, TypeOK, ProcessType, Free, Process
    <2>2. ends' \in [Sessions -> SUBSET (Pids \cup {0})] BY DEF Ends, DropEnds, TypeOK
    <2>3. capture' \in CaptureType BY DEF Ends, TypeOK, CaptureType
    <2>. QED BY <2>1, <2>2, <2>3 DEF Ends, TypeOK
  <1>2. KeptIsChild'
    <2>1. CASE server = "crashed" BY <2>1 DEF KeptIsChild, Ends
    <2>2. CASE server # "crashed"
      <3>1. \A q \in Pids : proc'[q].kind = proc[q].kind BY <2>2 DEF Ends, TypeOK, ProcessType
      <3>2. capture.exited => capture'.exited BY DEF Ends, TypeOK, CaptureType
      <3>. QED BY <3>1, <3>2, KindsKept DEF Ends
    <2>. QED BY <2>1, <2>2
  <1>3. NeverSignalsStranger'
    BY DEF Ends, NeverSignalsStranger, TypeOK, ProcessType, Free, Process
  <1>. QED BY <1>1, <1>2, <1>3

LEMMA EnvironmentInv == IInv /\ Environment => IInv'
  <1>. SUFFICES ASSUME IInv, Environment PROVE IInv' OBVIOUS
  <1>. USE DEF IInv
  <1>1. ASSUME NEW p \in Pids, Exit(p) \/ Die(p) \/ ReadEof(p) PROVE IInv'
    <2>1. IsChild(p)
      BY <1>1 DEF Exit, Die, ReadEof, IsChild, Owners, Keepers
    <2>. QED BY <1>1, <2>1, EndsStep DEF Exit, Die, ReadEof
  <1>2. ASSUME NEW p \in Pids, StrangerStarts(p) PROVE IInv'
    <2>. USE <1>2 DEF StrangerStarts
    <2>1. proc' \in [Pids -> ProcessType] BY DEF TypeOK, ProcessType, Process
    <2>2. KeptIsChild'
      <3>1. \A q \in Pids : q # p => proc'[q] = proc[q] BY DEF TypeOK
      <3>2. \A u \in Keepers : Owned(u) => handle[u] # p
        BY DEF KeptIsChild, Free, Process, Keepers, Sessions
      <3>3. \A u \in Keepers : Owned(u) => handle[u] \in Pids BY DEF TypeOK, Owned
      <3>4. Stopping \/ (call.op = "capture" /\ ~capture.exited) => call.pid \in Pids /\ call.pid # p
        BY DEF KeptIsChild, Free, Process, Stopping, TypeOK, CallType, Owners, Keepers, Sessions
      <3>5. server # "crashed" /\ UNCHANGED <<handle, running, capture, call, server>>
        BY <1>2
      <3>6. \A u \in Keepers : Owned(u) => proc'[handle[u]].kind = u
        BY <3>1, <3>2, <3>3, <3>5 DEF KeptIsChild
      <3>7. Stopping \/ (call.op = "capture" /\ ~capture.exited) =>
              /\ call.pid # None /\ proc'[call.pid].kind = call.owner
              /\ call.owner \in (IF call.op = "capture" THEN {"capture"} ELSE Owners)
        BY <3>1, <3>4, <3>5 DEF KeptIsChild
      <3>. QED BY <3>5, <3>6, <3>7 DEF KeptIsChild, Owned, Stopping
    <2>3. NeverSignalsStranger' BY DEF NeverSignalsStranger, TypeOK, Process
    <2>. QED BY <2>1, <2>2, <2>3 DEF TypeOK
  <1>3. ASSUME NEW p \in Pids, WorkerClosesPipes(p) PROVE IInv'
    <2>1. ends' \in [Sessions -> SUBSET (Pids \cup {0})] BY <1>3 DEF WorkerClosesPipes, DropEnds, TypeOK
    <2>. QED BY <1>3, <2>1, KindsKept DEF WorkerClosesPipes, TypeOK, NeverSignalsStranger
  <1>4. ASSUME NEW s \in Streams, Write(s) PROVE IInv'
    <2>1. capture' \in CaptureType /\ capture'.exited = capture.exited
      <3>. DEFINE unread == [capture.unread EXCEPT ![s] = @ + 1]
      <3>1. capture \in CaptureType BY DEF TypeOK
      <3>2. unread \in [Streams -> Nat] BY <3>1 DEF CaptureType
      <3>3. capture' = [capture EXCEPT !.unread = unread, !.written = @ + 1]
        BY <1>4, <3>1 DEF Write, CaptureType
      <3>4. capture.written + 1 \in Nat BY <3>1 DEF CaptureType
      <3>. HIDE DEF unread
      <3>. QED BY <3>1, <3>2, <3>3, <3>4 DEF CaptureType
    <2>. QED BY <1>4, <2>1, KindsKept DEF Write, TypeOK, NeverSignalsStranger
  <1>5. CASE LeaveDescendant
    <2>1. capture' \in CaptureType /\ capture'.exited = capture.exited BY <1>5 DEF LeaveDescendant, TypeOK, CaptureType
    <2>. QED BY <1>5, <2>1, KindsKept DEF LeaveDescendant, TypeOK, NeverSignalsStranger
  <1>6. CASE DescendantEnds
    <2>1. capture' \in CaptureType /\ capture'.exited = capture.exited BY <1>6 DEF DescendantEnds, TypeOK, CaptureType
    <2>. QED BY <1>6, <2>1, KindsKept DEF DescendantEnds, TypeOK, NeverSignalsStranger
  <1>7. CASE CaptureOverdue
    <2>1. capture' \in CaptureType /\ capture'.exited = capture.exited BY <1>7 DEF CaptureOverdue, TypeOK, CaptureType
    <2>. QED BY <1>7, <2>1, KindsKept DEF CaptureOverdue, TypeOK, NeverSignalsStranger
  <1>. QED BY <1>1, <1>2, <1>3, <1>4, <1>5, <1>6, <1>7 DEF Environment

-----------------------------------------------------------------------------
(* The steps of a wait.                                                     *)

LEMMA CaptureReadInv ==
  ASSUME IInv, NEW s \in Streams, NEW stage, NEW next \in {"error", "wait"}, CaptureRead(s, stage, next)
  PROVE  IInv'
  <1>. USE DEF IInv
  <1>1. capture' \in CaptureType /\ capture'.exited = capture.exited
    <2>. DEFINE unread == [capture.unread EXCEPT ![s] = 0]
    <2>1. capture \in CaptureType BY DEF TypeOK
    <2>2. unread \in [Streams -> Nat] BY <2>1 DEF CaptureType
    <2>3. capture.got + capture.unread[s] \in Nat BY <2>1 DEF CaptureType
    <2>4. PICK closed \in SUBSET Streams :
            capture' = [capture EXCEPT !.got = capture.got + capture.unread[s], !.unread = unread, !.closed = closed]
      BY <2>1 DEF CaptureRead, CaptureType
    <2>. HIDE DEF unread
    <2>. QED BY <2>1, <2>2, <2>3, <2>4 DEF CaptureType
  <1>2. /\ call' \in CallType /\ call'.op = call.op /\ call'.pid = call.pid /\ call'.owner = call.owner
        /\ call.op # "none"
    BY DEF CaptureRead, CaptureGoesOn, InCapture, TypeOK, CallType
  <1>. QED BY <1>1, <1>2, KindsKept DEF CaptureRead, TypeOK, NeverSignalsStranger

(* A reaped process id is kept by nobody: what every step that reaps p and  *)
(* lets go of it preserves.                                                 *)
LEMMA ReapKeeps ==
  ASSUME IInv, NEW p \in Pids \cup {None}, proc' = Reaped(p), server' = server, server # "crashed",
         \A u \in Keepers : Owned(u)' => Owned(u) /\ handle'[u] = handle[u] /\ (handle[u] # p \/ ~Exited(p)),
         Stopping' \/ (call'.op = "capture" /\ ~capture'.exited)
           => /\ Stopping \/ (call.op = "capture" /\ ~capture.exited)
              /\ call'.pid = call.pid /\ call'.owner = call.owner /\ call'.op = call.op
              /\ call.pid # p \/ ~Exited(p)
  PROVE  KeptIsChild' /\ NeverSignalsStranger' /\ proc' \in [Pids -> ProcessType]
  <1>. USE DEF IInv
  <1>1. /\ proc' \in [Pids -> ProcessType]
        /\ \A q \in Pids : q # p => proc'[q] = proc[q]
        /\ ~Exited(p) => proc' = proc
        /\ \A q \in Pids : proc'[q].hit => proc[q].hit
    BY ReapedFacts
  <1>2. NeverSignalsStranger' BY <1>1 DEF NeverSignalsStranger
  <1>3. KeptIsChild'
    <2>1. \A u \in Keepers : Owned(u) => handle[u] \in Pids BY DEF TypeOK, Owned
    <2>2. call.pid # None => call.pid \in Pids BY DEF TypeOK, CallType
    <2>3. \A u \in Keepers : Owned(u)' => proc'[handle'[u]].kind = u BY <1>1, <2>1 DEF KeptIsChild
    <2>4. Stopping' \/ (call'.op = "capture" /\ ~capture'.exited)
            => /\ call'.pid # None /\ proc'[call'.pid].kind = call'.owner
               /\ call'.owner \in IF call'.op = "capture" THEN {"capture"} ELSE Owners
      BY <1>1, <2>2 DEF KeptIsChild
    <2>. QED BY <2>3, <2>4 DEF KeptIsChild
  <1>. QED BY <1>1, <1>2, <1>3

(* A signal to a process id that is kept.                                   *)
LEMMA SignalKeeps ==
  ASSUME IInv, NEW p \in Pids \cup {None}, NEW signal, proc' = Signalled(p, signal), server' = server,
         server # "crashed", p # None => proc[p].kind \in Owners,
         \A u \in Keepers : Owned(u)' => Owned(u) /\ handle'[u] = handle[u],
         call'.op # "capture",
         Stopping' => call'.pid \in Pids /\ call'.owner \in Owners /\ proc[call'.pid].kind = call'.owner
  PROVE  KeptIsChild' /\ NeverSignalsStranger' /\ proc' \in [Pids -> ProcessType]
  <1>. USE DEF IInv
  <1>0. p # None => proc[p].kind # "stranger" BY DEF Owners, Keepers, Sessions
  <1>1. /\ proc' \in [Pids -> ProcessType]
        /\ \A q \in Pids : proc'[q].kind = proc[q].kind /\ proc'[q].hit = proc[q].hit
    BY <1>0, SignalledFacts
  <1>2. NeverSignalsStranger' BY <1>1 DEF NeverSignalsStranger
  <1>3. \A u \in Keepers : Owned(u) => handle[u] \in Pids BY DEF TypeOK, Owned
  <1>4. \A u \in Keepers : Owned(u)' => proc'[handle'[u]].kind = u BY <1>1, <1>3 DEF KeptIsChild
  <1>5. None \notin Pids BY PidsAssumption DEF None
  <1>. QED BY <1>1, <1>2, <1>4, <1>5 DEF KeptIsChild

LEMMA CaptureWaitInv == ASSUME IInv, CaptureWait PROVE IInv'
  <1>. USE DEF IInv, CaptureWait
  <1>0. call.pid \in Pids \cup {None} /\ capture \in CaptureType BY DEF TypeOK, CallType
  <1>1. /\ call' \in CallType /\ call'.op = call.op /\ call'.pid = call.pid /\ call'.owner = call.owner
        /\ call.op = "capture"
    BY DEF CaptureGoesOn, InCapture, TypeOK, CallType
  <1>2. /\ capture' \in CaptureType
        /\ capture'.exited = (capture.exited \/ Exited(call.pid))
    BY <1>0 DEF CaptureType, Exited
  <1>3. CASE capture.exited BY <1>1, <1>2, <1>3, KindsKept DEF TypeOK, NeverSignalsStranger
  <1>4. CASE ~capture.exited
    <2>0. server # "crashed" BY <1>1 DEF KeptIsChild, NoCall
    <2>1. \A u \in Keepers : Owned(u) => handle[u] # call.pid
      BY <1>1, <1>4, <2>0 DEF KeptIsChild, Keepers, Sessions
    <2>2. KeptIsChild' /\ NeverSignalsStranger' /\ proc' \in [Pids -> ProcessType]
      BY <1>0, <1>1, <1>2, <1>4, <2>0, <2>1, ReapKeeps DEF Owned, Stopping
    <2>. QED BY <1>1, <1>2, <2>2 DEF TypeOK
  <1>. QED BY <1>3, <1>4

LEMMA CaptureDecideInv == ASSUME IInv, CaptureDecide PROVE IInv'
  <1>. USE DEF IInv, CaptureDecide
  <1>0. call.pid \in Pids \cup {None} /\ call \in CallType /\ NoCapture \in CaptureType /\ NoCall \in CallType
    BY NoCaptureType DEF TypeOK, CallType, NoCall
  <1>1. ASSUME CaptureGoesOn("output"), UNCHANGED <<proc, capture>> PROVE IInv'
    <2>1. /\ call' \in CallType /\ call'.op = call.op /\ call'.pid = call.pid /\ call'.owner = call.owner
          /\ call.op # "none"
      BY <1>0, <1>1 DEF CaptureGoesOn, InCapture, CallType
    <2>. QED BY <1>1, <2>1, KindsKept DEF TypeOK, NeverSignalsStranger
  <1>2. ASSUME call' = NoCall, capture' = NoCapture, UNCHANGED proc PROVE IInv'
    <2>1. ~Stopping' /\ call'.op # "capture" BY <1>2 DEF Stopping, NoCall
    <2>2. KeptIsChild' BY <1>2, <2>1 DEF KeptIsChild, Owned
    <2>. QED BY <1>0, <1>2, <2>2 DEF TypeOK, NeverSignalsStranger
  <1>3. ASSUME ~capture.exited, proc' = Signalled(call.pid, "term"),
               call' = Call("stop", "capture", call.pid, "term"), capture' = NoCapture
        PROVE  IInv'
    <2>1. call' \in CallType BY <1>0, <1>3 DEF Call, CallType, Owners
    <2>2. server # "crashed" BY DEF KeptIsChild, NoCall, InCapture
    <2>3. call.pid \in Pids /\ proc[call.pid].kind = "capture"
      BY <1>0, <1>3, <2>2 DEF KeptIsChild, InCapture
    <2>4. KeptIsChild' /\ NeverSignalsStranger' /\ proc' \in [Pids -> ProcessType]
      BY <1>3, <2>2, <2>3, SignalKeeps DEF Call, Owned, Stopping, Owners
    <2>. QED BY <1>0, <1>3, <2>1, <2>4 DEF TypeOK
  <1>. QED BY <1>1, <1>2, <1>3

LEMMA StopEndsInv == ASSUME IInv, StopEnds PROVE IInv'
  <1>. USE DEF IInv, StopEnds
  <1>1. call.pid \in Pids \cup {None} /\ NoCall \in CallType BY DEF TypeOK, CallType, NoCall
  <1>2. server # "crashed" BY DEF KeptIsChild, NoCall, Stopping
  <1>3. handle' \in [Keepers -> Pids \cup {None}] /\ running' \in [Keepers -> BOOLEAN] BY DEF TypeOK
  <1>4. \A u \in Keepers : Owned(u)' => Owned(u) /\ handle'[u] = handle[u] /\ handle[u] # call.pid
    <2>1. \A u \in Keepers : Owned(u) /\ handle[u] = call.pid => u = call.owner
      BY <1>2 DEF KeptIsChild
    <2>. SUFFICES ASSUME NEW u \in Keepers, Owned(u)'
                  PROVE  Owned(u) /\ handle'[u] = handle[u] /\ handle[u] # call.pid
      OBVIOUS
    <2>2. CASE u = call.owner /\ handle[u] = call.pid
      BY <2>2 DEF Owned, TypeOK, None, Keepers, Sessions
    <2>3. CASE u # call.owner \/ handle[u] # call.pid
      BY <2>1, <2>3 DEF Owned, TypeOK
    <2>. QED BY <2>2, <2>3
  <1>5. ~Stopping' /\ call'.op # "capture" BY DEF Stopping, NoCall
  <1>6. KeptIsChild' /\ NeverSignalsStranger' /\ proc' \in [Pids -> ProcessType]
    BY <1>1, <1>2, <1>4, <1>5, ReapKeeps
  <1>. QED BY <1>1, <1>3, <1>6 DEF TypeOK

LEMMA StopEscalatesInv == ASSUME IInv, StopEscalates PROVE IInv'
  <1>. USE DEF IInv, StopEscalates
  <1>1. /\ call' \in CallType /\ call'.op = call.op /\ call'.pid = call.pid /\ call'.owner = call.owner
    BY DEF TypeOK, CallType
  <1>2. server # "crashed" BY DEF KeptIsChild, NoCall, Stopping
  <1>3. call.pid \in Pids /\ call.owner \in Owners /\ proc[call.pid].kind = call.owner
    BY <1>2 DEF KeptIsChild, TypeOK, CallType, Owners
  <1>4. call.op # "capture" BY DEF Stopping
  <1>5. KeptIsChild' /\ NeverSignalsStranger' /\ proc' \in [Pids -> ProcessType]
    BY <1>1, <1>2, <1>3, <1>4, SignalKeeps DEF Owned, Stopping
  <1>. QED BY <1>1, <1>5 DEF TypeOK

LEMMA BeginStopInv ==
  ASSUME IInv, NEW u \in Keepers, NEW op \in {"stop", "join"}, Owned(u), server # "crashed", BeginStop(u, op)
  PROVE  IInv'
  <1>. USE DEF IInv, BeginStop
  <1>1. handle[u] \in Pids /\ proc[handle[u]].kind = u BY DEF KeptIsChild, Owned, TypeOK
  <1>2. call' \in CallType /\ call'.pid = handle[u] /\ call'.owner = u /\ call'.op = op
    BY <1>1 DEF Call, CallType, Owners
  <1>3. ends' \in [Sessions -> SUBSET (Pids \cup {0})] BY DEF ClosePipes, TypeOK
  <1>4. CASE proc' = proc
    <2>1. KeptIsChild' BY <1>1, <1>2, <1>4, PidsAssumption DEF KeptIsChild, Owned, Owners, None, Stopping
    <2>. QED BY <1>2, <1>3, <1>4, <2>1 DEF TypeOK, NeverSignalsStranger
  <1>5. CASE proc' = Signalled(handle[u], "term")
    <2>1. KeptIsChild' /\ NeverSignalsStranger' /\ proc' \in [Pids -> ProcessType]
      BY <1>1, <1>2, <1>5, SignalKeeps DEF Owned, Owners
    <2>. QED BY <1>2, <1>3, <2>1 DEF TypeOK
  <1>. QED BY <1>4, <1>5

-----------------------------------------------------------------------------
(* The requests.                                                            *)

(* A new process, and the owner that keeps its id from then on.             *)
LEMMA StartKeeps ==
  ASSUME IInv, Idle, NEW u \in Keepers, NEW p \in Pids, NEW stubborn \in BOOLEAN, Started(u, p, stubborn),
         handle' = [handle EXCEPT ![u] = p], server' = server,
         running' = [running EXCEPT ![u] = TRUE],
         \/ call' = NoCall
         \/ /\ call'.op = "stop" /\ call'.owner = u /\ call'.pid = handle[u]
            /\ Owned(u)
  PROVE  /\ KeptIsChild' /\ NeverSignalsStranger' /\ proc' \in [Pids -> ProcessType]
         /\ handle' \in [Keepers -> Pids \cup {None}] /\ running' \in [Keepers -> BOOLEAN]
  <1>. USE DEF IInv, Started
  <1>1. proc' \in [Pids -> ProcessType] BY DEF TypeOK, ProcessType, Process, Owners
  <1>2. handle' \in [Keepers -> Pids \cup {None}] /\ running' \in [Keepers -> BOOLEAN] BY DEF TypeOK
  <1>3. NeverSignalsStranger' BY DEF NeverSignalsStranger, TypeOK, Process
  <1>4. server # "crashed" BY DEF Idle
  <1>5. \A q \in Pids : q # p => proc'[q] = proc[q] BY DEF TypeOK
  <1>6. proc[p].kind = "none" /\ proc'[p].kind = u BY DEF TypeOK, Free, Process
  <1>7. \A v \in Keepers : Owned(v) => handle[v] # p /\ handle[v] \in Pids
    BY <1>4, <1>6 DEF KeptIsChild, Keepers, Sessions, Owned, TypeOK
  <1>8. \A v \in Keepers : Owned(v)' => proc'[handle'[v]].kind = v
    <2>. SUFFICES ASSUME NEW v \in Keepers, Owned(v)' PROVE proc'[handle'[v]].kind = v OBVIOUS
    <2>1. CASE v = u BY <1>6, <2>1 DEF TypeOK
    <2>2. CASE v # u
      <3>1. Owned(v) /\ handle'[v] = handle[v] BY <2>2 DEF Owned, TypeOK
      <3>. QED BY <1>4, <1>5, <1>7, <3>1 DEF KeptIsChild
    <2>. QED BY <2>1, <2>2
  <1>9. Stopping' \/ (call'.op = "capture" /\ ~capture'.exited)
          => /\ call'.pid # None /\ proc'[call'.pid].kind = call'.owner
             /\ call'.owner \in IF call'.op = "capture" THEN {"capture"} ELSE Owners
    BY <1>4, <1>5, <1>7, PidsAssumption DEF KeptIsChild, Stopping, NoCall, Owners, None
  <1>. QED BY <1>1, <1>2, <1>3, <1>4, <1>8, <1>9 DEF KeptIsChild

LEMMA EndsTypes ==
  ASSUME TypeOK, NEW u \in Owners, NEW p \in Pids
  PROVE  EndsAfterExec(u, p) \in [Sessions -> SUBSET (Pids \cup {0})]
  BY DEF EndsAfterExec, TypeOK

LEMMA StartInv ==
  ASSUME IInv, NEW p \in Pids, NEW stubborn \in BOOLEAN,
         StartRunner(p, stubborn) \/ StartPsalm(p, stubborn) \/ StartJob(p, stubborn) \/ StartWorker(p)
  PROVE  IInv'
  <1>. USE DEF IInv
  <1>0. NoCall \in CallType /\ {"runner", "psalm", "job", "worker"} \subseteq Keepers /\ Keepers \subseteq Owners
    BY DEF NoCall, CallType, Keepers, Sessions, Owners
  <1>1. CASE StartRunner(p, stubborn)
    <2>1. /\ Idle /\ Started("runner", p, stubborn) /\ call' = NoCall
          /\ handle' = [handle EXCEPT !["runner"] = p] /\ running' = [running EXCEPT !["runner"] = TRUE]
          /\ UNCHANGED <<capture, call, server>>
      BY <1>1 DEF StartRunner, Idle
    <2>2. /\ KeptIsChild' /\ NeverSignalsStranger' /\ proc' \in [Pids -> ProcessType]
          /\ handle' \in [Keepers -> Pids \cup {None}] /\ running' \in [Keepers -> BOOLEAN]
      BY <1>0, <2>1, StartKeeps
    <2>3. ends' \in [Sessions -> SUBSET (Pids \cup {0})]
      BY <1>0, <1>1, EndsTypes DEF StartRunner
    <2>. QED BY <2>1, <2>2, <2>3 DEF TypeOK
  <1>2. CASE StartJob(p, stubborn)
    <2>1. /\ Idle /\ Started("job", p, stubborn) /\ call' = NoCall
          /\ handle' = [handle EXCEPT !["job"] = p] /\ running' = [running EXCEPT !["job"] = TRUE]
          /\ UNCHANGED <<capture, call, server>>
      BY <1>2 DEF StartJob, Idle
    <2>2. /\ KeptIsChild' /\ NeverSignalsStranger' /\ proc' \in [Pids -> ProcessType]
          /\ handle' \in [Keepers -> Pids \cup {None}] /\ running' \in [Keepers -> BOOLEAN]
      BY <1>0, <2>1, StartKeeps
    <2>3. ends' \in [Sessions -> SUBSET (Pids \cup {0})]
      BY <1>0, <1>2, EndsTypes DEF StartJob
    <2>. QED BY <2>1, <2>2, <2>3 DEF TypeOK
  <1>3. CASE StartWorker(p)
    <2>1. /\ Idle /\ Started("worker", p, FALSE) /\ call' = NoCall
          /\ handle' = [handle EXCEPT !["worker"] = p] /\ running' = [running EXCEPT !["worker"] = TRUE]
          /\ UNCHANGED <<capture, call, server>>
      BY <1>3 DEF StartWorker, Idle
    <2>2. /\ KeptIsChild' /\ NeverSignalsStranger' /\ proc' \in [Pids -> ProcessType]
          /\ handle' \in [Keepers -> Pids \cup {None}] /\ running' \in [Keepers -> BOOLEAN]
      BY <1>0, <2>1, StartKeeps
    <2>3. ends' \in [Sessions -> SUBSET (Pids \cup {0})]
      BY <1>3 DEF StartWorker, TypeOK
    <2>. QED BY <2>1, <2>2, <2>3 DEF TypeOK
  <1>4. CASE StartPsalm(p, stubborn)
    <2>1. call' \in CallType BY <1>0, <1>4 DEF StartPsalm, Call, CallType, TypeOK
    <2>2. call' = NoCall \/ (/\ call'.op = "stop" /\ call'.owner = "psalm" /\ call'.pid = handle["psalm"]
                            /\ Owned("psalm"))
      BY <1>4 DEF StartPsalm, Call, Owned, Sessions
    <2>3. /\ KeptIsChild' /\ NeverSignalsStranger' /\ proc' \in [Pids -> ProcessType]
          /\ handle' \in [Keepers -> Pids \cup {None}] /\ running' \in [Keepers -> BOOLEAN]
      BY <1>0, <1>4, <2>2, StartKeeps DEF StartPsalm
    <2>4. ends' \in [Sessions -> SUBSET (Pids \cup {0})]
      BY <1>0, <1>4, EndsTypes DEF StartPsalm
    <2>. QED BY <1>4, <2>1, <2>3, <2>4 DEF StartPsalm, TypeOK
  <1>. QED BY <1>1, <1>2, <1>3, <1>4

LEMMA StartCaptureInv ==
  ASSUME IInv, NEW p \in Pids, NEW stubborn \in BOOLEAN, StartCapture(p, stubborn)
  PROVE  IInv'
  <1>. USE DEF IInv, StartCapture, Started
  <1>1. proc' \in [Pids -> ProcessType] BY DEF TypeOK, ProcessType, Process, Owners
  <1>2. ends' \in [Sessions -> SUBSET (Pids \cup {0})] BY EndsTypes DEF Owners
  <1>3. call' \in CallType /\ call'.op = "capture" /\ call'.owner = "capture" /\ call'.pid = p
    BY DEF Call, CallType, Owners
  <1>4. capture' \in CaptureType BY NoCaptureType DEF CaptureType
  <1>5. NeverSignalsStranger' BY DEF NeverSignalsStranger, TypeOK, Process
  <1>6. server # "crashed" BY DEF Idle
  <1>7. \A q \in Pids : q # p => proc'[q] = proc[q] BY DEF TypeOK
  <1>8. proc[p].kind = "none" /\ proc'[p].kind = "capture" BY DEF TypeOK, Free, Process
  <1>9. \A v \in Keepers : Owned(v) => handle[v] # p /\ handle[v] \in Pids
    BY <1>6, <1>8 DEF KeptIsChild, Keepers, Sessions, Owned, TypeOK
  <1>10. KeptIsChild' BY <1>3, <1>6, <1>7, <1>8, <1>9, PidsAssumption DEF KeptIsChild, Owned, None, Stopping
  <1>. QED BY <1>1, <1>2, <1>3, <1>4, <1>5, <1>10 DEF TypeOK

LEMMA ForgetInv ==
  ASSUME IInv, Idle, NEW u \in Keepers, Owned(u), Exited(handle[u]), Forget(u),
         running' = running \/ running' = [running EXCEPT ![u] = FALSE]
  PROVE  IInv'
  <1>. USE DEF IInv, Forget
  <1>1. handle[u] \in Pids \cup {None} /\ server # "crashed" BY DEF TypeOK, Idle
  <1>2. handle' \in [Keepers -> Pids \cup {None}] /\ running' \in [Keepers -> BOOLEAN] BY DEF TypeOK
  <1>3. ends' \in [Sessions -> SUBSET (Pids \cup {0})] BY DEF ClosePipes, TypeOK
  <1>4. \A v \in Keepers : Owned(v)' => Owned(v) /\ handle'[v] = handle[v] /\ handle[v] # handle[u]
    <2>. SUFFICES ASSUME NEW v \in Keepers, Owned(v)'
                  PROVE  Owned(v) /\ handle'[v] = handle[v] /\ handle[v] # handle[u]
      OBVIOUS
    <2>1. v # u BY DEF Owned, TypeOK
    <2>2. Owned(v) /\ handle'[v] = handle[v] BY <2>1 DEF Owned, TypeOK
    <2>3. handle[v] # handle[u] BY <1>1, <2>1, <2>2 DEF KeptIsChild
    <2>. QED BY <2>2, <2>3
  <1>5. ~Stopping' /\ call'.op # "capture" BY DEF Idle, Stopping, NoCall
  <1>6. KeptIsChild' /\ NeverSignalsStranger' /\ proc' \in [Pids -> ProcessType]
    BY <1>1, <1>4, <1>5, ReapKeeps
  <1>. QED BY <1>2, <1>3, <1>6 DEF TypeOK

(* A flag is cleared and nothing else happens.                              *)
LEMMA FlagInv ==
  ASSUME IInv, Idle, NEW u \in Keepers, running' = [running EXCEPT ![u] = FALSE],
         UNCHANGED <<proc, ends, handle, capture, call, server>>
  PROVE  IInv'
  <1>. USE DEF IInv
  <1>1. \A v \in Keepers : Owned(v)' => Owned(v) BY DEF Owned, TypeOK
  <1>2. KeptIsChild' BY <1>1 DEF KeptIsChild, Stopping
  <1>. QED BY <1>2 DEF TypeOK, NeverSignalsStranger

LEMMA RequestInv == IInv /\ ServerRequest => IInv'
  <1>. SUFFICES ASSUME IInv, ServerRequest PROVE IInv' OBVIOUS
  <1>0. {"runner", "psalm", "job", "worker"} \subseteq Keepers BY DEF Keepers, Sessions
  <1>1. CASE \E p \in Pids, stubborn \in BOOLEAN :
               StartRunner(p, stubborn) \/ StartPsalm(p, stubborn) \/ StartJob(p, stubborn)
    BY <1>1, StartInv
  <1>2. CASE \E p \in Pids, stubborn \in BOOLEAN : StartCapture(p, stubborn) BY <1>2, StartCaptureInv
  <1>3. CASE \E p \in Pids : StartWorker(p) BY <1>3, StartInv
  <1>4. CASE DropRunner BY <1>0, <1>4, BeginStopInv DEF DropRunner, Idle
  <1>5. CASE StopWorker \/ JoinWorker BY <1>0, <1>5, BeginStopInv DEF StopWorker, JoinWorker, Idle
  <1>6. CASE ReapJob BY <1>0, <1>6, ForgetInv DEF ReapJob
  <1>7. CASE PollWorker BY <1>0, <1>7, ForgetInv DEF PollWorker
  <1>8. CASE ReapPsalm BY <1>0, <1>8, ForgetInv DEF ReapPsalm
  <1>9. CASE RunnerStatus BY <1>0, <1>9, ForgetInv DEF RunnerStatus
  <1>10. CASE DropDeadRunner BY <1>0, <1>10, FlagInv DEF DropDeadRunner
  <1>11. CASE PsalmPipeClosed BY <1>0, <1>11, FlagInv DEF PsalmPipeClosed
  <1>12. CASE BeginTeardown
    BY <1>12 DEF BeginTeardown, IInv, TypeOK, KeptIsChild, NeverSignalsStranger, Owned, Stopping, Idle
  <1>13. CASE Crash
    <2>. USE <1>13 DEF Crash, IInv
    <2>1. proc' \in [Pids -> ProcessType] BY DEF TypeOK, Free, Process, ProcessType
    <2>2. NeverSignalsStranger' BY DEF NeverSignalsStranger, TypeOK, Free, Process
    <2>3. KeptIsChild' BY DEF KeptIsChild
    <2>4. NoCall \in CallType BY DEF NoCall, CallType
    <2>. QED BY <2>1, <2>2, <2>3, <2>4, NoCaptureType DEF TypeOK
  <1>. QED BY <1>1, <1>2, <1>3, <1>4, <1>5, <1>6, <1>7, <1>8, <1>9, <1>10, <1>11, <1>12, <1>13 DEF ServerRequest

LEMMA ServerStepInv == IInv /\ ServerStep => IInv'
  <1>. SUFFICES ASSUME IInv, ServerStep PROVE IInv' OBVIOUS
  <1>1. CASE Reads BY <1>1, CaptureReadInv DEF Reads, Streams
  <1>2. CASE Teardown
    <2>1. \A i \in DOMAIN TeardownOrder : TeardownOrder[i] \in Keepers BY DEF TeardownOrder, Keepers, Sessions
    <2>. QED BY <1>2, <2>1, BeginStopInv DEF Teardown
  <1>3. CASE TeardownEnds
    BY <1>3 DEF TeardownEnds, IInv, TypeOK, KeptIsChild, NeverSignalsStranger, Owned, Stopping
  <1>. QED
    BY <1>1, <1>2, <1>3, CaptureWaitInv, CaptureDecideInv, StopEndsInv, StopEscalatesInv DEF ServerStep

LEMMA StepInv == IInv /\ [Next]_vars => IInv'
  <1>. SUFFICES ASSUME IInv, [Next]_vars PROVE IInv' OBVIOUS
  <1>1. CASE UNCHANGED vars
    BY <1>1 DEF vars, IInv, TypeOK, KeptIsChild, NeverSignalsStranger, Owned, Stopping
  <1>. QED BY <1>1, ServerStepInv, RequestInv, EnvironmentInv DEF Next

(* In every reachable state, whatever the processes do, no process that is  *)
(* not the server's child was signalled by it, and every process id that is *)
(* kept for a signal is a child's.                                          *)
THEOREM OnlyChildrenSignalled == Spec => [](NeverSignalsStranger /\ KeptIsChild)
  <1>1. IInv => NeverSignalsStranger /\ KeptIsChild BY DEF IInv
  <1>. QED BY InitInv, StepInv, <1>1, PTL DEF Spec

-----------------------------------------------------------------------------
(* The capture.  What was written was read or is still in a pipe, and the   *)
(* end of a pipe was read only when nobody could write to it and nothing    *)
(* was left in it.                                                          *)

Conserved(c) == c.written = c.got + c.unread["output"] + c.unread["error"]
EndsAreEnds(c) == \A s \in c.closed : c.writers = {} /\ c.unread[s] = 0
CaptureOK(c) == c \in CaptureType /\ Conserved(c) /\ EndsAreEnds(c)

LEMMA NoCaptureOK == CaptureOK(NoCapture)
  BY NoCaptureType DEF CaptureOK, NoCapture, Conserved, EndsAreEnds, Streams

(* A step may take writers away, and adds one only next to another: as long *)
(* as a pipe has an end, it has no writer.                                  *)
LEMMA WritersKept ==
  ASSUME NEW c, CaptureOK(c), NEW writers \in SUBSET {"child", "descendant"},
         c.writers = {} => writers = {}, NEW d, d = [c EXCEPT !.writers = writers]
  PROVE  CaptureOK(d) /\ d.got = c.got /\ d.written = c.written
  BY DEF CaptureOK, CaptureType, Conserved, EndsAreEnds

LEMMA WriteConserves ==
  ASSUME CaptureOK(capture), NEW s \in Streams, Write(s)
  PROVE  CaptureOK(capture') /\ capture'.written # 0
  <1>. DEFINE unread == [capture.unread EXCEPT ![s] = capture.unread[s] + 1]
              written == capture.written + 1
  <1>1. capture \in CaptureType BY DEF CaptureOK
  <1>2. /\ capture.unread \in [Streams -> Nat] /\ capture.written \in Nat /\ capture.got \in Nat
        /\ capture.unread[s] + 1 \in Nat
    BY <1>1 DEF CaptureType
  <1>3. unread \in [Streams -> Nat] /\ written \in Nat /\ written # 0 BY <1>2
  <1>4. unread["output"] + unread["error"] = capture.unread["output"] + capture.unread["error"] + 1
    <2>1. \A t \in Streams : unread[t] = IF t = s THEN capture.unread[s] + 1 ELSE capture.unread[t] BY <1>2
    <2>2. "output" \in Streams /\ "error" \in Streams /\ (s = "output" \/ s = "error") BY DEF Streams
    <2>. HIDE DEF unread
    <2>3. CASE s = "output" BY <1>2, <2>1, <2>2, <2>3
    <2>4. CASE s = "error" BY <1>2, <2>1, <2>2, <2>4
    <2>. QED BY <2>2, <2>3, <2>4
  <1>5. capture' = [capture EXCEPT !.unread = unread, !.written = written]
    BY <1>1 DEF Write, CaptureType
  <1>6. Conserved(capture) /\ capture.closed = {}
    BY DEF CaptureOK, EndsAreEnds, Write
  <1>7. unread["output"] \in Nat /\ unread["error"] \in Nat
        /\ capture.unread["output"] \in Nat /\ capture.unread["error"] \in Nat
    BY <1>2, <1>3 DEF Streams
  <1>8. written = capture.got + unread["output"] + unread["error"]
    <2>. DEFINE a == unread["output"]  b == unread["error"]
                c == capture.unread["output"]  d == capture.unread["error"]  got == capture.got
    <2>1. a \in Nat /\ b \in Nat /\ c \in Nat /\ d \in Nat /\ got \in Nat BY <1>2, <1>7
    <2>2. a + b = c + d + 1 BY <1>4
    <2>3. capture.written = got + c + d BY <1>6 DEF Conserved
    <2>. HIDE DEF a, b, c, d, got
    <2>4. got + c + d + 1 = got + a + b BY <2>1, <2>2
    <2>5. written = got + a + b BY <2>3, <2>4
    <2>. QED BY <2>5 DEF a, b, got
  <1>. HIDE DEF unread, written
  <1>9. /\ capture' \in CaptureType /\ capture'.unread = unread /\ capture'.written = written
        /\ capture'.got = capture.got /\ capture'.closed = {}
    BY <1>1, <1>3, <1>5, <1>6 DEF CaptureType
  <1>. QED BY <1>3, <1>8, <1>9 DEF CaptureOK, Conserved, EndsAreEnds

LEMMA ReadConserves ==
  ASSUME CaptureOK(capture), NEW s \in Streams, NEW stage, NEW next, CaptureRead(s, stage, next)
  PROVE  CaptureOK(capture') /\ capture'.written = capture.written
  <1>. DEFINE unread == [capture.unread EXCEPT ![s] = 0]
              got == capture.got + capture.unread[s]
              closed == IF capture.writers = {} THEN capture.closed \cup {s} ELSE capture.closed
  <1>1. capture \in CaptureType BY DEF CaptureOK
  <1>2. /\ capture.unread \in [Streams -> Nat] /\ capture.written \in Nat /\ capture.got \in Nat
        /\ capture.closed \in SUBSET Streams /\ capture.unread[s] \in Nat
    BY <1>1 DEF CaptureType
  <1>3. unread \in [Streams -> Nat] /\ got \in Nat /\ closed \in SUBSET Streams BY <1>2
  <1>4. \A t \in Streams : unread[t] = IF t = s THEN 0 ELSE capture.unread[t] BY <1>2
  <1>5. capture' = [capture EXCEPT !.got = got, !.unread = unread, !.closed = closed]
    BY <1>1 DEF CaptureRead, CaptureType
  <1>6. got + unread["output"] + unread["error"]
          = capture.got + capture.unread["output"] + capture.unread["error"]
    <2>1. "output" \in Streams /\ "error" \in Streams /\ (s = "output" \/ s = "error") BY DEF Streams
    <2>2. capture.unread["output"] \in Nat /\ capture.unread["error"] \in Nat BY <1>2, <2>1
    <2>. HIDE DEF unread
    <2>3. CASE s = "output" BY <1>2, <1>4, <2>1, <2>2, <2>3
    <2>4. CASE s = "error" BY <1>2, <1>4, <2>1, <2>2, <2>4
    <2>. QED BY <2>1, <2>3, <2>4
  <1>7. \A t \in closed : capture.writers = {} /\ unread[t] = 0
    BY <1>2, <1>4 DEF CaptureOK, EndsAreEnds
  <1>. HIDE DEF unread, got, closed
  <1>8. /\ capture' \in CaptureType /\ capture'.unread = unread /\ capture'.got = got
        /\ capture'.closed = closed /\ capture'.written = capture.written
        /\ capture'.writers = capture.writers
    BY <1>1, <1>3, <1>5 DEF CaptureType
  <1>9. Conserved(capture) BY DEF CaptureOK
  <1>. QED BY <1>6, <1>7, <1>8, <1>9 DEF CaptureOK, Conserved, EndsAreEnds

(* What a step that does not end the capture leaves: if it leaves none, the *)
(* capture had none of its output left to lose.                             *)
Lossless == capture' = NoCapture => capture.got = capture.written

LEMMA NothingYet ==
  ASSUME CaptureOK(capture), capture.written = 0 PROVE capture.got = capture.written
  <1>1. /\ capture.got \in Nat /\ capture.unread["output"] \in Nat /\ capture.unread["error"] \in Nat
    BY DEF CaptureOK, CaptureType, Streams
  <1>. QED BY <1>1 DEF CaptureOK, Conserved

LEMMA DecideLoses ==
  ASSUME CaptureOK(capture), CaptureDecide
  PROVE  CaptureOK(capture') /\ (capture' = NoCapture => capture.overdue \/ capture.got = capture.written
                                                       \/ capture = NoCapture)
  <1>1. CASE capture' = capture BY <1>1
  <1>2. CASE capture' = NoCapture /\ capture.overdue BY <1>2, NoCaptureOK
  <1>3. CASE capture' = NoCapture /\ CaptureDone
    <2>1. capture.unread["output"] = 0 /\ capture.unread["error"] = 0 /\ capture.got \in Nat
      BY <1>3 DEF CaptureOK, CaptureType, EndsAreEnds, CaptureDone, Streams
    <2>2. capture.got = capture.written BY <2>1 DEF CaptureOK, Conserved
    <2>. QED BY <1>3, <2>2, NoCaptureOK
  <1>. QED BY <1>1, <1>2, <1>3 DEF CaptureDecide

LEMMA EnvironmentConserves ==
  ASSUME CaptureOK(capture), Environment
  PROVE  CaptureOK(capture') /\ (Lossless \/ capture'.overdue)
  <1>0. capture.writers \in SUBSET {"child", "descendant"} /\ capture \in CaptureType
    BY DEF CaptureOK, CaptureType
  <1>1. CASE UNCHANGED capture
    <2>1. capture = NoCapture => capture.got = capture.written BY DEF NoCapture
    <2>. QED BY <1>1, <2>1 DEF Lossless
  <1>2. ASSUME NEW writers \in SUBSET {"child", "descendant"}, capture.writers = {} => writers = {},
               capture' = [capture EXCEPT !.writers = writers]
        PROVE  CaptureOK(capture') /\ Lossless
    <2>1. CaptureOK(capture') /\ capture'.got = capture.got /\ capture'.written = capture.written
      BY <1>2, WritersKept
    <2>. QED BY <2>1 DEF Lossless, NoCapture
  <1>3. ASSUME NEW p \in Pids, Ends(p) PROVE CaptureOK(capture') /\ Lossless
    <2>1. CASE capture' = [capture EXCEPT !.writers = capture.writers \ {"child"}]
      <3>1. capture.writers \ {"child"} \in SUBSET {"child", "descendant"}
            /\ (capture.writers = {} => capture.writers \ {"child"} = {})
        BY <1>0
      <3>. QED BY <2>1, <3>1, <1>2
    <2>2. CASE UNCHANGED capture
      <3>1. capture = NoCapture => capture.got = capture.written BY DEF NoCapture
      <3>. QED BY <2>2, <3>1 DEF Lossless
    <2>. QED BY <1>3, <2>1, <2>2 DEF Ends
  <1>4. CASE \E s \in Streams : Write(s)
    BY <1>4, WriteConserves DEF Lossless, NoCapture
  <1>5. CASE LeaveDescendant
    <2>1. capture' = [capture EXCEPT !.writers = capture.writers \cup {"descendant"}] /\ capture.writers # {}
          /\ capture.writers \cup {"descendant"} \in SUBSET {"child", "descendant"}
      BY <1>0, <1>5 DEF LeaveDescendant
    <2>. QED BY <2>1, <1>2
  <1>6. CASE DescendantEnds
    <2>1. capture' = [capture EXCEPT !.writers = capture.writers \ {"descendant"}] /\ capture.writers # {}
          /\ capture.writers \ {"descendant"} \in SUBSET {"child", "descendant"}
      BY <1>0, <1>6 DEF DescendantEnds
    <2>. QED BY <2>1, <1>2
  <1>7. CASE CaptureOverdue
    <2>1. capture' = [capture EXCEPT !.overdue = TRUE] BY <1>7 DEF CaptureOverdue
    <2>. QED BY <1>0, <2>1 DEF CaptureOK, CaptureType, Conserved, EndsAreEnds
  <1>8. ASSUME NEW p \in Pids, StrangerStarts(p) \/ WorkerClosesPipes(p) PROVE UNCHANGED capture
    BY <1>8 DEF StrangerStarts, WorkerClosesPipes
  <1>. QED BY <1>1, <1>3, <1>4, <1>5, <1>6, <1>7, <1>8 DEF Environment, Exit, Die, ReadEof

LEMMA RequestConserves ==
  ASSUME CaptureOK(capture), ServerRequest
  PROVE  CaptureOK(capture') /\ (Lossless \/ server' = "crashed")
  <1>1. CASE UNCHANGED capture
    <2>1. capture = NoCapture => capture.got = capture.written BY DEF NoCapture
    <2>. QED BY <1>1, <2>1 DEF Lossless
  <1>2. ASSUME NEW p \in Pids, NEW stubborn \in BOOLEAN, StartCapture(p, stubborn)
        PROVE  CaptureOK(capture') /\ Lossless
    <2>1. capture' = [NoCapture EXCEPT !.writers = {"child"}] BY <1>2 DEF StartCapture
    <2>2. capture'.writers = {"child"} /\ capture' \in CaptureType /\ Conserved(capture')
          /\ capture'.closed = {}
      <3>1. NoCapture.closed = {} /\ Conserved(NoCapture) BY NoCaptureOK DEF CaptureOK, NoCapture
      <3>2. /\ capture'.writers = {"child"} /\ capture' \in CaptureType /\ capture'.closed = NoCapture.closed
            /\ capture'.unread = NoCapture.unread /\ capture'.got = NoCapture.got
            /\ capture'.written = NoCapture.written
        BY <2>1, NoCaptureType DEF CaptureType
      <3>. QED BY <3>1, <3>2 DEF Conserved
    <2>. QED BY <2>2 DEF CaptureOK, EndsAreEnds, Lossless, NoCapture
  <1>3. CASE Crash BY <1>3, NoCaptureOK DEF Crash
  <1>4. ASSUME NEW p \in Pids, NEW stubborn \in BOOLEAN,
               StartRunner(p, stubborn) \/ StartPsalm(p, stubborn) \/ StartJob(p, stubborn) \/ StartWorker(p)
        PROVE  UNCHANGED capture
    BY <1>4 DEF StartRunner, StartPsalm, StartJob, StartWorker
  <1>5. CASE DropRunner \/ DropDeadRunner \/ StopWorker \/ JoinWorker \/ ReapJob \/ PollWorker \/ ReapPsalm
             \/ RunnerStatus \/ PsalmPipeClosed \/ BeginTeardown
    BY <1>1, <1>5 DEF DropRunner, DropDeadRunner, StopWorker, JoinWorker, ReapJob, PollWorker, ReapPsalm,
       RunnerStatus, PsalmPipeClosed, BeginTeardown, BeginStop, Forget
  <1>6. TRUE \in BOOLEAN OBVIOUS
  <1>. QED BY <1>1, <1>2, <1>3, <1>4, <1>5, <1>6 DEF ServerRequest

LEMMA ServerConserves ==
  ASSUME CaptureOK(capture), ServerStep, ~CaptureDecide
  PROVE  CaptureOK(capture') /\ Lossless
  <1>1. CASE UNCHANGED capture
    <2>1. capture = NoCapture => capture.got = capture.written BY DEF NoCapture
    <2>. QED BY <1>1, <2>1 DEF Lossless
  <1>2. CASE Reads
    <2>1. CaptureOK(capture') /\ capture'.written = capture.written
      BY <1>2, ReadConserves DEF Reads, Streams
    <2>. QED BY <2>1, NothingYet DEF Lossless, NoCapture
  <1>3. CASE CaptureWait
    <2>1. PICK exited \in BOOLEAN : capture' = [capture EXCEPT !.exited = exited]
      <3>1. capture.exited \/ Exited(call.pid) \in BOOLEAN BY DEF Exited
      <3>. QED BY <1>3, <3>1 DEF CaptureWait
    <2>2. CaptureOK(capture') /\ capture'.written = capture.written /\ capture'.got = capture.got
      BY <2>1 DEF CaptureOK, CaptureType, Conserved, EndsAreEnds
    <2>. QED BY <2>2 DEF Lossless, NoCapture
  <1>4. CASE StopEnds \/ StopEscalates \/ Teardown \/ TeardownEnds
    BY <1>1, <1>4 DEF StopEnds, StopEscalates, Teardown, TeardownEnds, BeginStop
  <1>. QED BY <1>2, <1>3, <1>4 DEF ServerStep

(* A capture that was not cut off returns what the command and what it left *)
(* behind have written, however long they write.                            *)
THEOREM CapturesComplete == Spec => CompleteUnlessOverdue
  <1>. DEFINE Step == capture # NoCapture /\ capture' = NoCapture /\ server' # "crashed"
                        => capture.overdue \/ capture.got = capture.written
  <1>1. Init => CaptureOK(capture) BY NoCaptureOK DEF Init
  <1>2. ASSUME CaptureOK(capture), [Next]_vars PROVE CaptureOK(capture') /\ (Step \/ UNCHANGED vars)
    <2>1. CASE UNCHANGED vars BY <1>2, <2>1 DEF vars
    <2>2. CASE Environment BY <1>2, <2>2, EnvironmentConserves DEF Lossless, NoCapture
    <2>3. CASE ServerRequest BY <1>2, <2>3, RequestConserves DEF Lossless
    <2>4. CASE CaptureDecide BY <1>2, <2>4, DecideLoses
    <2>5. CASE ServerStep /\ ~CaptureDecide BY <1>2, <2>5, ServerConserves DEF Lossless
    <2>. QED BY <1>2, <2>1, <2>2, <2>3, <2>4, <2>5 DEF Next
  <1>3. CaptureOK(capture) /\ [Next]_vars => CaptureOK(capture)' /\ [Step]_vars BY <1>2
  <1>. QED BY <1>1, <1>3, PTL DEF Spec, CompleteUnlessOverdue
=============================================================================
