------------------------- MODULE AnalyzerJobsProofs -------------------------
(***************************************************************************)
(* What holds of AnalyzerJobs for every set of projects, every worker      *)
(* budget and either choice of analyzers.                                  *)
(*                                                                         *)
(* A handler is a chain of operations on the tables, so the proofs go by   *)
(* the operations: a lemma says what each leaves true of a table, and an   *)
(* action is preserved because each link of its chain is.                  *)
(***************************************************************************)
EXTENDS AnalyzerJobs, FiniteSetTheorems, TLAPS

\* A table that is typed, within the budget, and agrees with its jobs.
TableOK(t) ==
    /\ t \in Tables
    /\ Cardinality(Busy(t)) <= Workers
    /\ \A s \in Slots :
         /\ t.state[s] = "running" => t.job[s].running
         /\ t.job[s].running => t.state[s] \notin {"ready", "error"}

\* What an operation that starts runs does to a table: the saved revisions
\* stay, and a job is left alone or is a new run of the current revision.
OnlyStarts(t, u) ==
    /\ u.saved = t.saved
    /\ \A s \in Slots :
         \/ u.job[s] = t.job[s]
         \/ u.job[s] = [running |-> TRUE, exit |-> "alive",
                        seen |-> t.saved[s[2]]]

-----------------------------------------------------------------------------
\* There are finitely many slots.
LEMMA SlotsFinite == IsFiniteSet(Slots)
<1>1. IsFiniteSet({"phpstan", "psalm"})
  <2>1. {"phpstan", "psalm"} = {"phpstan"} \cup {"psalm"}
    OBVIOUS
  <2>2. IsFiniteSet({"phpstan"}) /\ IsFiniteSet({"psalm"})
    BY FS_Singleton
  <2>3. IsFiniteSet({"phpstan"} \cup {"psalm"})
    BY <2>2, FS_Union
  <2>. QED BY <2>1, <2>3
<1>2. IsFiniteSet(Enabled)
  BY <1>1, EnabledAssumption, FS_Subset
<1>. QED BY <1>2, ProjectsAssumption, FS_Product DEF Slots

\* The busy slots of a table are a finite set.
LEMMA BusyFinite ==
  ASSUME NEW t
  PROVE  IsFiniteSet(Busy(t)) /\ Cardinality(Busy(t)) \in Nat
BY SlotsFinite, FS_Subset, FS_CardinalityType DEF Busy

\* Launching a set of idle slots yields a typed table whose busy slots are
\* the old ones and the started ones.
LEMMA LaunchTyped ==
  ASSUME NEW t \in Tables, NEW S \in SUBSET Slots, NEW D \in SUBSET Slots
  PROVE  /\ Launch(t, S, D) \in Tables
         /\ Busy(Launch(t, S, D)) = Busy(t) \cup S
         /\ OnlyStarts(t, Launch(t, S, D))
<1>. DEFINE u == Launch(t, S, D)
<1>1. /\ u.state = [s \in Slots |-> IF s \in S THEN "running"
                                  ELSE IF s \in D THEN "absent"
                                  ELSE t.state[s]]
      /\ u.job = [s \in Slots |->
                    IF s \in S
                    THEN [running |-> TRUE, exit |-> "alive",
                          seen |-> t.saved[s[2]]]
                    ELSE t.job[s]]
      /\ u.saved = t.saved
  BY DEF Launch
<1>2. \A s \in Slots : t.saved[s[2]] \in Nat
  BY DEF Slots, Tables
<1>3. u.state \in [Slots -> States]
  BY <1>1 DEF States, Tables
<1>4. u.job \in [Slots -> Jobs]
  BY <1>1, <1>2 DEF Jobs, Tables
<1>5. u \in Tables
  BY <1>3, <1>4 DEF Tables, Launch
<1>6. Busy(u) = Busy(t) \cup S
  BY <1>1 DEF Busy
<1>7. OnlyStarts(t, u)
  BY <1>1 DEF OnlyStarts
<1>. QED BY <1>5, <1>6, <1>7

\* The starter keeps a good table good, and changes jobs only by starting
\* them.
LEMMA StartPendingOK ==
  ASSUME NEW t, TableOK(t), NEW a \in Enabled, NEW u \in StartPending(t, a)
  PROVE  TableOK(u) /\ OnlyStarts(t, u)
<1>1. CASE ~ HasRoom(t)
  BY <1>1 DEF StartPending, OnlyStarts
<1>2. CASE HasRoom(t)
  <2>. DEFINE pending == PendingSlots(t, a)
  <2>1. PICK c \in [start : SUBSET pending, drop : SUBSET pending] :
          LoopOutcome(t, pending, c) /\ u = Launch(t, c.start, c.drop)
    BY <1>2 DEF StartPending
  <2>2. c.start \in SUBSET Slots /\ c.drop \in SUBSET Slots
    BY <2>1 DEF PendingSlots
  <2>3. /\ u \in Tables
        /\ Busy(u) = Busy(t) \cup c.start
        /\ OnlyStarts(t, u)
    BY <2>1, <2>2, LaunchTyped DEF TableOK
  <2>4. Cardinality(Busy(u)) <= Workers
    <3>1. c.start \cap Busy(t) = {}
          /\ Cardinality(Busy(t)) + Cardinality(c.start) <= Workers
      BY <2>1 DEF LoopOutcome
    <3>2. IsFiniteSet(c.start)
      BY <2>2, SlotsFinite, FS_Subset
    <3>3. Cardinality(Busy(t) \cup c.start)
            = Cardinality(Busy(t)) + Cardinality(c.start)
               - Cardinality(Busy(t) \cap c.start)
      BY <3>2, BusyFinite, FS_Union
    <3>4. Cardinality(Busy(t) \cap c.start) = 0
      BY <3>1, FS_EmptySet
    <3>5. Cardinality(c.start) \in Nat /\ Cardinality(Busy(t)) \in Nat
      BY <3>2, BusyFinite, FS_CardinalityType
    <3>. QED BY <3>1, <3>3, <3>4, <3>5, <2>3
  <2>5. ASSUME NEW s \in Slots
        PROVE  /\ u.state[s] = "running" => u.job[s].running
               /\ u.job[s].running => u.state[s] \notin {"ready", "error"}
    <3>1. /\ u.state[s] = IF s \in c.start THEN "running"
                          ELSE IF s \in c.drop THEN "absent"
                          ELSE t.state[s]
          /\ u.job[s] = IF s \in c.start
                        THEN [running |-> TRUE, exit |-> "alive",
                              seen |-> t.saved[s[2]]]
                        ELSE t.job[s]
      BY <2>1 DEF Launch, TableOK, Tables
    <3>. QED BY <3>1 DEF TableOK
  <2>. QED BY <2>3, <2>4, <2>5 DEF TableOK
<1>. QED BY <1>1, <1>2

\* Changing the state of a slot to "pending" or "absent" keeps a good table
\* good, and so does settling a slot whose job is gone.
LEMMA WithStateOK ==
  ASSUME NEW t, TableOK(t), NEW s \in Slots, NEW v \in States,
         v = "running" => t.job[s].running,
         v \in {"ready", "error"} => ~ t.job[s].running
  PROVE  TableOK(WithState(t, s, v)) /\ OnlyStarts(t, WithState(t, s, v))
<1>. DEFINE u == WithState(t, s, v)
<1>1. /\ u \in Tables
      /\ u.job = t.job
      /\ u.saved = t.saved
      /\ \A r \in Slots : u.state[r] = IF r = s THEN v ELSE t.state[r]
  BY DEF WithState, TableOK, Tables
<1>2. Busy(u) = Busy(t)
  BY <1>1 DEF Busy
<1>3. TableOK(u)
  BY <1>1, <1>2 DEF TableOK
<1>. QED BY <1>1, <1>3 DEF OnlyStarts

\* Operations that only start runs compose: a run started by the first is
\* left alone by the second, or is the very same new run.
LEMMA OnlyStartsTrans ==
  ASSUME NEW t, NEW u, NEW w, OnlyStarts(t, u), OnlyStarts(u, w)
  PROVE  OnlyStarts(t, w)
BY DEF OnlyStarts

\* Scheduling an analyzer for a project keeps a good table good.
LEMMA ScheduleOK ==
  ASSUME NEW t, TableOK(t), NEW a, NEW p \in Projects,
         NEW u \in Schedule(t, a, p)
  PROVE  TableOK(u) /\ OnlyStarts(t, u)
<1>1. CASE a \notin Enabled \/ t.state[<<a, p>>] /= "absent"
  BY <1>1 DEF Schedule, OnlyStarts
<1>2. CASE a \in Enabled /\ t.state[<<a, p>>] = "absent"
  <2>. DEFINE w == WithState(t, <<a, p>>, "pending")
  <2>1. <<a, p>> \in Slots
    BY <1>2 DEF Slots
  <2>2. TableOK(w) /\ OnlyStarts(t, w)
    BY <2>1, WithStateOK DEF States
  <2>3. u \in StartPending(w, a)
    BY <1>2 DEF Schedule
  <2>4. TableOK(u) /\ OnlyStarts(w, u)
    BY <1>2, <2>2, <2>3, StartPendingOK
  <2>. QED BY <2>2, <2>4, OnlyStartsTrans
<1>. QED BY <1>1, <1>2

\* Scheduling both analyzers keeps a good table good.
LEMMA ScheduleAllOK ==
  ASSUME NEW t, TableOK(t), NEW p \in Projects, NEW u \in ScheduleAll(t, p)
  PROVE  TableOK(u) /\ OnlyStarts(t, u)
<1>1. PICK w \in Schedule(t, "phpstan", p) : u \in Schedule(w, "psalm", p)
  BY DEF ScheduleAll
<1>2. TableOK(w) /\ OnlyStarts(t, w)
  BY <1>1, ScheduleOK
<1>3. TableOK(u) /\ OnlyStarts(w, u)
  BY <1>1, <1>2, ScheduleOK
<1>. QED BY <1>2, <1>3, OnlyStartsTrans

\* Rescheduling an analyzer after a save keeps a good table good.
LEMMA RescheduleOK ==
  ASSUME NEW t, TableOK(t), NEW a, NEW p \in Projects,
         NEW u \in Reschedule(t, a, p)
  PROVE  TableOK(u) /\ OnlyStarts(t, u)
<1>1. CASE a \notin Enabled
  BY <1>1 DEF Reschedule, OnlyStarts
<1>2. CASE a \in Enabled
  <2>1. <<a, p>> \in Slots
    BY <1>2 DEF Slots
  <2>2. CASE t.state[<<a, p>>] = "running"
    <3>1. u = WithState(t, <<a, p>>, "pending")
      BY <1>2, <2>2 DEF Reschedule
    <3>. QED BY <2>1, <3>1, WithStateOK DEF States
  <2>3. CASE t.state[<<a, p>>] /= "running"
    <3>. DEFINE w == WithState(t, <<a, p>>, "absent")
    <3>1. TableOK(w) /\ OnlyStarts(t, w)
      BY <2>1, WithStateOK DEF States
    <3>2. u \in Schedule(w, a, p)
      BY <1>2, <2>3 DEF Reschedule
    <3>3. TableOK(u) /\ OnlyStarts(w, u)
      BY <3>1, <3>2, ScheduleOK
    <3>. QED BY <3>1, <3>3, OnlyStartsTrans
  <2>. QED BY <2>2, <2>3
<1>. QED BY <1>1, <1>2

\* Rescheduling both analyzers keeps a good table good.
LEMMA RescheduleAllOK ==
  ASSUME NEW t, TableOK(t), NEW p \in Projects, NEW u \in RescheduleAll(t, p)
  PROVE  TableOK(u) /\ OnlyStarts(t, u)
<1>1. PICK w \in Reschedule(t, "phpstan", p) : u \in Reschedule(w, "psalm", p)
  BY DEF RescheduleAll
<1>2. TableOK(w) /\ OnlyStarts(t, w)
  BY <1>1, RescheduleOK
<1>3. TableOK(u) /\ OnlyStarts(w, u)
  BY <1>1, <1>2, RescheduleOK
<1>. QED BY <1>2, <1>3, OnlyStartsTrans

-----------------------------------------------------------------------------
\* The inductive invariant: the tables are good and the other variables typed.
JobsInv == TypeOK /\ TableOK(Now)

\* The published view of a document has its type.
LEMMA PublishedType ==
  ASSUME NEW f \in [Slots -> Outputs], NEW p \in Projects, NEW b \in BOOLEAN
  PROVE  Published(p, b, f) \in Views
<1>1. \A a \in Enabled : f[<<a, p>>] \in Outputs
  BY DEF Slots
<1>2. NoOutput \in Outputs
  BY DEF NoOutput, Outputs
<1>. QED BY <1>1, <1>2 DEF Published, Cached, Views

\* Committing the output of a finished run keeps the files typed, and a slot
\* whose file changes gets the revision the run has seen.
LEMMA CommitType ==
  ASSUME NEW f \in [Slots -> Outputs], NEW s \in Slots, NEW j \in Jobs,
         j.exit /= "alive"
  PROVE  /\ Commit(f, s, j) \in [Slots -> Outputs]
         /\ \A r \in Slots : \/ Commit(f, s, j)[r] = f[r]
                             \/ r = s /\ Commit(f, s, j)[r].seen = j.seen
<1>1. j.exit \in {"json", "junk", "empty"} /\ j.seen \in Nat
  BY ExitsAssumption DEF Jobs
<1>2. CASE j.exit = "empty"
  BY <1>2 DEF Commit
<1>3. CASE j.exit /= "empty"
  <2>1. [kind |-> j.exit, seen |-> j.seen] \in Outputs
    BY <1>1, <1>3 DEF Outputs
  <2>. QED BY <1>3, <2>1 DEF Commit
<1>. QED BY <1>2, <1>3

\* Counting a save keeps a good table good.
LEMMA SavedOK ==
  ASSUME NEW t, TableOK(t), NEW p \in Projects
  PROVE  LET u == [t EXCEPT !.saved[p] = @ + 1]
         IN  /\ TableOK(u)
             /\ u.state = t.state
             /\ u.job = t.job
             /\ u.saved = [t.saved EXCEPT ![p] = @ + 1]
<1>. DEFINE u == [t EXCEPT !.saved[p] = @ + 1]
<1>1. /\ u.state = t.state
      /\ u.job = t.job
      /\ u.saved = [t.saved EXCEPT ![p] = @ + 1]
      /\ u \in Tables
  BY DEF TableOK, Tables
<1>2. Busy(u) = Busy(t)
  BY <1>1 DEF Busy
<1>. QED BY <1>1, <1>2 DEF TableOK

\* Clearing a job whose project is not marked as running keeps a good table
\* good; clearing any job keeps the table typed and within the budget.
LEMMA ClearedOK ==
  ASSUME NEW t, TableOK(t), NEW s \in Slots
  PROVE  LET u == [t EXCEPT !.job[s] = NoJob]
         IN  /\ u \in Tables
             /\ Cardinality(Busy(u)) <= Workers
             /\ u.state = t.state
             /\ u.saved = t.saved
             /\ \A r \in Slots : u.job[r] = IF r = s THEN NoJob ELSE t.job[r]
<1>. DEFINE u == [t EXCEPT !.job[s] = NoJob]
<1>1. /\ u.state = t.state
      /\ u.saved = t.saved
      /\ u.job = [t.job EXCEPT ![s] = NoJob]
      /\ u \in Tables
  BY DEF TableOK, Tables, NoJob, Jobs
<1>2. \A r \in Slots : u.job[r] = IF r = s THEN NoJob ELSE t.job[r]
  BY <1>1 DEF TableOK, Tables
<1>3. Busy(u) \subseteq Busy(t)
  BY <1>2 DEF Busy, NoJob
<1>4. Cardinality(Busy(u)) <= Cardinality(Busy(t))
  BY <1>3, BusyFinite, FS_Subset
<1>5. Cardinality(Busy(u)) <= Workers
  BY <1>4, BusyFinite, WorkersAssumption DEF TableOK
<1>. QED BY <1>1, <1>2, <1>5

\* The table of a settled run is good.
LEMMA SettledOK ==
  ASSUME NEW t, TableOK(t), NEW s \in Slots, NEW v \in {"ready", "error"}
  PROVE  LET u == WithState([t EXCEPT !.job[s] = NoJob], s, v)
         IN  /\ TableOK(u)
             /\ u.saved = t.saved
             /\ \A r \in Slots :
                  /\ u.job[r] = IF r = s THEN NoJob ELSE t.job[r]
                  /\ u.state[r] = IF r = s THEN v ELSE t.state[r]
<1>. DEFINE w == [t EXCEPT !.job[s] = NoJob]
            u == WithState(w, s, v)
<1>1. /\ w \in Tables
      /\ Cardinality(Busy(w)) <= Workers
      /\ w.state = t.state
      /\ w.saved = t.saved
      /\ \A r \in Slots : w.job[r] = IF r = s THEN NoJob ELSE t.job[r]
  BY ClearedOK
<1>. HIDE DEF w
<1>2. /\ u \in Tables
      /\ u.job = w.job
      /\ u.saved = w.saved
      /\ \A r \in Slots : u.state[r] = IF r = s THEN v ELSE w.state[r]
  BY <1>1 DEF WithState, Tables, States
<1>3. Busy(u) = Busy(w)
  BY <1>2 DEF Busy
<1>. HIDE DEF u
<1>4. TableOK(u)
  BY <1>1, <1>2, <1>3 DEF TableOK, NoJob
<1>. QED BY <1>1, <1>2, <1>4 DEF u, w

\* Initially nothing runs.
LEMMA InitInv == Init => JobsInv
<1>. SUFFICES ASSUME Init PROVE JobsInv
  OBVIOUS
<1>1. NoJob \in Jobs /\ NoOutput \in Outputs
  BY DEF NoJob, Jobs, NoOutput, Outputs
<1>2. NoView \in Views
  BY <1>1 DEF NoView, Views
<1>3. TypeOK
  BY <1>1, <1>2 DEF Init, TypeOK, States
<1>4. Busy(Now) = {}
  BY DEF Busy, Now, Init, NoJob
<1>5. Cardinality(Busy(Now)) <= Workers
  BY <1>4, FS_EmptySet, WorkersAssumption
<1>6. Now \in Tables
  BY <1>3 DEF TypeOK, Tables, Now
<1>7. \A s \in Slots : ~ Now.job[s].running /\ Now.state[s] = "absent"
  BY DEF Now, Init, NoJob
<1>. QED BY <1>3, <1>5, <1>6, <1>7 DEF JobsInv, TableOK

\* An action that leaves a good table behind and types the rest preserves the
\* invariant.
LEMMA BecomesInv ==
  ASSUME NEW t, TableOK(t), Becomes(t),
         file' \in [Slots -> Outputs], open' \subseteq Projects,
         clean' \subseteq Projects, shown' \in [Projects -> Views],
         unscanned' \subseteq Projects, restarts' \in Nat
  PROVE  JobsInv'
<1>1. /\ t.state \in [Slots -> States]
      /\ t.job \in [Slots -> Jobs]
      /\ t.saved \in [Projects -> Nat]
      /\ t = [state |-> t.state, job |-> t.job, saved |-> t.saved]
  BY DEF TableOK, Tables
<1>2. TypeOK'
  BY <1>1 DEF Becomes, TypeOK
<1>3. Now' = t
  BY <1>1 DEF Becomes, Now
<1>4. Busy(Now)' = Busy(t)
  BY <1>3 DEF Busy
<1>5. TableOK(Now)'
  BY <1>3, <1>4 DEF TableOK
<1>. QED BY <1>2, <1>5 DEF JobsInv

\* Every step of the system preserves the invariant.
LEMMA NextInv == JobsInv /\ [Next]_vars => JobsInv'
<1>. SUFFICES ASSUME JobsInv, [Next]_vars PROVE JobsInv'
  OBVIOUS
<1>. USE DEF JobsInv
<1>1. NoJob \in Jobs /\ NoOutput \in Outputs /\ NoView \in Views
  BY DEF NoJob, Jobs, NoOutput, Outputs, NoView, Views
<1>2. ASSUME NEW p \in Projects, Scan(p) PROVE JobsInv'
  <2>1. PICK t \in ScheduleAll(Now, p) : Becomes(t)
    BY <1>2 DEF Scan
  <2>2. TableOK(t)
    BY <2>1, ScheduleAllOK
  <2>. QED BY <1>2, <2>1, <2>2, BecomesInv DEF Scan, TypeOK
<1>3. ASSUME NEW p \in Projects, NEW b \in BOOLEAN, OpenOrChange(p, b)
      PROVE  JobsInv'
  <2>1. PICK t \in ScheduleAll(Now, p) : Becomes(t)
    BY <1>3 DEF OpenOrChange
  <2>2. TableOK(t)
    BY <2>1, ScheduleAllOK
  <2>3. shown' \in [Projects -> Views]
    BY <1>3, PublishedType DEF OpenOrChange, TypeOK
  <2>4. open' \subseteq Projects /\ clean' \subseteq Projects
    BY <1>3 DEF OpenOrChange, TypeOK
  <2>. QED BY <1>3, <2>1, <2>2, <2>3, <2>4, BecomesInv DEF OpenOrChange, TypeOK
<1>4. ASSUME NEW p \in Projects, NEW b \in BOOLEAN, SupersededChange(p, b)
      PROVE  JobsInv'
  <2>1. Becomes(Now)
    BY <1>4 DEF SupersededChange, Becomes, Now
  <2>2. open' \subseteq Projects /\ clean' \subseteq Projects
    BY <1>4 DEF SupersededChange, TypeOK
  <2>. QED BY <1>4, <2>1, <2>2, BecomesInv DEF SupersededChange, TypeOK
<1>5. ASSUME NEW p \in Projects, NEW b \in BOOLEAN, Save(p, b)
      PROVE  JobsInv'
  <2>. DEFINE bumped == [Now EXCEPT !.saved[p] = @ + 1]
  <2>0. PICK t \in RescheduleAll(bumped, p) :
          \E u \in ScheduleAll(t, p) : Becomes(u)
    BY <1>5 DEF Save
  <2>1. PICK u \in ScheduleAll(t, p) : Becomes(u)
    BY <2>0
  <2>2. TableOK(bumped)
    BY SavedOK
  <2>3. TableOK(u)
    BY <2>2, RescheduleAllOK, ScheduleAllOK
  <2>4. shown' \in [Projects -> Views]
    BY <1>5, PublishedType DEF Save, TypeOK
  <2>5. clean' \subseteq Projects
    BY <1>5 DEF Save, TypeOK
  <2>. QED BY <1>5, <2>1, <2>3, <2>4, <2>5, BecomesInv DEF Save, TypeOK
<1>6. ASSUME NEW p \in Projects, Close(p) PROVE JobsInv'
  <2>1. Becomes(Now)
    BY <1>6 DEF Close, Becomes, Now
  <2>2. shown' \in [Projects -> Views]
    BY <1>1, <1>6 DEF Close, TypeOK
  <2>3. open' \subseteq Projects /\ clean' \subseteq Projects
    BY <1>6 DEF Close, TypeOK
  <2>. QED BY <1>6, <2>1, <2>2, <2>3, BecomesInv DEF Close, TypeOK
<1>7. ASSUME NEW s \in Slots, ProcessExit(s) PROVE JobsInv'
  <2>1. PICK e \in Exits, n \in job[s].seen .. saved[s[2]] :
          job' = [job EXCEPT ![s] = [running |-> TRUE, exit |-> e, seen |-> n]]
    BY <1>7 DEF ProcessExit
  <2>2. job[s].seen \in Nat /\ saved[s[2]] \in Nat
    BY DEF TypeOK, Jobs, Slots
  <2>3. [running |-> TRUE, exit |-> e, seen |-> n] \in Jobs
    BY <2>2 DEF Jobs
  <2>4. TypeOK'
    BY <1>7, <2>1, <2>3 DEF ProcessExit, TypeOK
  <2>5. /\ \A r \in Slots : Now'.job[r].running = Now.job[r].running
        /\ \A r \in Slots : Now'.state[r] = Now.state[r]
    BY <1>7, <2>1 DEF ProcessExit, Now, TypeOK
  <2>6. Busy(Now)' = Busy(Now)
    BY <2>5 DEF Busy
  <2>7. Now' \in Tables
    BY <2>4 DEF TypeOK, Tables, Now
  <2>8. TableOK(Now)'
    BY <2>5, <2>6, <2>7 DEF TableOK
  <2>. QED BY <2>4, <2>8
<1>8. ASSUME NEW s \in Slots, Reap(s) PROVE JobsInv'
  <2>1. s[1] \in Enabled /\ s[2] \in Projects
    BY DEF Slots
  <2>2. /\ open' \subseteq Projects
        /\ clean' \subseteq Projects
        /\ unscanned' \subseteq Projects
        /\ restarts' \in Nat
    BY <1>8 DEF Reap, TypeOK
  <2>3. CASE DiscardRun(s)
    <3>. DEFINE cleared == [Now EXCEPT !.job[s] = NoJob]
    <3>1. PICK t \in StartPending(cleared, s[1]) : Becomes(t)
      BY <2>3 DEF DiscardRun
    <3>2. TableOK(cleared)
      <4>1. Now.state[s] = "pending"
        BY <2>3 DEF DiscardRun, Now
      <4>. HIDE DEF cleared
      <4>2. /\ cleared \in Tables
            /\ Cardinality(Busy(cleared)) <= Workers
            /\ cleared.state = Now.state
            /\ \A r \in Slots :
                 cleared.job[r] = IF r = s THEN NoJob ELSE Now.job[r]
        BY ClearedOK DEF cleared
      <4>. QED BY <4>1, <4>2 DEF TableOK, NoJob
    <3>3. TableOK(t)
      BY <2>1, <3>1, <3>2, StartPendingOK
    <3>4. file' \in [Slots -> Outputs] /\ shown' \in [Projects -> Views]
      BY <2>3 DEF DiscardRun, TypeOK
    <3>. QED BY <2>2, <3>1, <3>3, <3>4, BecomesInv
  <2>4. CASE SettleRun(s)
    <3>. DEFINE verdict == IF job[s].exit = "json" THEN "ready" ELSE "error"
                settled == WithState([Now EXCEPT !.job[s] = NoJob], s, verdict)
                files   == Commit(file, s, job[s])
    <3>0. PICK t \in (IF s[2] \in open THEN ScheduleAll(settled, s[2])
                                       ELSE {settled}) :
            \E u \in StartPending(t, s[1]) : Becomes(u)
      BY <2>4 DEF SettleRun
    <3>1. PICK u \in StartPending(t, s[1]) : Becomes(u)
      BY <3>0
    <3>2. TableOK(settled)
      BY SettledOK
    <3>3. TableOK(t)
      BY <2>1, <3>0, <3>2, ScheduleAllOK
    <3>4. TableOK(u)
      BY <2>1, <3>1, <3>3, StartPendingOK
    <3>5. file' = files /\ shown' = Republish(s, files)
      BY <2>4 DEF SettleRun
    <3>6. files \in [Slots -> Outputs]
      BY <1>8, CommitType DEF Reap, TypeOK
    <3>7. shown' \in [Projects -> Views]
      <4>. HIDE DEF files
      <4>1. Published(s[2], s[2] \in clean, files) \in Views
        <5>. DEFINE b == s[2] \in clean
        <5>1. b \in BOOLEAN
          OBVIOUS
        <5>. HIDE DEF b
        <5>2. Published(s[2], b, files) \in Views
          BY <2>1, <3>6, <5>1, PublishedType
        <5>. QED BY <5>2 DEF b
      <4>. QED BY <2>1, <3>5, <4>1 DEF Republish, TypeOK
    <3>. QED BY <2>2, <3>1, <3>4, <3>5, <3>6, <3>7, BecomesInv
  <2>. QED BY <1>8, <2>3, <2>4 DEF Reap
<1>9. CASE Restart
  <2>1. TypeOK'
    BY <1>1, <1>9 DEF Restart, TypeOK, States
  <2>2. \A s \in Slots : ~ Now'.job[s].running /\ Now'.state[s] = "absent"
    BY <1>9 DEF Restart, Now, NoJob
  <2>3. Busy(Now)' = {}
    BY <2>2 DEF Busy
  <2>4. Cardinality(Busy(Now)') <= Workers
    BY <2>3, FS_EmptySet, WorkersAssumption
  <2>5. Now' \in Tables
    BY <2>1 DEF TypeOK, Tables, Now
  <2>6. TableOK(Now)'
    BY <2>2, <2>4, <2>5 DEF TableOK
  <2>. QED BY <2>1, <2>6
<1>10. CASE UNCHANGED vars
  <2>1. Now' = Now /\ Busy(Now)' = Busy(Now)
    BY <1>10 DEF vars, Now, Busy
  <2>2. TypeOK'
    BY <1>10 DEF vars, TypeOK
  <2>. QED BY <2>1, <2>2 DEF TableOK
<1>11. CASE Next
  BY <1>2, <1>3, <1>4, <1>5, <1>6, <1>7, <1>8, <1>9, <1>11 DEF Next, Edit
<1>. QED BY <1>10, <1>11

\* The invariant holds in every reachable state.
LEMMA JobsInvariant == Spec => []JobsInv
BY InitInv, NextInv, PTL DEF Spec

\* The variables of the model always have their types, for any projects and
\* any worker budget.
THEOREM TypeCorrect == Spec => []TypeOK
BY JobsInvariant, PTL DEF JobsInv

\* For every worker budget, the runs of PHPStan and Psalm together stay within
\* it, whatever the order of saves, exits and restarts.
THEOREM BudgetHolds == Spec => []CapacityRespected
<1>1. JobsInv => CapacityRespected
  BY DEF JobsInv, TableOK, CapacityRespected, Busy, Now
<1>. QED BY <1>1, JobsInvariant, PTL

\* Whatever happens, a project reported as running has a live job and a
\* project reported as ready or failed has none.
THEOREM StatesAgree == Spec => []StateAgreesWithJob
<1>1. JobsInv => StateAgreesWithJob
  BY DEF JobsInv, TableOK, StateAgreesWithJob, Now
<1>. QED BY <1>1, JobsInvariant, PTL

-----------------------------------------------------------------------------
\* Revisions: a committed file is never newer than what was saved, and a run in
\* progress has seen at least what its project's file describes.
SeenInv ==
    \A s \in Slots :
      /\ file[s].seen <= saved[s[2]]
      /\ job[s].running => /\ file[s].seen <= job[s].seen
                           /\ job[s].seen <= saved[s[2]]

\* The revisions stay in order when operations only start runs.
LEMMA OnlyStartsSeen ==
  ASSUME NEW t, NEW u, OnlyStarts(t, u), t \in Tables, u \in Tables,
         NEW f \in [Slots -> Outputs],
         \A s \in Slots :
           /\ f[s].seen <= t.saved[s[2]]
           /\ t.job[s].running => /\ f[s].seen <= t.job[s].seen
                                  /\ t.job[s].seen <= t.saved[s[2]]
  PROVE  \A s \in Slots :
           /\ f[s].seen <= u.saved[s[2]]
           /\ u.job[s].running => /\ f[s].seen <= u.job[s].seen
                                  /\ u.job[s].seen <= u.saved[s[2]]
<1>. TAKE s \in Slots
<1>1. t.saved[s[2]] \in Nat /\ f[s].seen \in Nat
  BY DEF Tables, Slots, Outputs
<1>2. CASE u.job[s] = t.job[s]
  BY <1>2 DEF OnlyStarts
<1>3. CASE u.job[s] = [running |-> TRUE, exit |-> "alive",
                       seen |-> t.saved[s[2]]]
  <2>1. u.job[s].seen = t.saved[s[2]]
    BY <1>3
  <2>. QED BY <1>1, <2>1 DEF OnlyStarts
<1>. QED BY <1>2, <1>3 DEF OnlyStarts

\* A table that takes over keeps the revisions in order.
LEMMA BecomesSeen ==
  ASSUME NEW t \in Tables, NEW u \in Tables, OnlyStarts(t, u), Becomes(u),
         file' \in [Slots -> Outputs],
         \A s \in Slots :
           /\ file'[s].seen <= t.saved[s[2]]
           /\ t.job[s].running => /\ file'[s].seen <= t.job[s].seen
                                  /\ t.job[s].seen <= t.saved[s[2]]
  PROVE  SeenInv'
BY OnlyStartsSeen DEF Becomes, SeenInv

\* Initially nothing was saved.
LEMMA SeenInit == Init => SeenInv
BY DEF Init, SeenInv, NoJob, NoOutput, Slots

\* Every step keeps the revisions in order and never takes a file back to an
\* older revision.
LEMMA SeenNext ==
  ASSUME JobsInv, SeenInv, [Next]_vars
  PROVE  SeenInv' /\ \A s \in Slots : file'[s].seen >= file[s].seen
<1>1. TableOK(Now) /\ Now \in Tables /\ TypeOK
  BY DEF JobsInv, TableOK
<1>2. \A s \in Slots :
        /\ file[s].seen \in Nat /\ saved[s[2]] \in Nat /\ job[s].seen \in Nat
        /\ job[s].running \in BOOLEAN
  BY <1>1 DEF TypeOK, Slots, Outputs, Jobs
<1>3. ASSUME NEW t \in ({Now} \cup {[Now EXCEPT !.saved[p] = @ + 1] : p \in Projects}),
             NEW u, TableOK(t), TableOK(u), OnlyStarts(t, u), Becomes(u),
             file' = file
      PROVE  SeenInv'
  <2>1. /\ t.job = job
        /\ \A s \in Slots : saved[s[2]] <= t.saved[s[2]] /\ t.saved[s[2]] \in Nat
    <3>1. CASE t = Now
      BY <1>2, <3>1 DEF Now
    <3>2. CASE t /= Now
      <4>1. PICK p \in Projects : t = [Now EXCEPT !.saved[p] = @ + 1]
        BY <3>2
      <4>2. t.job = job /\ t.saved = [saved EXCEPT ![p] = @ + 1]
        BY <1>1, <4>1, SavedOK DEF Now
      <4>. QED BY <1>1, <1>2, <4>2 DEF TypeOK, Slots
    <3>. QED BY <3>1, <3>2
  <2>2. t \in Tables /\ u \in Tables /\ file' \in [Slots -> Outputs]
    BY <1>1, <1>3 DEF TableOK, TypeOK
  <2>3. \A s \in Slots :
          /\ file'[s].seen <= t.saved[s[2]]
          /\ t.job[s].running => /\ file'[s].seen <= t.job[s].seen
                                 /\ t.job[s].seen <= t.saved[s[2]]
    BY <1>2, <1>3, <2>1 DEF SeenInv
  <2>. QED BY <1>3, <2>2, <2>3, BecomesSeen
<1>4. ASSUME file' = file PROVE \A s \in Slots : file'[s].seen >= file[s].seen
  BY <1>2, <1>4
<1>5. ASSUME NEW p \in Projects, Scan(p) PROVE SeenInv' /\ file' = file
  BY <1>1, <1>3, <1>5, ScheduleAllOK DEF Scan
<1>6. ASSUME NEW p \in Projects, NEW b \in BOOLEAN, OpenOrChange(p, b)
      PROVE  SeenInv' /\ file' = file
  BY <1>1, <1>3, <1>6, ScheduleAllOK DEF OpenOrChange
<1>7. ASSUME UNCHANGED <<job, saved, file>> PROVE SeenInv' /\ file' = file
  BY <1>7 DEF SeenInv
<1>8. ASSUME NEW p \in Projects, NEW b \in BOOLEAN, Save(p, b)
      PROVE  SeenInv' /\ file' = file
  <2>. DEFINE bumped == [Now EXCEPT !.saved[p] = @ + 1]
  <2>0. PICK t \in RescheduleAll(bumped, p) :
          \E u \in ScheduleAll(t, p) : Becomes(u)
    BY <1>8 DEF Save
  <2>1. PICK u \in ScheduleAll(t, p) : Becomes(u)
    BY <2>0
  <2>2. TableOK(bumped)
    BY <1>1, SavedOK
  <2>3. TableOK(t) /\ OnlyStarts(bumped, t)
    BY <2>2, RescheduleAllOK
  <2>4. TableOK(u) /\ OnlyStarts(t, u)
    BY <2>3, ScheduleAllOK
  <2>5. OnlyStarts(bumped, u)
    BY <2>3, <2>4, OnlyStartsTrans
  <2>6. file' = file
    BY <1>8 DEF Save
  <2>. QED BY <1>3, <2>1, <2>2, <2>4, <2>5, <2>6
<1>9. ASSUME NEW s \in Slots, ProcessExit(s) PROVE SeenInv' /\ file' = file
  <2>1. PICK e \in Exits, n \in job[s].seen .. saved[s[2]] :
          job' = [job EXCEPT ![s] = [running |-> TRUE, exit |-> e, seen |-> n]]
    BY <1>9 DEF ProcessExit
  <2>2. /\ job'[s].seen = n /\ job[s].running
        /\ n \in Nat /\ job[s].seen <= n /\ n <= saved[s[2]]
    BY <1>1, <1>2, <1>9, <2>1 DEF ProcessExit, TypeOK
  <2>3. \A r \in Slots : r /= s => job'[r] = job[r]
    BY <1>1, <2>1 DEF TypeOK
  <2>4. file' = file /\ saved' = saved
    BY <1>9 DEF ProcessExit
  <2>5. file[s].seen <= n
    BY <1>2, <2>2 DEF SeenInv
  <2>. QED BY <2>2, <2>3, <2>4, <2>5 DEF SeenInv
<1>10. ASSUME NEW s \in Slots, Reap(s)
       PROVE  SeenInv' /\ \A r \in Slots : file'[r].seen >= file[r].seen
  <2>0. s[1] \in Enabled /\ s[2] \in Projects /\ job[s].running
    BY <1>10 DEF Slots, Reap
  <2>1. CASE DiscardRun(s)
    <3>. DEFINE cleared == [Now EXCEPT !.job[s] = NoJob]
    <3>1. PICK t \in StartPending(cleared, s[1]) : Becomes(t)
      BY <2>1 DEF DiscardRun
    <3>2. TableOK(cleared)
      <4>1. Now.state[s] = "pending"
        BY <2>1 DEF DiscardRun, Now
      <4>. HIDE DEF cleared
      <4>2. /\ cleared \in Tables
            /\ Cardinality(Busy(cleared)) <= Workers
            /\ cleared.state = Now.state
            /\ \A r \in Slots :
                 cleared.job[r] = IF r = s THEN NoJob ELSE Now.job[r]
        BY <1>1, ClearedOK DEF cleared
      <4>. QED BY <1>1, <4>1, <4>2 DEF TableOK, NoJob
    <3>3. /\ cleared.saved = saved
          /\ \A r \in Slots : cleared.job[r] = IF r = s THEN NoJob ELSE job[r]
      BY <1>1, ClearedOK DEF Now
    <3>. HIDE DEF cleared
    <3>4. TableOK(t) /\ OnlyStarts(cleared, t)
      BY <2>0, <3>1, <3>2, StartPendingOK
    <3>5. file' = file
      BY <2>1 DEF DiscardRun
    <3>6. \A r \in Slots :
            /\ file'[r].seen <= cleared.saved[r[2]]
            /\ cleared.job[r].running =>
                 /\ file'[r].seen <= cleared.job[r].seen
                 /\ cleared.job[r].seen <= cleared.saved[r[2]]
      BY <3>3, <3>5 DEF SeenInv, NoJob
    <3>7. file' \in [Slots -> Outputs] /\ cleared \in Tables /\ t \in Tables
      BY <1>1, <3>2, <3>4, <3>5 DEF TypeOK, TableOK
    <3>8. SeenInv'
      BY <3>1, <3>4, <3>6, <3>7, BecomesSeen
    <3>. QED BY <1>4, <3>5, <3>8
  <2>2. CASE SettleRun(s)
    <3>. DEFINE verdict == IF job[s].exit = "json" THEN "ready" ELSE "error"
                settled == WithState([Now EXCEPT !.job[s] = NoJob], s, verdict)
                files   == Commit(file, s, job[s])
    <3>0. PICK t \in (IF s[2] \in open THEN ScheduleAll(settled, s[2])
                                       ELSE {settled}) :
            \E u \in StartPending(t, s[1]) : Becomes(u)
      BY <2>2 DEF SettleRun
    <3>1. PICK u \in StartPending(t, s[1]) : Becomes(u)
      BY <3>0
    <3>2. /\ TableOK(settled)
          /\ settled.saved = saved
          /\ \A r \in Slots : settled.job[r] = IF r = s THEN NoJob ELSE job[r]
      BY <1>1, SettledOK DEF Now
    <3>3. /\ files \in [Slots -> Outputs]
          /\ \A r \in Slots : \/ files[r] = file[r]
                              \/ r = s /\ files[r].seen = job[s].seen
      BY <1>1, <1>10, CommitType DEF Reap, TypeOK
    <3>4. file' = files
      BY <2>2 DEF SettleRun
    <3>. HIDE DEF settled, files
    <3>5. TableOK(t) /\ OnlyStarts(settled, t)
      <4>1. CASE s[2] \in open
        BY <2>0, <3>0, <3>2, <4>1, ScheduleAllOK
      <4>2. CASE s[2] \notin open
        BY <3>0, <3>2, <4>2 DEF OnlyStarts
      <4>. QED BY <4>1, <4>2
    <3>6. TableOK(u) /\ OnlyStarts(settled, u)
      BY <2>0, <3>1, <3>5, StartPendingOK, OnlyStartsTrans
    <3>7. \A r \in Slots :
            /\ files[r].seen >= file[r].seen
            /\ files[r].seen <= saved[r[2]]
            /\ r /= s => files[r] = file[r]
      BY <1>2, <2>0, <3>3 DEF SeenInv
    <3>8. \A r \in Slots :
            /\ file'[r].seen <= settled.saved[r[2]]
            /\ settled.job[r].running =>
                 /\ file'[r].seen <= settled.job[r].seen
                 /\ settled.job[r].seen <= settled.saved[r[2]]
      BY <3>2, <3>4, <3>7 DEF SeenInv, NoJob
    <3>9. SeenInv'
      <4>1. settled \in Tables /\ u \in Tables
        BY <3>2, <3>6 DEF TableOK
      <4>. QED BY <3>1, <3>3, <3>4, <3>6, <3>8, <4>1, BecomesSeen
    <3>. QED BY <3>4, <3>7, <3>9
  <2>. QED BY <1>10, <2>1, <2>2 DEF Reap
<1>11. CASE Restart
  <2>1. \A s \in Slots : ~ job'[s].running
    BY <1>11 DEF Restart, NoJob
  <2>2. saved' = saved /\ file' = file
    BY <1>11 DEF Restart
  <2>. QED BY <1>4, <2>1, <2>2 DEF SeenInv
<1>12. ASSUME NEW p \in Projects, NEW b \in BOOLEAN,
              SupersededChange(p, b) \/ Close(p)
       PROVE  SeenInv' /\ file' = file
  BY <1>7, <1>12 DEF SupersededChange, Close
<1>13. CASE UNCHANGED vars
  BY <1>4, <1>7, <1>13 DEF vars
<1>14. CASE Next
  BY <1>4, <1>5, <1>6, <1>8, <1>9, <1>10, <1>11, <1>12, <1>14 DEF Next, Edit
<1>. QED BY <1>13, <1>14

\* Diagnostics of a project never go back in time: for any number of projects,
\* workers, saves and restarts, output is committed only over output of the
\* same or an older revision.
THEOREM NeverRegresses == Spec => CommittedNeverRegresses
<1>1. Init => SeenInv
  BY SeenInit
<1>2. JobsInv /\ SeenInv /\ [Next]_vars => SeenInv'
  BY SeenNext
<1>3. JobsInv /\ SeenInv /\ [Next]_vars
        => [\A s \in Slots : file'[s].seen >= file[s].seen]_vars
  BY SeenNext
<1>. QED BY <1>1, <1>2, <1>3, JobsInvariant, PTL DEF Spec, CommittedNeverRegresses
-----------------------------------------------------------------------------
(***************************************************************************)
(* Which diagnostics a client is shown: how a project comes to be reported *)
(* as ready with diagnostics older than its last save, and that the screen *)
(* agrees with the committed files, always.                                *)
(*                                                                         *)
(* The mark "pending" a save leaves on a running project is lost when the  *)
(* starter meets the project: it is pending, so it is a candidate, and its *)
(* job runs, so it cannot be started.  The starter is entered only while   *)
(* there is room, so with one worker it never meets a running project.     *)
(***************************************************************************)
\* In table t, a run of slot s that counts reads the last save.
Reads(t, s) == t.state[s] = "running" => t.job[s].seen = t.saved[s[2]]

\* A run of slot s does not count (Held), or nothing says any more that it
\* does not (Stray).
Held(t, s)  == t.job[s].running /\ t.state[s] /= "running"
Stray(t, s) == t.job[s].running /\ t.state[s] = "absent"

\* What starting and scheduling leave of a slot: no run is held that was not
\* held, nothing becomes ready, and a mark is lost only beside a free worker.
Follows(t, u, s) ==
    /\ u.saved = t.saved
    /\ Reads(t, s) => Reads(u, s)
    /\ u.state[s] = "ready" => t.state[s] = "ready"
    /\ Held(u, s) => Held(t, s)
    /\ Stray(u, s) => Stray(t, s) \/ Workers > 1

\* What a save makes of the slots of its project.
Renews(t, u, s) ==
    /\ u.saved = t.saved
    /\ Reads(u, s)
    /\ u.state[s] /= "ready"
    /\ Held(u, s) => t.job[s].running
    /\ Stray(u, s) => Workers > 1

\* A slot that two tables have in common.
SameSlot(t, u, s) == u.state[s] = t.state[s] /\ u.job[s] = t.job[s]

RunsInv == \A s \in Slots : Reads(Now, s) /\ (Stray(Now, s) => Workers > 1)

-----------------------------------------------------------------------------
\* Slots follow through two operations, and through a slot left alone.
LEMMA FollowsTrans ==
  ASSUME NEW t, NEW u, NEW v, NEW s, Follows(t, u, s), Follows(u, v, s)
  PROVE  Follows(t, v, s)
BY DEF Follows

\* A renewed slot stays renewed.
LEMMA RenewsFollows ==
  ASSUME NEW t, NEW u, NEW v, NEW s, Renews(t, u, s), Follows(u, v, s)
  PROVE  Renews(t, v, s)
BY DEF Renews, Follows, Held

\* A slot that is left alone follows.
LEMMA SameFollows ==
  ASSUME NEW t, NEW u, NEW s, SameSlot(t, u, s), u.saved = t.saved
  PROVE  Follows(t, u, s)
BY DEF SameSlot, Follows, Reads, Held, Stray

\* The starter: slots follow, and those of the other analyzer are left alone.
LEMMA StartPendingFollows ==
  ASSUME NEW t, TableOK(t), NEW a \in Enabled, NEW u \in StartPending(t, a),
         NEW s \in Slots
  PROVE  /\ Follows(t, u, s)
         /\ s[1] /= a => SameSlot(t, u, s)
         /\ t.state[s] = "pending" => (Stray(u, s) => Workers > 1)
<1>1. CASE ~ HasRoom(t)
  <2>1. u = t
    BY <1>1 DEF StartPending
  <2>2. SameSlot(t, u, s) /\ u.saved = t.saved
    BY <2>1 DEF SameSlot
  <2>. QED BY <2>1, <2>2, SameFollows DEF Stray
<1>2. CASE HasRoom(t)
  <2>. DEFINE pending == PendingSlots(t, a)
  <2>1. PICK c \in [start : SUBSET pending, drop : SUBSET pending] :
          LoopOutcome(t, pending, c) /\ u = Launch(t, c.start, c.drop)
    BY <1>2 DEF StartPending
  <2>2. /\ u.state[s] = IF s \in c.start THEN "running"
                        ELSE IF s \in c.drop THEN "absent"
                        ELSE t.state[s]
        /\ u.job[s] = IF s \in c.start
                      THEN [running |-> TRUE, exit |-> "alive",
                            seen |-> t.saved[s[2]]]
                      ELSE t.job[s]
        /\ u.saved = t.saved
    BY <2>1 DEF Launch
  <2>3. s \in c.start \cup c.drop => s[1] = a /\ t.state[s] = "pending"
    BY <2>1 DEF PendingSlots
  <2>4. t.job[s].running => Workers > 1
    <3>. SUFFICES ASSUME t.job[s].running PROVE Workers > 1
      OBVIOUS
    <3>1. s \in Busy(t)
      BY DEF Busy
    <3>2. Cardinality(Busy(t)) /= 0
      BY <3>1, BusyFinite, FS_EmptySet
    <3>. QED BY <1>2, <3>2, BusyFinite, WorkersAssumption DEF HasRoom
  <2>5. CASE s \in c.start
    <3>1. u.state[s] = "running" /\ u.job[s].seen = t.saved[s[2]]
      BY <2>2, <2>5
    <3>2. Follows(t, u, s) /\ ~ Stray(u, s)
      BY <2>2, <3>1 DEF Follows, Reads, Held, Stray
    <3>. QED BY <2>3, <2>5, <3>2
  <2>6. CASE s \notin c.start /\ s \in c.drop
    <3>1. u.state[s] = "absent" /\ u.job[s] = t.job[s] /\ t.state[s] = "pending"
      BY <2>2, <2>3, <2>6
    <3>2. Follows(t, u, s) /\ (Stray(u, s) => Workers > 1)
      BY <2>2, <2>4, <3>1 DEF Follows, Reads, Held, Stray
    <3>. QED BY <2>3, <2>6, <3>2
  <2>7. CASE s \notin c.start /\ s \notin c.drop
    <3>1. SameSlot(t, u, s)
      BY <2>2, <2>7 DEF SameSlot
    <3>2. t.state[s] = "pending" => ~ Stray(u, s)
      BY <3>1 DEF SameSlot, Stray
    <3>. QED BY <2>2, <3>1, <3>2, SameFollows
  <2>. QED BY <2>5, <2>6, <2>7
<1>. QED BY <1>1, <1>2

\* The entry of a slot is written: the other slots are left alone.
LEMMA WriteState ==
  ASSUME NEW t, TableOK(t), NEW r \in Slots, NEW v \in States, NEW s \in Slots
  PROVE  /\ WithState(t, r, v).saved = t.saved
         /\ WithState(t, r, v).job = t.job
         /\ WithState(t, r, v).state[s] = IF r = s THEN v ELSE t.state[s]
BY DEF WithState, TableOK, Tables

\* Scheduling: slots follow, those of the other analyzer are left alone, and
\* the slot that was scheduled is stray only beside a free worker.
LEMMA ScheduleFollows ==
  ASSUME NEW t, TableOK(t), NEW a, NEW p \in Projects,
         NEW u \in Schedule(t, a, p), NEW s \in Slots
  PROVE  /\ Follows(t, u, s)
         /\ s[1] /= a => SameSlot(t, u, s)
         /\ s = <<a, p>> => (Stray(u, s) => Workers > 1)
<1>1. CASE a \notin Enabled \/ t.state[<<a, p>>] /= "absent"
  <2>1. u = t
    BY <1>1 DEF Schedule
  <2>2. SameSlot(t, u, s) /\ u.saved = t.saved
    BY <2>1 DEF SameSlot
  <2>3. s = <<a, p>> => a \in Enabled
    BY DEF Slots
  <2>4. s = <<a, p>> => ~ Stray(u, s)
    BY <1>1, <2>1, <2>3 DEF Stray
  <2>. QED BY <2>2, <2>4, SameFollows
<1>2. CASE a \in Enabled /\ t.state[<<a, p>>] = "absent"
  <2>. DEFINE w == WithState(t, <<a, p>>, "pending")
  <2>1. <<a, p>> \in Slots
    BY <1>2 DEF Slots
  <2>2. TableOK(w)
    BY <2>1, WithStateOK DEF States
  <2>3. /\ w.saved = t.saved
        /\ w.job = t.job
        /\ w.state[s] = IF <<a, p>> = s THEN "pending" ELSE t.state[s]
    BY <2>1, WriteState DEF States
  <2>4. u \in StartPending(w, a)
    BY <1>2 DEF Schedule
  <2>. HIDE DEF w
  <2>5. /\ Follows(w, u, s)
        /\ s[1] /= a => SameSlot(w, u, s)
        /\ w.state[s] = "pending" => (Stray(u, s) => Workers > 1)
    BY <1>2, <2>2, <2>4, StartPendingFollows
  <2>6. CASE s = <<a, p>>
    <3>1. Follows(t, w, s)
      BY <1>2, <2>3, <2>6 DEF Follows, Reads, Held, Stray
    <3>2. s[1] = a
      BY <2>6
    <3>. QED BY <2>3, <2>5, <2>6, <3>1, <3>2, FollowsTrans
  <2>7. CASE s /= <<a, p>>
    <3>1. SameSlot(t, w, s)
      BY <2>3, <2>7 DEF SameSlot
    <3>2. Follows(t, w, s)
      BY <2>3, <3>1, SameFollows
    <3>3. s[1] /= a => SameSlot(t, u, s)
      BY <2>5, <3>1 DEF SameSlot
    <3>. QED BY <2>5, <2>7, <3>2, <3>3, FollowsTrans
  <2>. QED BY <2>6, <2>7
<1>. QED BY <1>1, <1>2

\* Scheduling both analyzers: slots follow.
LEMMA ScheduleAllFollows ==
  ASSUME NEW t, TableOK(t), NEW p \in Projects, NEW u \in ScheduleAll(t, p),
         NEW s \in Slots
  PROVE  Follows(t, u, s)
<1>1. PICK w \in Schedule(t, "phpstan", p) : u \in Schedule(w, "psalm", p)
  BY DEF ScheduleAll
<1>2. TableOK(w) /\ Follows(t, w, s)
  BY <1>1, ScheduleOK, ScheduleFollows
<1>3. Follows(w, u, s)
  BY <1>1, <1>2, ScheduleFollows
<1>. QED BY <1>2, <1>3, FollowsTrans

\* Rescheduling renews its slot, whatever it was; other slots follow, and
\* those of the other analyzer are left alone.
LEMMA RescheduleRenews ==
  ASSUME NEW t, TableOK(t), NEW a, NEW p \in Projects,
         NEW u \in Reschedule(t, a, p), NEW s \in Slots
  PROVE  /\ s = <<a, p>> => Renews(t, u, s)
         /\ s /= <<a, p>> => Follows(t, u, s)
         /\ s[1] /= a => SameSlot(t, u, s)
         /\ u.saved = t.saved
<1>1. CASE a \notin Enabled
  <2>1. u = t /\ s[1] /= a
    BY <1>1 DEF Reschedule, Slots
  <2>2. SameSlot(t, u, s) /\ u.saved = t.saved
    BY <2>1 DEF SameSlot
  <2>3. s /= <<a, p>>
    BY <2>1
  <2>. QED BY <2>2, <2>3, SameFollows
<1>2. CASE a \in Enabled /\ t.state[<<a, p>>] = "running"
  <2>. DEFINE w == WithState(t, <<a, p>>, "pending")
  <2>1. <<a, p>> \in Slots
    BY <1>2 DEF Slots
  <2>2. u = w
    BY <1>2 DEF Reschedule
  <2>3. /\ w.saved = t.saved
        /\ w.job = t.job
        /\ w.state[s] = IF <<a, p>> = s THEN "pending" ELSE t.state[s]
    BY <2>1, WriteState DEF States
  <2>. HIDE DEF w
  <2>4. s = <<a, p>> => Renews(t, w, s)
    BY <2>3 DEF Renews, Reads, Held, Stray
  <2>5. s /= <<a, p>> => SameSlot(t, w, s)
    BY <2>3 DEF SameSlot
  <2>6. s[1] /= a => s /= <<a, p>>
    OBVIOUS
  <2>. QED BY <2>2, <2>3, <2>4, <2>5, <2>6, SameFollows
<1>3. CASE a \in Enabled /\ t.state[<<a, p>>] /= "running"
  <2>. DEFINE w == WithState(t, <<a, p>>, "absent")
  <2>1. <<a, p>> \in Slots
    BY <1>3 DEF Slots
  <2>2. TableOK(w)
    BY <2>1, WithStateOK DEF States
  <2>3. u \in Schedule(w, a, p)
    BY <1>3 DEF Reschedule
  <2>4. /\ w.saved = t.saved
        /\ w.job = t.job
        /\ w.state[s] = IF <<a, p>> = s THEN "absent" ELSE t.state[s]
    BY <2>1, WriteState DEF States
  <2>. HIDE DEF w
  <2>5. /\ Follows(w, u, s)
        /\ s[1] /= a => SameSlot(w, u, s)
        /\ s = <<a, p>> => (Stray(u, s) => Workers > 1)
    BY <2>2, <2>3, ScheduleFollows
  <2>6. CASE s = <<a, p>>
    <3>1. w.state[s] = "absent" /\ w.job[s] = t.job[s]
      BY <2>4, <2>6
    <3>2. Reads(w, s) /\ (Held(w, s) => t.job[s].running)
      BY <3>1 DEF Reads, Held
    <3>3. Renews(t, u, s)
      BY <2>4, <2>5, <2>6, <3>1, <3>2 DEF Renews, Follows
    <3>4. s[1] = a
      BY <2>6
    <3>. QED BY <2>6, <3>3, <3>4 DEF Renews
  <2>7. CASE s /= <<a, p>>
    <3>1. SameSlot(t, w, s)
      BY <2>4, <2>7 DEF SameSlot
    <3>2. Follows(t, w, s)
      BY <2>4, <3>1, SameFollows
    <3>3. Follows(t, u, s)
      BY <2>5, <3>2, FollowsTrans
    <3>4. s[1] /= a => SameSlot(t, u, s)
      BY <2>5, <3>1 DEF SameSlot
    <3>. QED BY <2>7, <3>3, <3>4 DEF Follows
  <2>. QED BY <2>6, <2>7
<1>. QED BY <1>1, <1>2, <1>3

\* Rescheduling both analyzers renews every slot of the project.
LEMMA RescheduleAllRenews ==
  ASSUME NEW t, TableOK(t), NEW p \in Projects, NEW u \in RescheduleAll(t, p),
         NEW s \in Slots
  PROVE  IF s[2] = p THEN Renews(t, u, s) ELSE Follows(t, u, s)
<1>1. PICK w \in Reschedule(t, "phpstan", p) : u \in Reschedule(w, "psalm", p)
  BY DEF RescheduleAll
<1>2. TableOK(w)
  BY <1>1, RescheduleOK
<1>3. /\ s = <<"phpstan", p>> => Renews(t, w, s)
      /\ s /= <<"phpstan", p>> => Follows(t, w, s)
      /\ s[1] /= "phpstan" => SameSlot(t, w, s)
      /\ w.saved = t.saved
  BY <1>1, RescheduleRenews
<1>4. /\ s = <<"psalm", p>> => Renews(w, u, s)
      /\ s /= <<"psalm", p>> => Follows(w, u, s)
  BY <1>1, <1>2, RescheduleRenews
<1>5. PICK a \in Enabled, q \in Projects : s = <<a, q>>
  BY DEF Slots
<1>6. (a = "phpstan" \/ a = "psalm") /\ s[1] = a /\ s[2] = q
  BY <1>5, EnabledAssumption
<1>7. CASE s[2] = p /\ a = "phpstan"
  <2>1. Renews(t, w, s) /\ Follows(w, u, s)
    BY <1>3, <1>4, <1>5, <1>6, <1>7
  <2>. QED BY <1>7, <2>1, RenewsFollows
<1>8. CASE s[2] = p /\ a = "psalm"
  <2>1. SameSlot(t, w, s) /\ w.saved = t.saved /\ Renews(w, u, s)
    BY <1>3, <1>4, <1>5, <1>6, <1>8
  <2>2. Renews(t, u, s)
    BY <2>1 DEF Renews, SameSlot
  <2>. QED BY <1>8, <2>2
<1>9. CASE s[2] /= p
  <2>1. Follows(t, w, s) /\ Follows(w, u, s)
    BY <1>3, <1>4, <1>5, <1>6, <1>9
  <2>. QED BY <1>9, <2>1, FollowsTrans
<1>. QED BY <1>6, <1>7, <1>8, <1>9

-----------------------------------------------------------------------------
\* What a step does to a slot: a run that counts still reads the last save, and
\* the slot does what the property says.
Sound(s) ==
    /\ Reads(Now, s)'
    /\ Outdated(s)' => Outdated(s) \/ Unmarked(s)
    /\ Unmarked(s)' => job[s].running /\ Workers > 1

\* A step that leaves table u behind, the files of a slot as they were, and in
\* which the slot follows, is sound there.
LEMMA FollowsSound ==
  ASSUME RunsInv, NEW u, Now' = u, NEW s \in Slots, Follows(Now, u, s),
         file'[s] = file[s]
  PROVE  Sound(s)
<1>. USE DEF Now
<1>1. Reads(Now, s)'
  BY DEF Follows, RunsInv, Reads
<1>2. Outdated(s)' => Outdated(s)
  BY DEF Follows, Outdated
<1>3. Unmarked(s)' => job[s].running /\ Workers > 1
  BY DEF Follows, RunsInv, Unmarked, Held, Stray
<1>. QED BY <1>1, <1>2, <1>3 DEF Sound

\* A step that leaves a table behind that was renewed, from one with the same
\* job in the slot, is sound there.
LEMMA RenewsSound ==
  ASSUME NEW t, NEW u, Now' = u, NEW s \in Slots, Renews(t, u, s),
         t.job[s] = job[s]
  PROVE  Sound(s)
<1>. USE DEF Now
<1>1. Reads(Now, s)'
  BY DEF Renews, Reads
<1>2. ~ Outdated(s)'
  BY DEF Renews, Outdated
<1>3. Unmarked(s)' => job[s].running /\ Workers > 1
  BY DEF Renews, Unmarked, Held, Stray
<1>. QED BY <1>1, <1>2, <1>3 DEF Sound

\* Every step is sound for every slot.
LEMMA RunsNext ==
  ASSUME JobsInv, RunsInv, [Next]_vars
  PROVE  \A s \in Slots : Sound(s)
<1>. DEFINE AllSound == \A s \in Slots : Sound(s)
<1>1. TableOK(Now) /\ TypeOK
  BY DEF JobsInv
<1>2. ASSUME NEW u, TableOK(u), Becomes(u)
      PROVE  Now' = u
  <2>1. u = [state |-> u.state, job |-> u.job, saved |-> u.saved]
    BY <1>2 DEF TableOK, Tables
  <2>. QED BY <1>2, <2>1 DEF Becomes, Now
<1>3. ASSUME NEW p \in Projects,
             \E u \in ScheduleAll(Now, p) : Becomes(u), file' = file
      PROVE  AllSound
  <2>1. PICK u \in ScheduleAll(Now, p) : Becomes(u)
    BY <1>3
  <2>2. TableOK(u)
    BY <1>1, <2>1, ScheduleAllOK
  <2>3. Now' = u
    BY <1>2, <2>1, <2>2
  <2>. QED BY <1>1, <1>3, <2>1, <2>3, ScheduleAllFollows, FollowsSound
<1>4. ASSUME NEW p \in Projects, NEW b \in BOOLEAN, Save(p, b)
      PROVE  AllSound
  <2>. DEFINE bumped == [Now EXCEPT !.saved[p] = @ + 1]
  <2>1. PICK t \in RescheduleAll(bumped, p) :
          \E u \in ScheduleAll(t, p) : Becomes(u)
    BY <1>4 DEF Save
  <2>2. PICK u \in ScheduleAll(t, p) : Becomes(u)
    BY <2>1
  <2>3. /\ TableOK(bumped)
        /\ bumped.state = Now.state
        /\ bumped.job = Now.job
        /\ bumped.saved = [Now.saved EXCEPT ![p] = @ + 1]
    BY <1>1, SavedOK
  <2>. HIDE DEF bumped
  <2>4. TableOK(t)
    BY <2>1, <2>3, RescheduleAllOK
  <2>5. TableOK(u)
    BY <2>2, <2>4, ScheduleAllOK
  <2>6. Now' = u /\ file' = file
    BY <1>2, <1>4, <2>2, <2>5 DEF Save
  <2>7. ASSUME NEW s \in Slots PROVE Sound(s)
    <3>1. IF s[2] = p THEN Renews(bumped, t, s) ELSE Follows(bumped, t, s)
      BY <2>1, <2>3, RescheduleAllRenews
    <3>2. Follows(t, u, s)
      BY <2>2, <2>4, ScheduleAllFollows
    <3>3. CASE s[2] = p
      <4>1. Renews(bumped, u, s)
        BY <3>1, <3>2, <3>3, RenewsFollows
      <4>2. bumped.job[s] = job[s]
        BY <2>3 DEF Now
      <4>. QED BY <2>6, <4>1, <4>2, RenewsSound
    <3>4. CASE s[2] /= p
      <4>1. Follows(bumped, u, s)
        BY <3>1, <3>2, <3>4, FollowsTrans
      <4>2. u.saved = bumped.saved
        BY <4>1 DEF Follows
      <4>3. bumped.saved[s[2]] = saved[s[2]]
        BY <1>1, <2>3, <3>4 DEF TypeOK, Now, Slots
      <4>4. saved'[s[2]] = saved[s[2]]
        BY <2>6, <4>2, <4>3 DEF Now
      <4>5. bumped.state[s] = state[s] /\ bumped.job[s] = job[s]
        BY <2>3 DEF Now
      <4>6. state' = u.state /\ job' = u.job /\ saved' = u.saved
        BY <2>6 DEF Now
      <4>7. Reads(Now, s)'
        BY <4>1, <4>3, <4>5, <4>6 DEF Follows, Reads, RunsInv, Now
      <4>8. Outdated(s)' => Outdated(s)
        BY <2>6, <4>1, <4>4, <4>5, <4>6 DEF Follows, Outdated
      <4>9. Unmarked(s)' => job[s].running /\ Workers > 1
        BY <4>1, <4>5, <4>6 DEF Follows, RunsInv, Unmarked, Held, Stray, Now
      <4>. QED BY <4>7, <4>8, <4>9 DEF Sound
    <3>. QED BY <3>3, <3>4
  <2>. QED BY <2>7
<1>5. ASSUME NEW s \in Slots, ProcessExit(s) PROVE AllSound
  <2>1. PICK e \in Exits, n \in job[s].seen .. saved[s[2]] :
          job' = [job EXCEPT ![s] = [running |-> TRUE, exit |-> e, seen |-> n]]
    BY <1>5 DEF ProcessExit
  <2>2. job[s].seen \in Nat /\ saved[s[2]] \in Nat /\ job[s].running
    BY <1>1, <1>5 DEF ProcessExit, TypeOK, Jobs, Slots
  <2>3. UNCHANGED <<state, saved, file>>
    BY <1>5 DEF ProcessExit
  <2>4. job'[s] = [running |-> TRUE, exit |-> e, seen |-> n]
    BY <1>1, <2>1 DEF TypeOK
  <2>5. \A r \in Slots : r /= s => job'[r] = job[r]
    BY <1>1, <2>1 DEF TypeOK
  <2>6. ASSUME NEW r \in Slots PROVE Sound(r)
    <3>1. job'[r].running => job[r].running
      <4>1. CASE r = s
        BY <2>2, <4>1
      <4>2. CASE r /= s
        BY <2>5, <4>2
      <4>. QED BY <4>1, <4>2
    <3>2. Reads(Now, r)'
      <4>1. state[r] = "running" => job[r].seen = saved[r[2]]
        BY DEF RunsInv, Reads, Now
      <4>2. state[r] = "running" => job'[r].seen = saved[r[2]]
        BY <2>2, <2>4, <2>5, <4>1
      <4>. QED BY <2>3, <4>2 DEF Reads, Now
    <3>3. Outdated(r)' => Outdated(r)
      BY <2>3 DEF Outdated
    <3>4. Unmarked(r)' => job[r].running /\ Workers > 1
      BY <2>3, <3>1 DEF Unmarked, RunsInv, Stray, Now
    <3>. QED BY <3>2, <3>3, <3>4 DEF Sound
  <2>. QED BY <2>6
<1>6. ASSUME NEW s \in Slots, Reap(s) PROVE AllSound
  <2>0. s[1] \in Enabled /\ s[2] \in Projects /\ job[s].running
    BY <1>6 DEF Slots, Reap
  <2>1. CASE DiscardRun(s)
    <3>. DEFINE cleared == [Now EXCEPT !.job[s] = NoJob]
    <3>1. PICK u \in StartPending(cleared, s[1]) : Becomes(u)
      BY <2>1 DEF DiscardRun
    <3>2. /\ cleared \in Tables
          /\ Cardinality(Busy(cleared)) <= Workers
          /\ cleared.state = state
          /\ cleared.saved = saved
          /\ \A r \in Slots : cleared.job[r] = IF r = s THEN NoJob ELSE job[r]
      BY <1>1, ClearedOK DEF Now
    <3>3. state[s] = "pending" /\ file' = file
      BY <2>1 DEF DiscardRun
    <3>. HIDE DEF cleared
    <3>4. TableOK(cleared)
      BY <1>1, <3>2, <3>3 DEF TableOK, NoJob, Now
    <3>5. TableOK(u)
      BY <2>0, <3>1, <3>4, StartPendingOK
    <3>6. Now' = u
      BY <1>2, <3>1, <3>5
    <3>7. ASSUME NEW r \in Slots PROVE Sound(r)
      <4>1. Follows(Now, cleared, r)
        BY <3>2, <3>3 DEF Follows, Reads, Held, Stray, NoJob, Now
      <4>2. Follows(cleared, u, r)
        BY <2>0, <3>1, <3>4, StartPendingFollows
      <4>. QED BY <3>3, <3>6, <4>1, <4>2, FollowsTrans, FollowsSound
    <3>. QED BY <3>7
  <2>2. CASE SettleRun(s)
    <3>. DEFINE verdict == IF job[s].exit = "json" THEN "ready" ELSE "error"
                settled == WithState([Now EXCEPT !.job[s] = NoJob], s, verdict)
                files   == Commit(file, s, job[s])
    <3>0. PICK t \in (IF s[2] \in open THEN ScheduleAll(settled, s[2])
                                       ELSE {settled}) :
            \E u \in StartPending(t, s[1]) : Becomes(u)
      BY <2>2 DEF SettleRun
    <3>1. PICK u \in StartPending(t, s[1]) : Becomes(u)
      BY <3>0
    <3>2. /\ TableOK(settled)
          /\ settled.saved = saved
          /\ \A r \in Slots :
               /\ settled.job[r] = IF r = s THEN NoJob ELSE job[r]
               /\ settled.state[r] = IF r = s THEN verdict ELSE state[r]
      BY <1>1, SettledOK DEF Now
    <3>3. /\ \A r \in Slots : r /= s => files[r] = file[r]
          /\ job[s].exit = "json" => files[s].seen = job[s].seen
      BY <1>1 DEF Commit, TypeOK
    <3>4. file' = files /\ state[s] /= "pending"
      BY <2>2 DEF SettleRun
    <3>. HIDE DEF settled, files
    <3>5. TableOK(t) /\ \A r \in Slots : Follows(settled, t, r)
      <4>1. CASE s[2] \in open
        BY <2>0, <3>0, <3>2, <4>1, ScheduleAllOK, ScheduleAllFollows
      <4>2. CASE s[2] \notin open
        <5>1. t = settled
          BY <3>0, <4>2
        <5>. QED BY <3>2, <5>1 DEF Follows
      <4>. QED BY <4>1, <4>2
    <3>6. TableOK(u)
      BY <2>0, <3>1, <3>5, StartPendingOK
    <3>7. Now' = u
      BY <1>2, <3>1, <3>6
    <3>8. \A r \in Slots : Follows(settled, u, r)
      BY <2>0, <3>1, <3>5, StartPendingFollows, FollowsTrans
    <3>9. ASSUME NEW r \in Slots, r /= s PROVE Sound(r)
      <4>1. SameSlot(Now, settled, r) /\ settled.saved = Now.saved
        BY <3>2, <3>9 DEF SameSlot, Now
      <4>2. Follows(Now, u, r)
        BY <3>8, <4>1, SameFollows, FollowsTrans
      <4>3. file'[r] = file[r]
        BY <3>3, <3>4, <3>9
      <4>. QED BY <3>7, <4>2, <4>3, FollowsSound
    <3>10. Sound(s)
      <4>1. settled.state[s] = verdict /\ ~ settled.job[s].running
        BY <3>2 DEF NoJob
      <4>2. Follows(settled, u, s)
        BY <3>8
      <4>3. verdict /= "running"
        OBVIOUS
      <4>4. state' = u.state /\ job' = u.job /\ saved' = u.saved
        BY <3>7 DEF Now
      <4>5. Reads(Now, s)'
        <5>1. Reads(settled, s)
          BY <4>1, <4>3 DEF Reads
        <5>. QED BY <3>7, <4>2, <5>1 DEF Follows, Reads
      <4>6. ~ Unmarked(s)'
        BY <4>1, <4>2, <4>4 DEF Follows, Held, Unmarked
      <4>7. ASSUME Outdated(s)' PROVE Unmarked(s)
        <5>1. settled.state[s] = "ready" /\ u.saved = saved
          BY <3>2, <4>2, <4>4, <4>7 DEF Follows, Outdated
        <5>2. job[s].exit = "json"
          BY <4>1, <5>1
        <5>3. file'[s].seen = job[s].seen /\ saved' = saved
          BY <3>3, <3>4, <4>4, <5>1, <5>2
        <5>4. job[s].seen /= saved[s[2]]
          BY <4>7, <5>3 DEF Outdated
        <5>5. state[s] /= "running"
          BY <5>4 DEF RunsInv, Reads, Now
        <5>6. state[s] \notin {"ready", "error"} /\ state[s] \in States
          BY <1>1, <2>0 DEF TableOK, TypeOK, Now
        <5>. QED BY <2>0, <3>4, <5>5, <5>6 DEF States, Unmarked
      <4>. QED BY <4>5, <4>6, <4>7 DEF Sound
    <3>. QED BY <3>9, <3>10
  <2>. QED BY <1>6, <2>1, <2>2 DEF Reap
<1>7. CASE Restart
  <2>1. \A s \in Slots : state'[s] = "absent" /\ ~ job'[s].running
    BY <1>7 DEF Restart, NoJob
  <2>. QED BY <2>1 DEF Sound, Reads, Outdated, Unmarked, Now
<1>8. CASE UNCHANGED <<state, job, saved, file>>
  BY <1>8 DEF RunsInv, Sound, Reads, Outdated, Unmarked, Stray, Now
<1>9. ASSUME NEW p \in Projects, NEW b \in BOOLEAN,
             SupersededChange(p, b) \/ Close(p)
      PROVE  AllSound
  BY <1>8, <1>9 DEF SupersededChange, Close
<1>10. ASSUME NEW p \in Projects, NEW b \in BOOLEAN,
              Scan(p) \/ OpenOrChange(p, b)
       PROVE  AllSound
  BY <1>3, <1>10 DEF Scan, OpenOrChange
<1>11. CASE UNCHANGED vars
  BY <1>8, <1>11 DEF vars
<1>12. CASE Next
  BY <1>4, <1>5, <1>6, <1>7, <1>9, <1>10, <1>12 DEF Next, Edit
<1>. QED BY <1>11, <1>12

\* For any number of projects and workers and both analyzers, a project is
\* reported as ready with diagnostics older than its last save only when its run
\* had lost its mark, which no run does unless there is a second worker. With
\* one worker, what is ready is of the last save.
THEOREM OutdatedOnlyAfterLoss == Spec => OutdatedOnlyIfUnmarked
<1>1. Init => RunsInv
  BY DEF Init, RunsInv, Reads, Stray, Now, NoJob
<1>2. JobsInv /\ RunsInv /\ [Next]_vars => RunsInv'
  BY RunsNext DEF Sound, RunsInv, Unmarked, Stray, Now
<1>3. JobsInv /\ RunsInv /\ [Next]_vars
        => [\A s \in Slots :
              /\ ~ Outdated(s) /\ Outdated(s)' => Unmarked(s)
              /\ Unmarked(s)' => job[s].running /\ Workers > 1]_vars
  BY RunsNext DEF Sound
<1>. QED BY <1>1, <1>2, <1>3, JobsInvariant, PTL DEF Spec, OutdatedOnlyIfUnmarked

-----------------------------------------------------------------------------
\* The strengthening of ShownIsCommitted: a closed document shows nothing, so a
\* document that a superseded change opens has nothing stale on the screen.
ShownInv ==
    \A p \in Projects : shown[p].analyzers =>
      /\ p \in open
      /\ \A a \in Enabled : shown[p].out[a] = file[<<a, p>>]

\* Publishing the document of an open project shows the files given.
LEMMA PublishedShows ==
  ASSUME NEW p, NEW b \in BOOLEAN, NEW f, Published(p, b, f).analyzers
  PROVE  \A a \in Enabled : Published(p, b, f).out[a] = f[<<a, p>>]
BY DEF Published, Cached

\* Every step keeps the screen in agreement with the files.
LEMMA ShownNext ==
  ASSUME TypeOK, ShownInv, [Next]_vars
  PROVE  ShownInv'
<1>1. ASSUME NEW p \in Projects, NEW b \in BOOLEAN, p \in open',
             open \subseteq open', file' = file,
             shown' = [shown EXCEPT ![p] = Published(p, b, file)]
      PROVE  ShownInv'
  <2>. SUFFICES ASSUME NEW q \in Projects, shown'[q].analyzers
                PROVE  /\ q \in open'
                       /\ \A a \in Enabled : shown'[q].out[a] = file'[<<a, q>>]
    BY DEF ShownInv
  <2>1. CASE q = p
    BY <1>1, <2>1, PublishedShows DEF TypeOK
  <2>2. CASE q /= p
    BY <1>1, <2>2 DEF TypeOK, ShownInv
  <2>. QED BY <2>1, <2>2
<1>2. ASSUME NEW p \in Projects, NEW b \in BOOLEAN,
             OpenOrChange(p, b) \/ Save(p, b)
      PROVE  ShownInv'
  BY <1>1, <1>2 DEF OpenOrChange, Save
<1>3. ASSUME UNCHANGED <<shown, file>>, open \subseteq open'
      PROVE  ShownInv'
  BY <1>3 DEF ShownInv
<1>4. ASSUME NEW p \in Projects, Close(p) PROVE ShownInv'
  <2>1. /\ file' = file
        /\ open' = open \ {p}
        /\ \A q \in Projects : shown'[q] = IF q = p THEN NoView ELSE shown[q]
    BY <1>4 DEF Close, TypeOK
  <2>. QED BY <2>1 DEF ShownInv, NoView
<1>5. ASSUME NEW s \in Slots, Reap(s) PROVE ShownInv'
  <2>1. CASE DiscardRun(s)
    BY <1>3, <1>5, <2>1 DEF DiscardRun, Reap
  <2>2. CASE SettleRun(s)
    <3>. DEFINE files == Commit(file, s, job[s])
                b     == s[2] \in clean
    <3>1. /\ file' = files
          /\ shown' = Republish(s, files)
          /\ open' = open
      BY <1>5, <2>2 DEF SettleRun, Reap
    <3>2. s[2] \in Projects /\ \A r \in Slots : r /= s => files[r] = file[r]
      BY DEF Commit, TypeOK, Slots
    <3>3. b \in BOOLEAN
      OBVIOUS
    <3>4. /\ s[2] \in open => shown' = [shown EXCEPT ![s[2]] = Published(s[2], b, files)]
          /\ s[2] \notin open => shown' = shown
      BY <3>1 DEF Republish
    <3>. HIDE DEF files, b
    <3>. SUFFICES ASSUME NEW q \in Projects, shown'[q].analyzers
                  PROVE  /\ q \in open'
                         /\ \A a \in Enabled : shown'[q].out[a] = file'[<<a, q>>]
      BY DEF ShownInv
    <3>5. CASE q /= s[2]
      <4>1. shown'[q] = shown[q]
        BY <3>2, <3>4, <3>5 DEF TypeOK
      <4>2. \A a \in Enabled : files[<<a, q>>] = file[<<a, q>>]
        BY <3>2, <3>5 DEF Slots
      <4>. QED BY <3>1, <4>1, <4>2 DEF ShownInv
    <3>6. CASE q = s[2] /\ q \in open
      <4>1. shown'[q] = Published(q, b, files)
        BY <3>2, <3>4, <3>6 DEF TypeOK
      <4>. QED BY <3>1, <3>3, <3>6, <4>1, PublishedShows
    <3>7. CASE q = s[2] /\ q \notin open
      BY <3>4, <3>7 DEF ShownInv
    <3>. QED BY <3>5, <3>6, <3>7
  <2>. QED BY <1>5, <2>1, <2>2 DEF Reap
<1>6. CASE Restart
  BY <1>6 DEF Restart, ShownInv, NoView
<1>7. ASSUME NEW p \in Projects, NEW b \in BOOLEAN,
             Scan(p) \/ SupersededChange(p, b)
      PROVE  ShownInv'
  BY <1>3, <1>7 DEF Scan, SupersededChange
<1>8. ASSUME NEW s \in Slots, ProcessExit(s) PROVE ShownInv'
  BY <1>3, <1>8 DEF ProcessExit
<1>9. CASE UNCHANGED vars
  BY <1>3, <1>9 DEF vars
<1>10. CASE Next
  BY <1>2, <1>4, <1>5, <1>6, <1>7, <1>8, <1>10 DEF Next, Edit
<1>. QED BY <1>9, <1>10

\* For every worker budget and any interleaving of runs, edits and restarts,
\* analyzer diagnostics on the screen are those of the committed file.
THEOREM ScreenAgrees == Spec => []ShownIsCommitted
<1>1. Init => ShownInv
  BY DEF Init, ShownInv, NoView
<1>2. TypeOK /\ ShownInv /\ [Next]_vars => ShownInv'
  BY ShownNext
<1>3. TypeOK /\ ShownInv => ShownIsCommitted
  BY DEF ShownInv, ShownIsCommitted, TypeOK
<1>. QED BY <1>1, <1>2, <1>3, TypeCorrect, PTL DEF Spec
=============================================================================
