------------------------- MODULE TypeQueriesProofs -------------------------
(***************************************************************************)
(* What holds of TypeQueries for every set of expressions, either analyzer *)
(* and any number of versions and jobs.                                    *)
(*                                                                         *)
(* The answers come back in the order of the jobs, but what waits for them *)
(* changes meanwhile, so the invariants follow a job by its id through the *)
(* pipe to the runner, the runner and the pipe back.                       *)
(***************************************************************************)
EXTENDS TypeQueries, SequenceTheorems, TLAPS

-----------------------------------------------------------------------------
\* Sequences: what an element of a tail or of an extended sequence is.

\* The first element of a sequence and those behind it.
LEMMA TailElements ==
  ASSUME NEW S, NEW s \in Seq(S), s /= <<>>
  PROVE  /\ Tail(s) \in Seq(S)
         /\ 1 \in DOMAIN s /\ Head(s) = s[1] /\ Head(s) \in S
         /\ \A i \in DOMAIN Tail(s) :
              i + 1 \in DOMAIN s /\ i + 1 /= 1 /\ Tail(s)[i] = s[i + 1]
OBVIOUS

\* An element of an extended sequence was in it before or is the new one.
LEMMA AppendElements ==
  ASSUME NEW S, NEW s \in Seq(S), NEW x \in S
  PROVE  /\ Append(s, x) \in Seq(S)
         /\ \A i \in DOMAIN Append(s, x) :
              \/ i \in DOMAIN s /\ Append(s, x)[i] = s[i]
              \/ i = Len(s) + 1 /\ i \notin DOMAIN s /\ Append(s, x)[i] = x
OBVIOUS

-----------------------------------------------------------------------------
\* The operators.

\* A verdict is an entry of the type cache.
LEMMA VerdictsTyped ==
  ASSUME NEW e \in Exprs, NEW f \in Files
  PROVE  Verdicts(e, f) \subseteq Entries
BY DEF Verdicts, Entries, TypeOf

\* A verdict that is a type is the type of what the file held.
LEMMA VerdictsOfFile ==
  ASSUME NEW e \in Exprs, NEW f \in Files, NEW v \in Verdicts(e, f), v.kind = "type"
  PROVE  /\ f \in Probes /\ v.of = f
         /\ Analyzer = "psalm" => f.expr = e
BY DEF Verdicts, Entry, TypeOf

\* What an answer nobody waits for may change.
LEMMA ResolveEffect ==
  ASSUME TypeOK, NEW f \in Frames, Resolve(f)
  PROVE  /\ cache' \in [Exprs -> Entries]
         /\ shadow' \in [Versions -> Files]
         /\ \A v \in Versions : shadow'[v] \in {shadow[v], NoFile}
         /\ pending' \subseteq pending
         /\ \A d \in pending : d \in pending' \/ (d.id = f.id /\ shadow'[d.file] = NoFile)
<1>1. CASE UNCHANGED <<cache, shadow, pending>>
  BY <1>1 DEF TypeOK
<1>2. ASSUME NEW d \in pending, d.id = f.id,
             NEW v \in Verdicts(d.expr, f.output),
             cache' = [cache EXCEPT ![d.expr] = v],
             shadow' = [shadow EXCEPT ![d.file] = NoFile],
             pending' = pending \ {d}
      PROVE  /\ cache' \in [Exprs -> Entries]
             /\ shadow' \in [Versions -> Files]
             /\ \A w \in Versions : shadow'[w] \in {shadow[w], NoFile}
             /\ pending' \subseteq pending
             /\ \A c \in pending :
                  c \in pending' \/ (c.id = f.id /\ shadow'[c.file] = NoFile)
  <2>1. d.expr \in Exprs /\ d.file \in Versions /\ f.output \in Files
    BY DEF TypeOK, Parked, Frames
  <2>2. v \in Entries
    BY <2>1, VerdictsTyped
  <2>3. NoFile \in Files
    BY DEF Files
  <2>4. cache' \in [Exprs -> Entries]
    BY <1>2, <2>2 DEF TypeOK
  <2>5. /\ shadow' \in [Versions -> Files]
        /\ \A w \in Versions : shadow'[w] \in {shadow[w], NoFile}
        /\ shadow'[d.file] = NoFile
    BY <1>2, <2>1, <2>3 DEF TypeOK
  <2>. QED BY <1>2, <2>4, <2>5
<1>. QED BY <1>1, <1>2 DEF Resolve

\* What the end of a query changes.
LEMMA FinishEffect ==
  ASSUME TypeOK, NEW e \in Exprs, NEW f \in Files, NEW files \in [Versions -> Files],
         Finish(e, f, files)
  PROVE  /\ cache' \in [Exprs -> Entries]
         /\ cache'[e] \in Verdicts(e, f)
         /\ \A d \in Exprs : d /= e => cache'[d] = cache[d]
         /\ shadow' \in [Versions -> Files]
         /\ \A v \in Versions : shadow'[v] = IF v = version THEN NoFile ELSE files[v]
         /\ query' = NoQuery
<1>1. PICK v \in Verdicts(e, f) : cache' = [cache EXCEPT ![e] = v]
  BY DEF Finish
<1>2. v \in Entries
  BY VerdictsTyped
<1>3. NoFile \in Files
  BY DEF Files
<1>4. shadow' = [files EXCEPT ![version] = NoFile] /\ query' = NoQuery
  BY DEF Finish
<1>. QED BY <1>1, <1>2, <1>3, <1>4 DEF TypeOK

\* Writing a shadow file and dropping a session leave shadow files.
LEMMA FilesTyped ==
  ASSUME TypeOK
  PROVE  /\ \A e \in Exprs : Written(e) \in [Versions -> Files]
         /\ \A files \in [Versions -> Files] : Dropped(files) \in [Versions -> Files]
<1>1. ASSUME NEW e \in Exprs
      PROVE  Written(e) \in [Versions -> Files]
  BY DEF Written, TypeOK, Files, Probes
<1>2. ASSUME NEW files \in [Versions -> Files]
      PROVE  Dropped(files) \in [Versions -> Files]
  BY DEF Dropped, Files
<1>. QED BY <1>1, <1>2

\* What ends with a dropped session.
LEMMA DropEffect ==
  ASSUME TypeOK, DropSession
  PROVE  /\ session' \in {"none", "live", "dead"}
         /\ nextId' \in 1 .. MaxJobs + 1
         /\ jobs' = <<>> /\ frames' = <<>> /\ running' = Resting
         /\ pending' = {}
         /\ jobs' \in Seq(Jobs) /\ frames' \in Seq(Frames) /\ pending' \subseteq Parked
BY LimitAssumption DEF DropSession

-----------------------------------------------------------------------------
\* Types.

\* Every step keeps the types.
LEMMA TypeStep == TypeOK /\ [Next]_vars => TypeOK'
<1>. SUFFICES ASSUME TypeOK, [Next]_vars PROVE TypeOK'
  OBVIOUS
<1>0. NoFile \in Files /\ Absent \in Entries /\ NoQuery \in {NoQuery}
  BY DEF Files, Absent, Entries
<1>1. CASE Change
  <2>1. version' \in Versions
    BY <1>1, LimitAssumption DEF Change, TypeOK, Versions
  <2>. QED BY <1>1, <2>1 DEF Change, TypeOK, runner
<1>2. CASE Save
  BY <1>2, <1>0 DEF Save, TypeOK, runner
<1>3. ASSUME NEW e \in Exprs, QuerySent(e) PROVE TypeOK'
  <2>1. Written(e) \in [Versions -> Files]
    BY FilesTyped
  <2>2. nextId \in 1 .. MaxJobs /\ nextId + 1 \in 1 .. MaxJobs + 1
    BY <1>3, LimitAssumption DEF QuerySent, TypeOK
  <2>3. [id |-> nextId, file |-> version] \in Jobs
    BY <2>2 DEF Jobs, TypeOK
  <2>4. jobs' \in Seq(Jobs)
    BY <1>3, <2>3, AppendElements DEF QuerySent, TypeOK
  <2>. QED BY <1>3, <1>0, <2>1, <2>2, <2>4 DEF QuerySent, TypeOK
<1>4. ASSUME NEW e \in Exprs, QueryUnstarted(e) PROVE TypeOK'
  <2>1. Written(e) \in [Versions -> Files] /\ Written(e)[version] \in Files
    BY FilesTyped DEF TypeOK
  <2>2. cache' \in [Exprs -> Entries] /\ shadow' \in [Versions -> Files] /\ query' = NoQuery
    BY <1>4, <2>1, FinishEffect DEF QueryUnstarted, OneShot
  <2>. QED BY <1>4, <2>2 DEF QueryUnstarted, TypeOK, runner
<1>5. ASSUME NEW e \in Exprs, QueryUnsent(e) PROVE TypeOK'
  <2>1. Dropped(Written(e)) \in [Versions -> Files] /\ Dropped(Written(e))[version] \in Files
    BY FilesTyped DEF TypeOK
  <2>2. cache' \in [Exprs -> Entries] /\ shadow' \in [Versions -> Files] /\ query' = NoQuery
    BY <1>5, <2>1, FinishEffect DEF QueryUnsent, OneShot
  <2>. QED BY <1>5, <2>2, DropEffect DEF QueryUnsent, TypeOK
<1>6. ASSUME NEW e \in Exprs, Expire(e) PROVE TypeOK'
  <2>1. Entry("overdue") \in Entries
    BY DEF Entries
  <2>. QED BY <1>6, <2>1 DEF Expire, TypeOK, runner
<1>7. CASE WaitMatched
  <2>1. Head(frames) \in Frames /\ frames' \in Seq(Frames)
    BY <1>7, TailElements DEF WaitMatched, TypeOK
  <2>2. Head(frames).output \in Files /\ query.expr \in Exprs
    BY <1>7, <2>1 DEF WaitMatched, TypeOK, Frames, Idle
  <2>3. cache' \in [Exprs -> Entries] /\ shadow' \in [Versions -> Files] /\ query' = NoQuery
    BY <1>7, <2>2, FinishEffect DEF WaitMatched, TypeOK
  <2>. QED BY <1>7, <2>1, <2>3 DEF WaitMatched, TypeOK
<1>8. CASE WaitOther \/ Pump
  <2>1. Head(frames) \in Frames /\ frames' \in Seq(Frames) /\ Resolve(Head(frames))
    BY <1>8, TailElements DEF WaitOther, Pump, TypeOK
  <2>2. /\ cache' \in [Exprs -> Entries] /\ shadow' \in [Versions -> Files]
        /\ pending' \subseteq pending
    BY <2>1, ResolveEffect
  <2>. QED BY <1>8, <2>1, <2>2 DEF WaitOther, Pump, TypeOK
<1>9. CASE WaitClosed
  <2>1. Dropped(shadow) \in [Versions -> Files] /\ Dropped(shadow)[version] \in Files
    BY FilesTyped DEF TypeOK
  <2>2. query.expr \in Exprs
    BY <1>9 DEF WaitClosed, TypeOK, Idle
  <2>3. cache' \in [Exprs -> Entries] /\ shadow' \in [Versions -> Files] /\ query' = NoQuery
    BY <1>9, <2>1, <2>2, FinishEffect DEF WaitClosed, OneShot
  <2>. QED BY <1>9, <2>3, DropEffect DEF WaitClosed, TypeOK
<1>10. CASE WaitTimeout
  <2>1. query.id \in 1 .. MaxJobs /\ query.expr \in Exprs
    BY <1>10 DEF WaitTimeout, TypeOK, Idle
  <2>2. Entry("inflight") \in Entries
    BY DEF Entries
  <2>3. [id |-> query.id, expr |-> query.expr, file |-> version] \in Parked
    BY <2>1 DEF Parked, TypeOK
  <2>. QED BY <1>10, <2>1, <2>2, <2>3 DEF WaitTimeout, TypeOK, runner
<1>11. CASE ReapIdle
  BY <1>11, DropEffect DEF ReapIdle, TypeOK
<1>12. CASE Status
  BY <1>12 DEF Status, TypeOK
<1>13. CASE RunnerRead
  <2>1. Head(jobs) \in Jobs /\ jobs' \in Seq(Jobs)
    BY <1>13, TailElements DEF RunnerRead, TypeOK
  <2>2. running' \in Frames
    BY <1>13, <2>1 DEF RunnerRead, TypeOK, Jobs, Frames
  <2>. QED BY <1>13, <2>1, <2>2 DEF RunnerRead, TypeOK
<1>14. CASE RunnerAnswer
  <2>1. frames' \in Seq(Frames)
    BY <1>14, AppendElements DEF RunnerAnswer, TypeOK
  <2>. QED BY <1>14, <2>1 DEF RunnerAnswer, TypeOK
<1>15. CASE RunnerDie
  BY <1>15 DEF RunnerDie, TypeOK
<1>16. CASE UNCHANGED vars
  BY <1>16 DEF vars, TypeOK
<1>. QED BY <1>1, <1>2, <1>3, <1>4, <1>5, <1>6, <1>7, <1>8, <1>9, <1>10, <1>11,
            <1>12, <1>13, <1>14, <1>15, <1>16
         DEF Next, Ask, Wait

\* The variables keep their types, for every set of expressions and bound.
THEOREM TypeCorrect == Spec => []TypeOK
<1>1. Init => TypeOK
  BY LimitAssumption DEF Init, TypeOK, Versions, Files, Absent, Entries
<1>. QED BY <1>1, TypeStep, PTL DEF Spec

-----------------------------------------------------------------------------
\* Shadow files.

\* However a query ends (an answer in time or later, a timeout, the death of
\* the runner, a process of its own, the end of the session), its shadow file
\* is removed: there is never one without a query under way.
THEOREM ShadowsGone == Spec => []ShadowsAccountedFor
<1>1. Init => ShadowsAccountedFor
  BY DEF Init, ShadowsAccountedFor
<1>2. TypeOK /\ ShadowsAccountedFor /\ [Next]_vars => ShadowsAccountedFor'
  <2>. SUFFICES ASSUME TypeOK, ShadowsAccountedFor, [Next]_vars
                PROVE  ShadowsAccountedFor'
    OBVIOUS
  <2>1. CASE Change \/ Save \/ (\E e \in Exprs : Expire(e)) \/ Status
             \/ RunnerRead \/ RunnerAnswer \/ RunnerDie \/ UNCHANGED vars
    BY <2>1 DEF Change, Save, Expire, Status, RunnerRead, RunnerAnswer, RunnerDie,
                vars, runner, Idle, ShadowsAccountedFor
  <2>2. ASSUME NEW e \in Exprs, QuerySent(e)
        PROVE  ShadowsAccountedFor'
    <3>1. query'.id /= 0 /\ NoQuery.id = 0
      BY <2>2, LimitAssumption DEF QuerySent, TypeOK, NoQuery
    <3>2. ~ Idle' /\ Idle
      BY <2>2, <3>1 DEF Idle, QuerySent, Needed
    <3>. QED BY <2>2, <3>2 DEF QuerySent, Written, TypeOK, ShadowsAccountedFor
  <2>3. ASSUME NEW e \in Exprs, QueryUnstarted(e) \/ QueryUnsent(e)
        PROVE  ShadowsAccountedFor'
    <3>1. \A v \in Versions : v /= version => Written(e)[v] = shadow[v]
      BY DEF Written, TypeOK
    <3>2. Idle
      BY <2>3 DEF QueryUnstarted, QueryUnsent, Needed
    <3>3. CASE QueryUnstarted(e)
      <4>1. Written(e) \in [Versions -> Files] /\ Written(e)[version] \in Files
        BY FilesTyped DEF TypeOK
      <4>2. \A v \in Versions :
              shadow'[v] = IF v = version THEN NoFile ELSE Written(e)[v]
        BY <3>3, <4>1, FinishEffect DEF QueryUnstarted, OneShot
      <4>. QED BY <3>1, <3>2, <3>3, <4>2 DEF QueryUnstarted, ShadowsAccountedFor
    <3>4. CASE QueryUnsent(e)
      <4>1. /\ Dropped(Written(e)) \in [Versions -> Files]
            /\ Dropped(Written(e))[version] \in Files
        BY FilesTyped DEF TypeOK
      <4>2. \A v \in Versions :
              shadow'[v] = IF v = version THEN NoFile ELSE Dropped(Written(e))[v]
        BY <3>4, <4>1, FinishEffect DEF QueryUnsent, OneShot
      <4>3. \A v \in Versions : shadow'[v] = NoFile
        BY <3>1, <3>2, <4>2 DEF Dropped, ShadowsAccountedFor
      <4>. QED BY <4>3 DEF ShadowsAccountedFor
    <3>. QED BY <2>3, <3>3, <3>4
  <2>4. CASE WaitMatched
    <3>1. Head(frames).output \in Files /\ query.expr \in Exprs
      <4>1. Head(frames) \in Frames
        BY <2>4, TailElements DEF WaitMatched, TypeOK
      <4>. QED BY <2>4, <4>1 DEF WaitMatched, TypeOK, Frames, Idle
    <3>2. \A v \in Versions : shadow'[v] = IF v = version THEN NoFile ELSE shadow[v]
      BY <2>4, <3>1, FinishEffect DEF WaitMatched, TypeOK
    <3>. QED BY <2>4, <3>2 DEF WaitMatched, ShadowsAccountedFor
  <2>5. CASE WaitOther \/ Pump
    <3>1. Head(frames) \in Frames /\ Resolve(Head(frames))
      BY <2>5, TailElements DEF WaitOther, Pump, TypeOK
    <3>2. version' = version /\ query' = query
      BY <2>5 DEF WaitOther, Pump
    <3>3. \A v \in Versions : shadow'[v] /= NoFile => shadow[v] /= NoFile
      BY <3>1, ResolveEffect
    <3>4. \A d \in pending : d \in pending' \/ shadow'[d.file] = NoFile
      BY <3>1, ResolveEffect
    <3>. QED BY <3>2, <3>3, <3>4 DEF ShadowsAccountedFor, Idle
  <2>6. CASE WaitClosed
    <3>1. /\ Dropped(shadow) \in [Versions -> Files] /\ query.expr \in Exprs
          /\ Dropped(shadow)[version] \in Files
      BY <2>6, FilesTyped DEF WaitClosed, TypeOK, Idle
    <3>2. \A v \in Versions :
            shadow'[v] = IF v = version THEN NoFile ELSE Dropped(shadow)[v]
      BY <2>6, <3>1, FinishEffect DEF WaitClosed, OneShot
    <3>. QED BY <2>6, <3>2 DEF WaitClosed, Dropped, ShadowsAccountedFor
  <2>7. CASE WaitTimeout
    <3>1. \E d \in pending' : d.file = version
      <4>1. [id |-> query.id, expr |-> query.expr, file |-> version] \in pending'
        BY <2>7 DEF WaitTimeout
      <4>. QED BY <4>1
    <3>2. pending \subseteq pending' /\ shadow' = shadow
      BY <2>7 DEF WaitTimeout
    <3>. QED BY <3>1, <3>2 DEF ShadowsAccountedFor
  <2>8. CASE ReapIdle
    BY <2>8 DEF ReapIdle, ShadowsAccountedFor
  <2>. QED BY <2>1, <2>2, <2>3, <2>4, <2>5, <2>6, <2>7, <2>8 DEF Next, Ask, Wait
<1>. QED BY <1>1, <1>2, TypeCorrect, PTL DEF Spec

-----------------------------------------------------------------------------
\* Jobs.

\* Every id that is about was given by the session.
IdsGiven ==
    /\ \A i \in DOMAIN jobs : jobs[i].id < nextId
    /\ \A i \in DOMAIN frames : frames[i].id < nextId
    /\ running.id < nextId /\ query.id < nextId
    /\ \A d \in pending : d.id < nextId

\* No two jobs under way have one id.
IdsDistinct ==
    /\ \A i, j \in DOMAIN jobs : jobs[i].id = jobs[j].id => i = j
    /\ \A i, j \in DOMAIN frames : frames[i].id = frames[j].id => i = j
    /\ \A i \in DOMAIN jobs, j \in DOMAIN frames : jobs[i].id /= frames[j].id
    /\ \A i \in DOMAIN jobs : jobs[i].id /= running.id
    /\ \A i \in DOMAIN frames : frames[i].id /= running.id

\* The ids that somebody waits for: the request that asked, or a parked query.
Owned == {query.id} \cup {d.id : d \in pending}

AllOwned ==
    /\ \A i \in DOMAIN jobs : jobs[i].id \in Owned
    /\ \A i \in DOMAIN frames : frames[i].id \in Owned
    /\ running /= Resting => running.id \in Owned
    /\ \A d \in pending : d.id /= query.id

JobsInv == IdsGiven /\ IdsDistinct /\ AllOwned

\* The ids of jobs, frames and parked queries are positive, that of the runner
\* at rest and of no query is not.
LEMMA IdsTyped ==
  ASSUME TypeOK
  PROVE  /\ nextId \in Nat /\ nextId > 0
         /\ \A i \in DOMAIN jobs : jobs[i].id \in Nat /\ jobs[i].id > 0
         /\ \A i \in DOMAIN frames : frames[i].id \in Nat /\ frames[i].id > 0
         /\ \A d \in pending : d.id \in Nat /\ d.id > 0
         /\ running.id \in Nat /\ (running.id = 0 <=> running = Resting)
         /\ query.id \in Nat /\ (query.id = 0 <=> Idle)
<1>1. nextId \in Nat /\ nextId > 0
  BY LimitAssumption DEF TypeOK
<1>2. \A i \in DOMAIN jobs : jobs[i].id \in Nat /\ jobs[i].id > 0
  <2>1. \A i \in DOMAIN jobs : jobs[i] \in Jobs
    BY DEF TypeOK
  <2>. QED BY <2>1, LimitAssumption DEF Jobs
<1>3. \A i \in DOMAIN frames : frames[i].id \in Nat /\ frames[i].id > 0
  <2>1. \A i \in DOMAIN frames : frames[i] \in Frames
    BY DEF TypeOK
  <2>. QED BY <2>1, LimitAssumption DEF Frames
<1>4. \A d \in pending : d.id \in Nat /\ d.id > 0
  BY LimitAssumption DEF TypeOK, Parked
<1>5. running.id \in Nat /\ (running.id = 0 <=> running = Resting)
  BY LimitAssumption DEF TypeOK, Frames, Resting
<1>6. query.id \in Nat /\ (query.id = 0 <=> Idle)
  BY LimitAssumption DEF TypeOK, Idle, NoQuery
<1>. QED BY <1>1, <1>2, <1>3, <1>4, <1>5, <1>6

\* Taking the first frame out of the pipe to the query it belongs to: what is
\* left is owned by the others.
LEMMA TakeFrame ==
  ASSUME TypeOK, JobsInv, TypeOK', frames /= <<>>, frames' = Tail(frames),
         UNCHANGED <<jobs, running, nextId>>,
         query' = query \/ (query' = NoQuery /\ query.id = Head(frames).id),
         pending' \subseteq pending,
         \A d \in pending : d \in pending' \/ d.id = Head(frames).id
  PROVE  JobsInv'
<1>. DEFINE f == Head(frames)
<1>1. /\ 1 \in DOMAIN frames /\ f = frames[1]
      /\ \A i \in DOMAIN frames' :
           i + 1 \in DOMAIN frames /\ i + 1 /= 1 /\ frames'[i] = frames[i + 1]
           /\ i \in Int
  BY TailElements DEF TypeOK
<1>2. IdsGiven'
  <2>1. query'.id < nextId
    BY IdsTyped DEF JobsInv, IdsGiven, NoQuery
  <2>. QED BY <1>1, <2>1 DEF JobsInv, IdsGiven
<1>3. IdsDistinct'
  <2>1. \A i, j \in DOMAIN frames' : frames'[i].id = frames'[j].id => i = j
    BY <1>1 DEF JobsInv, IdsDistinct
  <2>. QED BY <1>1, <2>1 DEF JobsInv, IdsDistinct
<1>4. \A n \in Owned : n /= f.id /\ n /= 0 => n \in Owned'
  BY DEF Owned
<1>5. \A i \in DOMAIN jobs' : jobs'[i].id \in Owned'
  BY <1>1, <1>4, IdsTyped DEF JobsInv, IdsDistinct, AllOwned
<1>6. \A i \in DOMAIN frames' : frames'[i].id \in Owned'
  <2>1. \A i \in DOMAIN frames : i /= 1 => frames[i].id /= f.id
    BY <1>1 DEF JobsInv, IdsDistinct
  <2>. QED BY <1>1, <1>4, <2>1, IdsTyped DEF JobsInv, AllOwned
<1>7. running' /= Resting => running'.id \in Owned'
  BY <1>1, <1>4, IdsTyped DEF JobsInv, IdsDistinct, AllOwned
<1>8. \A d \in pending' : d.id /= query'.id
  BY IdsTyped DEF JobsInv, AllOwned, NoQuery
<1>. QED BY <1>2, <1>3, <1>5, <1>6, <1>7, <1>8 DEF JobsInv, AllOwned

\* Every step keeps the jobs owned.
LEMMA JobsStep == TypeOK /\ TypeOK' /\ JobsInv /\ [Next]_vars => JobsInv'
<1>. SUFFICES ASSUME TypeOK, TypeOK', JobsInv, [Next]_vars PROVE JobsInv'
  OBVIOUS
<1>1. CASE UNCHANGED <<runner, pending, query>>
  BY <1>1 DEF runner, JobsInv, IdsGiven, IdsDistinct, AllOwned, Owned
<1>2. ASSUME NEW e \in Exprs, QuerySent(e) PROVE JobsInv'
  <2>1. PICK new \in Jobs : new.id = nextId /\ jobs' = Append(jobs, new)
    <3>1. [id |-> nextId, file |-> version] \in Jobs
      BY <1>2 DEF QuerySent, TypeOK, Jobs
    <3>. QED BY <1>2, <3>1 DEF QuerySent
  <2>2. \A i \in DOMAIN jobs' :
          \/ i \in DOMAIN jobs /\ jobs'[i] = jobs[i]
          \/ i = Len(jobs) + 1 /\ i \notin DOMAIN jobs /\ jobs'[i] = new
    BY <2>1, AppendElements DEF TypeOK
  <2>3. /\ nextId' = nextId + 1 /\ query'.id = nextId /\ query.id = 0
        /\ UNCHANGED <<running, frames, pending>>
    BY <1>2 DEF QuerySent, Needed, Idle, NoQuery
  <2>4. IdsGiven'
    BY <2>1, <2>2, <2>3, IdsTyped DEF JobsInv, IdsGiven
  <2>5. IdsDistinct'
    <3>1. \A i, j \in DOMAIN jobs' : jobs'[i].id = jobs'[j].id => i = j
      BY <2>1, <2>2, IdsTyped DEF JobsInv, IdsGiven, IdsDistinct
    <3>2. /\ \A i \in DOMAIN jobs', j \in DOMAIN frames : jobs'[i].id /= frames[j].id
          /\ \A i \in DOMAIN jobs' : jobs'[i].id /= running.id
      BY <2>1, <2>2, IdsTyped DEF JobsInv, IdsGiven, IdsDistinct
    <3>. QED BY <2>3, <3>1, <3>2 DEF JobsInv, IdsDistinct
  <2>6. AllOwned'
    <3>1. nextId \in Owned' /\ \A n \in Owned : n /= 0 => n \in Owned'
      BY <2>3 DEF Owned
    <3>2. \A i \in DOMAIN jobs' : jobs'[i].id \in Owned'
      BY <2>1, <2>2, <3>1, IdsTyped DEF JobsInv, AllOwned
    <3>. QED BY <2>3, <3>1, <3>2, IdsTyped DEF JobsInv, AllOwned, IdsGiven
  <2>. QED BY <2>4, <2>5, <2>6 DEF JobsInv
<1>3. ASSUME NEW e \in Exprs, QueryUnstarted(e) PROVE JobsInv'
  <2>1. UNCHANGED <<runner, pending, query>>
    BY <1>3 DEF QueryUnstarted, OneShot, Finish, Needed, Idle
  <2>. QED BY <1>1, <2>1
<1>4. CASE (\E e \in Exprs : QueryUnsent(e)) \/ WaitClosed \/ ReapIdle
  <2>1. DropSession /\ query' = NoQuery
    BY <1>4 DEF QueryUnsent, WaitClosed, ReapIdle, OneShot, Finish, Idle
  <2>2. /\ jobs' = <<>> /\ frames' = <<>> /\ running' = Resting
        /\ pending' = {} /\ nextId' = 1
    BY <2>1 DEF DropSession
  <2>. QED BY <2>1, <2>2
           DEF JobsInv, IdsGiven, IdsDistinct, AllOwned, Resting, NoQuery
<1>5. CASE WaitMatched
  BY <1>5, TakeFrame DEF WaitMatched, Finish
<1>6. CASE WaitOther \/ Pump
  <2>1. /\ frames /= <<>> /\ frames' = Tail(frames) /\ Resolve(Head(frames))
        /\ UNCHANGED <<jobs, running, nextId, query>>
    BY <1>6 DEF WaitOther, Pump
  <2>2. Head(frames) \in Frames
    BY <2>1, TailElements DEF TypeOK
  <2>3. /\ pending' \subseteq pending
        /\ \A d \in pending : d \in pending' \/ d.id = Head(frames).id
    BY <2>1, <2>2, ResolveEffect
  <2>. QED BY <2>1, <2>3, TakeFrame
<1>7. CASE WaitTimeout
  <2>1. PICK d \in pending' : d.id = query.id /\ pending' = pending \cup {d}
    <3>1. [id |-> query.id, expr |-> query.expr, file |-> version] \in pending'
      BY <1>7 DEF WaitTimeout
    <3>. QED BY <1>7, <3>1 DEF WaitTimeout
  <2>2. query'.id = 0 /\ UNCHANGED runner
    BY <1>7 DEF WaitTimeout, NoQuery
  <2>3. Owned \subseteq Owned'
    BY <2>1 DEF Owned
  <2>4. IdsGiven' /\ IdsDistinct'
    BY <2>1, <2>2, IdsTyped DEF JobsInv, IdsGiven, IdsDistinct, runner
  <2>5. \A c \in pending' : c.id /= 0
    BY <2>1, <1>7, IdsTyped DEF WaitTimeout
  <2>. QED BY <2>2, <2>3, <2>4, <2>5 DEF JobsInv, AllOwned, runner
<1>8. CASE Status
  BY <1>8 DEF Status, JobsInv, IdsGiven, IdsDistinct, AllOwned, Owned
<1>9. CASE RunnerRead
  <2>1. /\ 1 \in DOMAIN jobs /\ Head(jobs) = jobs[1]
        /\ \A i \in DOMAIN jobs' :
             i + 1 \in DOMAIN jobs /\ i + 1 /= 1 /\ jobs'[i] = jobs[i + 1] /\ i \in Int
    BY <1>9, TailElements DEF RunnerRead, TypeOK
  <2>2. /\ running'.id = jobs[1].id /\ running = Resting
        /\ UNCHANGED <<frames, pending, query, nextId>>
    BY <1>9, <2>1 DEF RunnerRead
  <2>3. IdsGiven' /\ Owned' = Owned
    BY <2>1, <2>2 DEF JobsInv, IdsGiven, Owned
  <2>4. IdsDistinct'
    <3>1. \A i, j \in DOMAIN jobs' : jobs'[i].id = jobs'[j].id => i = j
      BY <2>1 DEF JobsInv, IdsDistinct
    <3>2. \A i \in DOMAIN jobs' : jobs'[i].id /= jobs[1].id
      BY <2>1 DEF JobsInv, IdsDistinct
    <3>. QED BY <2>1, <2>2, <3>1, <3>2 DEF JobsInv, IdsDistinct
  <2>. QED BY <2>1, <2>2, <2>3, <2>4 DEF JobsInv, AllOwned
<1>10. CASE RunnerAnswer
  <2>1. running \in Frames /\ frames' = Append(frames, running) /\ running'.id = 0
    BY <1>10 DEF RunnerAnswer, TypeOK, Resting
  <2>2. \A i \in DOMAIN frames' :
          \/ i \in DOMAIN frames /\ frames'[i] = frames[i]
          \/ i = Len(frames) + 1 /\ i \notin DOMAIN frames /\ frames'[i] = running
    BY <2>1, AppendElements DEF TypeOK
  <2>3. UNCHANGED <<jobs, pending, query, nextId>> /\ running /= Resting
    BY <1>10 DEF RunnerAnswer
  <2>4. IdsGiven' /\ Owned' = Owned
    BY <2>1, <2>2, <2>3, IdsTyped DEF JobsInv, IdsGiven, Owned
  <2>5. IdsDistinct'
    <3>1. \A i, j \in DOMAIN frames' : frames'[i].id = frames'[j].id => i = j
      BY <2>2 DEF JobsInv, IdsDistinct
    <3>2. \A i \in DOMAIN jobs, j \in DOMAIN frames' : jobs[i].id /= frames'[j].id
      BY <2>2 DEF JobsInv, IdsDistinct
    <3>3. \A i \in DOMAIN frames' : frames'[i].id > 0
      BY <2>2, <2>3, IdsTyped
    <3>. QED BY <2>1, <2>3, <3>1, <3>2, <3>3, IdsTyped DEF JobsInv, IdsDistinct
  <2>6. \A i \in DOMAIN frames' : frames'[i].id \in Owned
    BY <2>2, <2>3 DEF JobsInv, AllOwned
  <2>7. running' = Resting
    BY <1>10 DEF RunnerAnswer
  <2>. QED BY <2>3, <2>4, <2>5, <2>6, <2>7 DEF JobsInv, AllOwned
<1>11. CASE RunnerDie
  <2>1. /\ jobs' = <<>> /\ running'.id = 0 /\ running' = Resting
        /\ UNCHANGED <<frames, pending, query, nextId>>
    BY <1>11 DEF RunnerDie, Resting
  <2>. QED BY <2>1, IdsTyped DEF JobsInv, IdsGiven, IdsDistinct, AllOwned, Owned
<1>12. CASE Change \/ Save \/ (\E e \in Exprs : Expire(e)) \/ UNCHANGED vars
  <2>1. UNCHANGED <<runner, pending, query>>
    BY <1>12 DEF Change, Save, Expire, vars, runner
  <2>. QED BY <1>1, <2>1
<1>. QED BY <1>2, <1>3, <1>4, <1>5, <1>6, <1>7, <1>8, <1>9, <1>10, <1>11, <1>12
         DEF Next, Ask, Wait

\* The jobs are owned in every reachable state.
LEMMA JobsInvariant == Spec => []JobsInv
<1>1. Init => JobsInv
  BY DEF Init, JobsInv, IdsGiven, IdsDistinct, AllOwned, Resting, NoQuery
<1>. QED BY <1>1, JobsStep, TypeCorrect, PTL DEF Spec

\* No answer of the runner is lost: whatever times out, is saved or dies,
\* somebody waits for every job the runner still has, and only one does.
THEOREM NoAnswerLost == Spec => []JobsAreOwned
<1>1. TypeOK /\ JobsInv => JobsAreOwned
  <2>. SUFFICES ASSUME TypeOK, JobsInv PROVE JobsAreOwned
    OBVIOUS
  <2>1. \A i \in Outstanding : i \in Owned
    BY IdsTyped DEF Outstanding, Unread, JobsInv, AllOwned
  <2>. QED BY <2>1 DEF Owned, JobsAreOwned, JobsInv, AllOwned
<1>. QED BY <1>1, JobsInvariant, TypeCorrect, PTL

-----------------------------------------------------------------------------
\* Answers.

\* What the answer to the query that is waited for may be about: its own
\* probe, or nothing if its shadow file was removed for a parked query.
Own(f) == f \in {NoFile, [expr |-> query.expr, version |-> version]}

\* Wherever the job of that query is, the file it stands for is its own.
OwnInv ==
    ~ Idle =>
      /\ Own(shadow[version])
      /\ \A i \in DOMAIN jobs : jobs[i].id = query.id => jobs[i].file = version
      /\ running.id = query.id => Own(running.output)
      /\ \A i \in DOMAIN frames : frames[i].id = query.id => Own(frames[i].output)

\* Every step keeps that.
LEMMA OwnStep ==
  TypeOK /\ TypeOK' /\ JobsInv /\ OwnInv /\ [Next]_vars => OwnInv'
<1>. SUFFICES ASSUME TypeOK, TypeOK', JobsInv, OwnInv, [Next]_vars, ~ Idle'
              PROVE  OwnInv'
  BY DEF OwnInv
<1>1. ASSUME NEW e \in Exprs, QuerySent(e) PROVE OwnInv'
  <2>1. PICK new \in Jobs : /\ new.id = nextId /\ new.file = version
                            /\ jobs' = Append(jobs, new)
    <3>1. [id |-> nextId, file |-> version] \in Jobs
      BY <1>1 DEF QuerySent, TypeOK, Jobs
    <3>. QED BY <1>1, <3>1 DEF QuerySent
  <2>2. \A i \in DOMAIN jobs' :
          \/ i \in DOMAIN jobs /\ jobs'[i] = jobs[i]
          \/ jobs'[i] = new
    BY <2>1, AppendElements DEF TypeOK
  <2>3. /\ query'.id = nextId /\ query'.expr = e
        /\ UNCHANGED <<version, running, frames>>
    BY <1>1 DEF QuerySent
  <2>4. shadow'[version] = [expr |-> e, version |-> version]
    BY <1>1 DEF QuerySent, Written, TypeOK
  <2>5. /\ \A i \in DOMAIN jobs : jobs[i].id /= nextId
        /\ \A i \in DOMAIN frames : frames[i].id /= nextId
        /\ running.id /= nextId
    BY IdsTyped DEF JobsInv, IdsGiven
  <2>. QED BY <2>1, <2>2, <2>3, <2>4, <2>5 DEF OwnInv, Own
<1>2. CASE WaitOther
  <2>1. /\ frames /= <<>> /\ frames' = Tail(frames) /\ Resolve(Head(frames))
        /\ UNCHANGED <<version, jobs, running, query>> /\ ~ Idle
    BY <1>2 DEF WaitOther
  <2>2. Head(frames) \in Frames
        /\ \A i \in DOMAIN frames' : i + 1 \in DOMAIN frames /\ frames'[i] = frames[i + 1]
    BY <2>1, TailElements DEF TypeOK
  <2>3. shadow'[version] \in {shadow[version], NoFile}
    BY <2>1, <2>2, ResolveEffect DEF TypeOK
  <2>. QED BY <2>1, <2>2, <2>3 DEF OwnInv, Own
<1>3. CASE RunnerRead
  <2>1. /\ 1 \in DOMAIN jobs /\ Head(jobs) = jobs[1]
        /\ \A i \in DOMAIN jobs' : i + 1 \in DOMAIN jobs /\ jobs'[i] = jobs[i + 1]
    BY <1>3, TailElements DEF RunnerRead, TypeOK
  <2>2. /\ running'.id = jobs[1].id /\ running'.output = shadow[jobs[1].file]
        /\ UNCHANGED <<version, shadow, frames, query>>
    BY <1>3, <2>1 DEF RunnerRead
  <2>3. ~ Idle
    BY <2>2 DEF Idle
  <2>. QED BY <2>1, <2>2, <2>3 DEF OwnInv, Own
<1>4. CASE RunnerAnswer
  <2>1. running \in Frames /\ frames' = Append(frames, running) /\ running'.id = 0
    BY <1>4 DEF RunnerAnswer, TypeOK, Resting
  <2>2. \A i \in DOMAIN frames' :
          \/ i \in DOMAIN frames /\ frames'[i] = frames[i]
          \/ frames'[i] = running
    BY <2>1, AppendElements DEF TypeOK
  <2>3. UNCHANGED <<version, shadow, jobs, query>>
    BY <1>4 DEF RunnerAnswer
  <2>4. ~ Idle /\ query.id /= 0
    BY <2>3, IdsTyped DEF Idle
  <2>. QED BY <2>1, <2>2, <2>3, <2>4 DEF OwnInv, Own
<1>5. CASE RunnerDie
  <2>1. /\ jobs' = <<>> /\ running'.id = 0
        /\ UNCHANGED <<version, shadow, frames, query>>
    BY <1>5 DEF RunnerDie, Resting
  <2>2. ~ Idle /\ query.id /= 0
    BY <2>1, IdsTyped DEF Idle
  <2>. QED BY <2>1, <2>2 DEF OwnInv, Own
<1>6. CASE (\E e \in Exprs : Expire(e)) \/ UNCHANGED vars
  <2>1. UNCHANGED <<version, shadow, runner, query>>
    BY <1>6 DEF Expire, vars, runner
  <2>. QED BY <2>1 DEF runner, OwnInv, Own, Idle
<1>7. CASE \/ Change \/ Save \/ Pump \/ ReapIdle \/ Status
           \/ (\E e \in Exprs : QueryUnstarted(e) \/ QueryUnsent(e))
           \/ WaitMatched \/ WaitClosed \/ WaitTimeout
  <2>1. query' = NoQuery
    BY <1>7 DEF Change, Save, Pump, ReapIdle, Status, QueryUnstarted, QueryUnsent,
                WaitMatched, WaitClosed, WaitTimeout, OneShot, Finish, Needed, Idle
  <2>. QED BY <2>1 DEF Idle
<1>. QED BY <1>1, <1>2, <1>3, <1>4, <1>5, <1>6, <1>7 DEF Next, Ask, Wait

\* So it holds in every reachable state.
LEMMA OwnInvariant == Spec => []OwnInv
<1>1. Init => OwnInv
  BY DEF Init, OwnInv, Idle
<1>. QED BY <1>1, OwnStep, TypeCorrect, JobsInvariant, PTL DEF Spec

\* A type that a request waited for is that of its own expression in the text
\* the request was about, for either analyzer, although parked queries share
\* shadow files with it and answers of others come first.
THEOREM WaitedForIsOwn == Spec => AnswersAreOwn
<1>1. TypeOK /\ OwnInv /\ [Next]_vars =>
        [~ Idle /\ query' = NoQuery /\ cache'[query.expr].kind = "type" =>
           cache'[query.expr].of = [expr |-> query.expr, version |-> version]]_vars
  <2>. SUFFICES ASSUME TypeOK, OwnInv, [Next]_vars, ~ Idle, query' = NoQuery,
                       cache'[query.expr].kind = "type", ~ UNCHANGED vars
                PROVE  cache'[query.expr].of
                         = [expr |-> query.expr, version |-> version]
    OBVIOUS
  <2>1. query.expr \in Exprs
    BY DEF TypeOK, Idle
  <2>2. WaitMatched \/ WaitClosed \/ WaitTimeout
    BY DEF Next, Ask, Wait, Change, Save, QuerySent, QueryUnstarted, QueryUnsent, Needed,
           Expire, WaitOther, Pump, ReapIdle, Status, RunnerRead, RunnerAnswer,
           RunnerDie, Idle
  <2>3. CASE WaitMatched
    <3>1. Head(frames) \in Frames /\ Head(frames) = frames[1] /\ 1 \in DOMAIN frames
      BY <2>3, TailElements DEF WaitMatched, TypeOK
    <3>2. Head(frames).output \in Files /\ Own(Head(frames).output)
      BY <2>3, <3>1 DEF WaitMatched, OwnInv, Frames
    <3>3. cache'[query.expr] \in Verdicts(query.expr, Head(frames).output)
      BY <2>1, <2>3, <3>2, FinishEffect DEF WaitMatched, TypeOK
    <3>4. /\ Head(frames).output \in Probes
          /\ cache'[query.expr].of = Head(frames).output
      BY <2>1, <3>2, <3>3, VerdictsOfFile
    <3>. QED BY <3>2, <3>4, LimitAssumption DEF Own, NoFile, Probes, Versions
  <2>4. CASE WaitClosed
    <3>. DEFINE files == Dropped(shadow)
    <3>1. files \in [Versions -> Files] /\ files[version] \in Files
      BY FilesTyped DEF TypeOK
    <3>2. Own(files[version])
      BY DEF Dropped, OwnInv, Own, TypeOK
    <3>3. cache'[query.expr] \in Verdicts(query.expr, files[version])
      BY <2>1, <2>4, <3>1, FinishEffect DEF WaitClosed, OneShot
    <3>4. files[version] \in Probes /\ cache'[query.expr].of = files[version]
      BY <2>1, <3>1, <3>3, VerdictsOfFile
    <3>. QED BY <3>2, <3>4, LimitAssumption DEF Own, NoFile, Probes, Versions
  <2>5. CASE WaitTimeout
    <3>1. cache'[query.expr] = Entry("inflight")
      BY <2>1, <2>5 DEF WaitTimeout, TypeOK
    <3>. QED BY <3>1 DEF Entry
  <2>. QED BY <2>2, <2>3, <2>4, <2>5
<1>. QED BY <1>1, TypeCorrect, OwnInvariant, PTL DEF Spec, AnswersAreOwn

-----------------------------------------------------------------------------
\* What Psalm says is told apart by the expression.

\* Storing a verdict of Psalm keeps the types of the cache their own.
LEMMA StoreOwn ==
  ASSUME TypeOK, CachedIsOwn, Analyzer = "psalm",
         NEW e \in Exprs, NEW f \in Files, NEW v \in Verdicts(e, f),
         cache' = [cache EXCEPT ![e] = v]
  PROVE  CachedIsOwn'
<1>1. v.kind = "type" => v.of.expr = e
  BY VerdictsOfFile
<1>2. \A d \in Exprs : cache'[d] = IF d = e THEN v ELSE cache[d]
  BY DEF TypeOK
<1>. QED BY <1>1, <1>2 DEF CachedIsOwn

\* So does storing a mark.
LEMMA MarkOwn ==
  ASSUME TypeOK, CachedIsOwn, NEW e \in Exprs, NEW k, k /= "type",
         cache' = [cache EXCEPT ![e] = Entry(k)]
  PROVE  CachedIsOwn'
BY DEF TypeOK, CachedIsOwn, Entry

\* With Psalm the type that is cached for an expression is always one that was
\* found for it, although parked queries on one version share a shadow file:
\* the file may be another's by the time it is read, but then nothing matches.
THEOREM PsalmCachesItsOwn == Analyzer = "psalm" /\ Spec => []CachedIsOwn
<1>1. Init => CachedIsOwn
  BY DEF Init, CachedIsOwn, Absent, Entry
<1>2. TypeOK /\ CachedIsOwn /\ Analyzer = "psalm" /\ [Next]_vars => CachedIsOwn'
  <2>. SUFFICES ASSUME TypeOK, CachedIsOwn, Analyzer = "psalm", [Next]_vars
                PROVE  CachedIsOwn'
    OBVIOUS
  <2>1. CASE UNCHANGED cache
    BY <2>1 DEF CachedIsOwn
  <2>2. CASE Save
    BY <2>2 DEF Save, CachedIsOwn, Absent, Entry
  <2>3. ASSUME NEW e \in Exprs, QuerySent(e) \/ Expire(e)
        PROVE  CachedIsOwn'
    BY <2>3, MarkOwn DEF QuerySent, Expire, Absent
  <2>4. ASSUME NEW e \in Exprs, QueryUnstarted(e) \/ QueryUnsent(e)
        PROVE  CachedIsOwn'
    <3>1. PICK f \in Files : \E v \in Verdicts(e, f) : cache' = [cache EXCEPT ![e] = v]
      <4>1. Written(e)[version] \in Files /\ Dropped(Written(e))[version] \in Files
        BY FilesTyped DEF TypeOK
      <4>. QED BY <2>4, <4>1 DEF QueryUnstarted, QueryUnsent, OneShot, Finish
    <3>. QED BY <3>1, StoreOwn
  <2>5. CASE WaitMatched
    <3>1. Head(frames) \in Frames
      BY <2>5, TailElements DEF WaitMatched, TypeOK
    <3>2. Head(frames).output \in Files /\ query.expr \in Exprs
      BY <2>5, <3>1 DEF WaitMatched, Frames, TypeOK, Idle
    <3>. QED BY <2>5, <3>2, StoreOwn DEF WaitMatched, Finish
  <2>6. CASE WaitOther \/ Pump
    <3>1. Head(frames) \in Frames /\ Resolve(Head(frames))
      BY <2>6, TailElements DEF WaitOther, Pump, TypeOK
    <3>2. ASSUME NEW d \in pending, NEW v \in Verdicts(d.expr, Head(frames).output),
                 cache' = [cache EXCEPT ![d.expr] = v]
          PROVE  CachedIsOwn'
      BY <3>1, <3>2, StoreOwn DEF TypeOK, Parked, Frames
    <3>. QED BY <2>1, <3>1, <3>2 DEF Resolve
  <2>7. CASE WaitClosed
    <3>1. Dropped(shadow)[version] \in Files /\ query.expr \in Exprs
      BY <2>7, FilesTyped DEF WaitClosed, TypeOK, Idle
    <3>. QED BY <2>7, <3>1, StoreOwn DEF WaitClosed, OneShot, Finish
  <2>8. CASE WaitTimeout
    BY <2>8, MarkOwn DEF WaitTimeout, TypeOK, Idle
  <2>9. CASE Change \/ ReapIdle \/ Status \/ RunnerRead \/ RunnerAnswer \/ RunnerDie
             \/ UNCHANGED vars
    BY <2>1, <2>9 DEF Change, ReapIdle, Status, RunnerRead, RunnerAnswer, RunnerDie, vars
  <2>. QED BY <2>2, <2>3, <2>4, <2>5, <2>6, <2>7, <2>8, <2>9 DEF Next, Ask, Wait
<1>3. CASE Analyzer = "psalm"
  <2>1. TypeOK /\ CachedIsOwn /\ [Next]_vars => CachedIsOwn'
    BY <1>2, <1>3
  <2>2. Spec => []CachedIsOwn
    BY <1>1, <2>1, TypeCorrect, PTL DEF Spec
  <2>. QED BY <2>2
<1>. QED BY <1>3
=============================================================================
