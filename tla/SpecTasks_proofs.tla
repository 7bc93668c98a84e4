--------------------------- MODULE SpecTasks_proofs ---------------------------
(***************************************************************************)
(* Proofs about SpecTasks for every set of specs, sessions and workers.    *)
(***************************************************************************)
EXTENDS SpecTasks, TLAPS

-----------------------------------------------------------------------------
(* Records keep their type when a step fills in a field *)

LEMMA MessageFields ==
    ASSUME NEW m \in Message
    PROVE  /\ m.task \in Tasks /\ m.aim \in Aim /\ m.retries \in 0 .. MaxRetries
           /\ ForSpec(m) => m.aim.target \in Specs
BY DEF Message, Aim, ForSpec

LEMMA AgainType ==
    ASSUME NEW m \in Message, m.retries < MaxRetries, NEW line \in {"first", "second"}
    PROVE  /\ Again(m, line) \in Message
           /\ Again(m, line).task = m.task
           /\ Again(m, line).aim = m.aim
<1>1. m.retries \in 0 .. MaxRetries
    BY DEF Message
<1>2. m.retries + 1 \in 0 .. MaxRetries
    BY <1>1, TaskBoundsAssumption
<1> DEFINE n == m.retries + 1
<1>3. n \in 0 .. MaxRetries
    BY <1>2
<1> HIDE DEF n
<1>4. [m EXCEPT !.retries = n, !.line = line] \in Message
    BY <1>3 DEF Message
<1>5. /\ [m EXCEPT !.retries = n, !.line = line].task = m.task
      /\ [m EXCEPT !.retries = n, !.line = line].aim = m.aim
    BY DEF Message
<1>6. Again(m, line) = [m EXCEPT !.retries = n, !.line = line]
    BY DEF Again, n
<1> QED
    BY <1>4, <1>5, <1>6

LEMMA JobFields ==
    ASSUME NEW j \in Job
    PROVE  /\ j.step \in JobSteps /\ j.msg \in Message
           /\ j.text \in Contents /\ j.seen \in SUBSET Chunk
BY DEF Job

LEMMA JobStep ==
    ASSUME NEW j \in Job, NEW step \in JobSteps
    PROVE  /\ [j EXCEPT !.step = step] \in Job
           /\ [j EXCEPT !.step = step].step = step
           /\ [j EXCEPT !.step = step].msg = j.msg
           /\ [j EXCEPT !.step = step].text = j.text
BY DEF Job

LEMMA JobSeen ==
    ASSUME NEW j \in Job, NEW seen \in SUBSET Chunk
    PROVE  LET k == [j EXCEPT !.step = "indexing", !.seen = seen]
           IN  k \in Job /\ k.step = "indexing" /\ k.msg = j.msg /\ k.text = j.text
BY DEF Job, JobSteps

LEMMA RowFields ==
    ASSUME NEW f \in FailedTask
    PROVE  /\ f.task \in Tasks /\ f.aim \in Aim /\ f.count \in 0 .. MaxRetries
           /\ ForSpec(f) => f.aim.target \in Specs
BY DEF FailedTask, Aim, ForSpec

LEMMA RowUpdate ==
    ASSUME NEW f \in FailedTask, NEW n \in 0 .. MaxRetries,
           NEW status \in {"pending", "retrying", "failed", "resolved"}
    PROVE  /\ [f EXCEPT !.status = status, !.count = n] \in FailedTask
           /\ [f EXCEPT !.status = status, !.count = n].task = f.task
BY DEF FailedTask

-----------------------------------------------------------------------------
(* Types *)

\* What the steps of workers and agents rely on: only texts with chunks reach
\* the index, and a retry is left when one is about to be sent.
StepsFit ==
    /\ \A w \in Busy :
          /\ work[w].step = "indexing" => work[w].text \in Texts /\ ForSpec(work[w].msg)
          /\ work[w].step = "logged" => work[w].msg.retries < MaxRetries
    /\ \A h \in Sessions : Doing(h, "push") => h \in Agents /\ session[h].text \in Texts

TypeInv == TypeOK /\ StepsFit

LEMMA BusyType ==
    ASSUME TypeOK, NEW w \in Busy
    PROVE  w \in Workers /\ work[w] \in Job /\ work[w].msg \in Message
BY JobFields DEF TypeOK, Busy

LEMMA SessionType ==
    ASSUME TypeOK, NEW h \in Sessions, session[h] # Idle
    PROVE  /\ session[h] \in Errand \/ session[h] \in Requeue
           /\ session[h].step # "count" => session[h] \in Errand
           /\ session[h].step = "count" => session[h] \in Requeue
BY DEF TypeOK, Errand, Requeue

LEMMA ErrandFields ==
    ASSUME NEW e \in Errand
    PROVE  /\ e.step \in {"enqueue", "announce", "commit", "push"}
           /\ e.spec \in Specs /\ e.text \in Contents /\ e.seen \in SUBSET Chunk
BY DEF Errand

LEMMA ErrandStep ==
    ASSUME NEW e \in Errand
    PROVE  [e EXCEPT !.step = "commit"] \in Errand /\ [e EXCEPT !.step = "commit"].step = "commit"
BY DEF Errand

\* A step that sets what one worker does.
LEMMA WorkUpdate ==
    ASSUME TypeInv, NEW w \in Workers, NEW j \in Job \cup {Idle},
           j # Idle => /\ j.step = "indexing" => j.text \in Texts /\ ForSpec(j.msg)
                       /\ j.step = "logged" => j.msg.retries < MaxRetries,
           work' = [work EXCEPT ![w] = j], UNCHANGED session
    PROVE  work' \in [Workers -> Job \cup {Idle}] /\ StepsFit'
<1>1. \A v \in Workers : work'[v] = IF v = w THEN j ELSE work[v]
    BY DEF TypeInv, TypeOK
<1>2. work' \in [Workers -> Job \cup {Idle}]
    BY DEF TypeInv, TypeOK
<1> QED
    BY <1>1, <1>2 DEF TypeInv, StepsFit, Busy, Doing

\* A step that sets what one session does.
LEMMA SessionUpdate ==
    ASSUME TypeInv, NEW h \in Sessions, NEW e \in Errand \cup Requeue \cup {Idle},
           e # Idle /\ e.step = "push" => h \in Agents /\ e.text \in Texts,
           session' = [session EXCEPT ![h] = e], UNCHANGED work
    PROVE  session' \in [Sessions -> Errand \cup Requeue \cup {Idle}] /\ StepsFit'
<1>1. \A g \in Sessions : session'[g] = IF g = h THEN e ELSE session[g]
    BY DEF TypeInv, TypeOK
<1>2. session' \in [Sessions -> Errand \cup Requeue \cup {Idle}]
    BY DEF TypeInv, TypeOK
<1> QED
    BY <1>1, <1>2 DEF TypeInv, StepsFit, Busy, Doing

LEMMA StepsStay ==
    ASSUME StepsFit, UNCHANGED <<work, session>>
    PROVE  StepsFit'
BY DEF StepsFit, Busy, Doing

LEMMA IssueType ==
    ASSUME TypeOK, NEW aim \in Aim, Issue(aim)
    PROVE  queue' \subseteq Message /\ issued' \in 0 .. MaxTasks /\ issued + 1 \in Tasks
<1>1. issued + 1 \in Tasks /\ issued' \in 0 .. MaxTasks
    BY TaskBoundsAssumption DEF TypeOK, Issue, Tasks
<1>2. [task |-> issued + 1, aim |-> aim, retries |-> 0, line |-> "first"] \in Message
    BY <1>1, TaskBoundsAssumption DEF Message
<1> QED
    BY <1>1, <1>2 DEF TypeOK, Issue

LEMMA AimTypes ==
    /\ \A s \in Specs : ToIndex(s) \in Aim
    /\ ToUpload \in Aim
BY DEF ToIndex, ToUpload, Aim

LEMMA FaultsType ==
    ASSUME TypeOK, faults < MaxFaults, faults' = faults + 1
    PROVE  faults' \in 0 .. MaxFaults
BY TaskBoundsAssumption DEF TypeOK

LEMMA HandlerType ==
    ASSUME TypeInv, NEW h \in Sessions,
           \/ h \in Editors /\ EditorStep(h)
           \/ h \in Importers /\ ImporterStep(h)
           \/ h \in Agents /\ AgentStep(h)
           \/ Enqueue(h) \/ EnqueueFail(h) \/ SessionCrash(h)
    PROVE  TypeInv'
<1> USE DEF tables, broker
<1>1. TypeOK /\ StepsFit
    BY DEF TypeInv
<1>2. ASSUME NEW s \in Specs, NEW c \in Contents,
             NEW step \in {"enqueue", "announce"}, Errands(h, step, s, c), UNCHANGED work
      PROVE  session' \in [Sessions -> Errand \cup Requeue \cup {Idle}] /\ StepsFit'
  <2> DEFINE e == [step |-> step, spec |-> s, text |-> c, seen |-> {}]
  <2>1. e \in Errand /\ e.step # "push"
    BY DEF Errand
  <2>2. session' = [session EXCEPT ![h] = e]
    BY <1>2 DEF Errands
  <2> HIDE DEF e
  <2> QED
    BY <1>2, <2>1, <2>2, SessionUpdate
<1>3. ASSUME session' = [session EXCEPT ![h] = Idle], UNCHANGED work
      PROVE  session' \in [Sessions -> Errand \cup Requeue \cup {Idle}] /\ StepsFit'
  BY <1>3, SessionUpdate
<1>4. ASSUME Doing(h, "enqueue") \/ Doing(h, "announce"), AfterEnqueue(h), UNCHANGED work
      PROVE  session' \in [Sessions -> Errand \cup Requeue \cup {Idle}] /\ StepsFit'
  <2>1. CASE session' = [session EXCEPT ![h] = Idle]
    BY <1>3, <1>4, <2>1
  <2>2. CASE session' = [session EXCEPT ![h] = [session[h] EXCEPT !.step = "commit"]]
    <3>1. session[h] \in Errand
      BY <1>1, <1>4, SessionType DEF Doing
    <3> DEFINE e == [session[h] EXCEPT !.step = "commit"]
    <3>2. e \in Errand /\ e.step # "push"
      BY <3>1, ErrandStep
    <3>3. session' = [session EXCEPT ![h] = e]
      BY <2>2
    <3> HIDE DEF e
    <3> QED
      BY <1>4, <3>2, <3>3, SessionUpdate
  <2> QED
    BY <1>4, <2>1, <2>2 DEF AfterEnqueue
<1>5. ASSUME NEW s \in Specs, NEW c \in Contents, WriteSpec(h, s, c)
      PROVE  TypeInv'
  BY <1>1, <1>2, <1>5 DEF WriteSpec, TypeInv, TypeOK
<1>6. ASSUME NEW s \in Specs, NEW c \in Contents, FlushImport(h, s, c)
      PROVE  TypeInv'
  BY <1>1, <1>2, <1>6 DEF FlushImport, TypeInv, TypeOK
<1>7. ASSUME Doing(h, "enqueue") \/ Doing(h, "announce")
      PROVE  session[h] \in Errand /\ ToIndex(session[h].spec) \in Aim
  BY <1>1, <1>7, SessionType, ErrandFields, AimTypes DEF Doing
<1>8. CASE Enqueue(h)
  <2>1. queue' \subseteq Message /\ issued' \in 0 .. MaxTasks
    BY <1>1, <1>7, <1>8, IssueType DEF Enqueue
  <2> QED
    BY <1>1, <1>4, <1>8, <2>1 DEF Enqueue, TypeInv, TypeOK
<1>9. CASE EnqueueFail(h)
  <2>1. faults' \in 0 .. MaxFaults
    BY <1>1, <1>9, FaultsType DEF EnqueueFail
  <2> QED
    BY <1>1, <1>4, <1>9, <2>1 DEF EnqueueFail, TypeInv, TypeOK
<1>10. CASE CommitImport(h)
  <2>1. session[h].text \in Contents
    BY <1>1, <1>10, SessionType, ErrandFields DEF CommitImport, Doing
  <2> QED
    BY <1>1, <1>3, <1>10, <2>1 DEF CommitImport, TypeInv, TypeOK
<1>11. ASSUME NEW c \in Files, StageUpload(h, c)
       PROVE  TypeInv'
  <2>1. queue' \subseteq Message /\ issued' \in 0 .. MaxTasks /\ issued + 1 \in Tasks
    BY <1>1, <1>11, IssueType, AimTypes DEF StageUpload
  <2>2. staged' \subseteq [task : Tasks, text : Contents]
    BY <1>1, <1>11, <2>1, ContentsAssumption DEF StageUpload, TypeOK
  <2>3. StepsFit'
    BY <1>1, <1>11, StepsStay DEF StageUpload
  <2> QED
    BY <1>1, <1>11, <2>1, <2>2, <2>3 DEF StageUpload, TypeInv, TypeOK
<1>12. ASSUME NEW S \in SUBSET LiveSpecs, DeleteSpecs(h, S)
       PROVE  TypeInv'
  <2>1. StepsFit'
    BY <1>1, <1>12, StepsStay DEF DeleteSpecs
  <2> QED
    BY <1>1, <1>12, <2>1 DEF DeleteSpecs, TypeInv, TypeOK
<1>13. ASSUME NEW S \in SUBSET LiveSpecs, ClearSpecs(h, S)
       PROVE  TypeInv'
  <2>1. StepsFit'
    BY <1>1, <1>13, StepsStay DEF ClearSpecs
  <2> QED
    BY <1>1, <1>13, <2>1 DEF ClearSpecs, TypeInv, TypeOK, Contents
<1>14. ASSUME h \in Agents, NEW s \in Specs, NEW c \in Texts, PushDelete(h, s, c)
       PROVE  TypeInv'
  <2> DEFINE e == [step |-> "push", spec |-> s, text |-> c, seen |-> ChunksOf(s)]
  <2>1. e \in Errand /\ e.text \in Texts
    BY <1>1 DEF Errand, ChunksOf, TypeOK, Contents
  <2>2. session' = [session EXCEPT ![h] = e]
    BY <1>14 DEF PushDelete
  <2> HIDE DEF e
  <2>3. session' \in [Sessions -> Errand \cup Requeue \cup {Idle}] /\ StepsFit'
    BY <1>14, <2>1, <2>2, SessionUpdate DEF PushDelete
  <2> QED
    BY <1>1, <1>14, <2>3 DEF PushDelete, TypeInv, TypeOK
<1>15. CASE PushCommit(h)
  <2>1. session[h].spec \in Specs
    BY <1>1, <1>15, SessionType, ErrandFields DEF PushCommit, Doing
  <2>2. session[h].text \in Texts /\ h \in Agents
    BY <1>1, <1>15 DEF PushCommit, StepsFit
  <2>3. chunks' \subseteq Chunk
    BY <1>1, <1>15, <2>1, <2>2 DEF PushCommit, TypeOK, Chunk
  <2> QED
    BY <1>1, <1>3, <1>15, <2>3 DEF PushCommit, TypeInv, TypeOK
<1>16. CASE PushFail(h)
  BY <1>1, <1>3, <1>16 DEF PushFail, TypeInv, TypeOK
<1>17. CASE SessionCrash(h)
  <2>1. faults' \in 0 .. MaxFaults
    BY <1>1, <1>17, FaultsType DEF SessionCrash
  <2> QED
    BY <1>1, <1>3, <1>17, <2>1 DEF SessionCrash, TypeInv, TypeOK
<1>18. ASSUME h \in Agents, NEW s \in Specs, PushNothing(h, s)
       PROVE  TypeInv'
  <2>1. StepsFit'
    BY <1>1, <1>18, StepsStay DEF PushNothing
  <2> QED
    BY <1>1, <1>18, <2>1 DEF PushNothing, TypeInv, TypeOK
<1> QED
  BY <1>5, <1>6, <1>8, <1>9, <1>10, <1>11, <1>12, <1>13, <1>14, <1>15, <1>16, <1>17, <1>18
  DEF EditorStep, ImporterStep, AgentStep

LEMMA WorkerType ==
    ASSUME TypeInv, NEW w \in Workers, WorkerStep(w) \/ WorkerFault(w)
    PROVE  TypeInv'
<1> USE DEF tables, broker
<1>1. TypeOK /\ StepsFit
    BY DEF TypeInv
<1>2. ASSUME NEW step \in {"ready", "failed"}, NEW m \in Message, NEW c \in Contents,
             Begin(w, m, step, c), UNCHANGED session
      PROVE  /\ work' \in [Workers -> Job \cup {Idle}] /\ StepsFit'
             /\ UNCHANGED outcome
  <2> DEFINE j == [step |-> step, msg |-> m, text |-> c, seen |-> {}]
  <2>1. j \in Job /\ j.step \notin {"indexing", "logged"}
    BY DEF Job, JobSteps
  <2>2. work' = [work EXCEPT ![w] = j] /\ UNCHANGED outcome
    BY <1>2 DEF Begin
  <2> HIDE DEF j
  <2> QED
    BY <1>2, <2>1, <2>2, WorkUpdate
<1>3. ASSUME NEW m \in Message, Refuse(w, m), UNCHANGED session
      PROVE  /\ UNCHANGED work /\ StepsFit'
             /\ outcome' \subseteq [task : Tasks, how : Ends]
  BY <1>1, <1>3, MessageFields, StepsStay DEF Refuse, TypeOK, Ends
<1>4. ASSUME NEW how \in Ends,
             work[w] # Idle, Finish(w, how), UNCHANGED session
      PROVE  /\ work' \in [Workers -> Job \cup {Idle}] /\ StepsFit'
             /\ outcome' \subseteq [task : Tasks, how : Ends]
  <2>1. work[w].msg.task \in Tasks
    BY <1>1, <1>4, BusyType, MessageFields DEF Busy
  <2>2. work' \in [Workers -> Job \cup {Idle}] /\ StepsFit'
    BY <1>4, WorkUpdate DEF Finish
  <2> QED
    BY <1>1, <1>4, <2>1, <2>2 DEF Finish, TypeOK
<1>5. ASSUME NEW step \in JobSteps, step # "indexing", work[w] # Idle,
             step = "logged" => work[w].msg.retries < MaxRetries,
             Goto(w, step), UNCHANGED session
      PROVE  /\ work' \in [Workers -> Job \cup {Idle}] /\ StepsFit'
             /\ UNCHANGED outcome
  <2> DEFINE j == [work[w] EXCEPT !.step = step]
  <2>1. /\ j \in Job /\ j.step # "indexing"
        /\ j.step = "logged" => j.msg.retries < MaxRetries
    BY <1>1, <1>5, BusyType, JobStep DEF Busy
  <2>2. work' = [work EXCEPT ![w] = j] /\ UNCHANGED outcome
    BY <1>5 DEF Goto
  <2> HIDE DEF j
  <2> QED
    BY <1>5, <2>1, <2>2, WorkUpdate
<1>6. ASSUME NEW m \in queue, TakeSpec(w, m) PROVE TypeInv'
  <2>1. m \in Message
    BY <1>1 DEF TypeOK
  <2>2. Live(m.aim.target) => content[m.aim.target] \in Contents
    BY DEF Live
  <2> QED
    BY <1>1, <1>2, <1>3, <1>6, <2>1, <2>2 DEF TakeSpec, Take, TypeInv, TypeOK
<1>7. ASSUME NEW m \in queue, TakeExpired(w, m) PROVE TypeInv'
  <2>1. m \in Message
    BY <1>1 DEF TypeOK
  <2> QED
    BY <1>1, <1>3, <1>7, <2>1 DEF TakeExpired, Take, TypeInv, TypeOK
<1>8. ASSUME NEW m \in queue, NEW f \in staged, TakeUpload(w, m, f) PROVE TypeInv'
  <2>1. m \in Message /\ f.text \in Contents
    BY <1>1 DEF TypeOK
  <2> QED
    BY <1>1, <1>2, <1>3, <1>8, <2>1 DEF TakeUpload, Take, TypeInv, TypeOK
<1>9. CASE IndexNothing(w)
  BY <1>1, <1>4, <1>5, <1>9 DEF IndexNothing, AtStep, JobSteps, Ends, TypeInv, TypeOK
<1>10. CASE DeleteChunks(w)
  <2> DEFINE seen == ChunksOf(work[w].msg.aim.target)
             j == [work[w] EXCEPT !.step = "indexing", !.seen = seen]
  <2>1. w \in Busy /\ work[w] \in Job
    BY <1>1, <1>10, BusyType DEF DeleteChunks, AtStep, Busy
  <2>2. seen \in SUBSET Chunk
    BY <1>1 DEF ChunksOf, TypeOK
  <2>3. j \in Job /\ j.step = "indexing" /\ j.msg = work[w].msg /\ j.text = work[w].text
    BY <2>1, <2>2, JobSeen
  <2>4. work' = [work EXCEPT ![w] = j]
    BY <1>1, <1>10 DEF DeleteChunks, TypeOK
  <2>5. work[w].text \in Texts /\ ForSpec(work[w].msg)
    BY <1>10 DEF DeleteChunks
  <2> HIDE DEF j
  <2>6. work' \in [Workers -> Job \cup {Idle}] /\ StepsFit'
    BY <1>10, <2>3, <2>4, <2>5, WorkUpdate DEF DeleteChunks
  <2> QED
    BY <1>1, <1>10, <2>6 DEF DeleteChunks, TypeInv, TypeOK
<1>11. CASE CommitChunks(w)
  <2>1. w \in Busy /\ work[w].msg \in Message
    BY <1>1, <1>11, BusyType DEF CommitChunks, AtStep, Busy
  <2>2. work[w].text \in Texts /\ ForSpec(work[w].msg)
    BY <1>1, <1>11, <2>1 DEF CommitChunks, AtStep, StepsFit
  <2>3. work[w].msg.aim.target \in Specs /\ work[w].msg.task \in Tasks
    BY <2>1, <2>2, MessageFields
  <2>4. chunks' \subseteq Chunk
    BY <1>1, <1>11, <2>2, <2>3 DEF CommitChunks, TypeOK, Chunk
  <2> QED
    BY <1>1, <1>4, <1>11, <2>4 DEF CommitChunks, AtStep, Ends, TypeInv, TypeOK
<1>12. ASSUME NEW s \in Specs, StoreUpload(w, s) PROVE TypeInv'
  <2>1. work[w].msg.task \in Tasks /\ work[w].text \in Texts
    BY <1>1, <1>12, BusyType, MessageFields DEF StoreUpload, AtStep, Busy
  <2>2. /\ chunks' \subseteq Chunk
        /\ stored' \subseteq [task : Tasks, spec : Specs]
        /\ content' \in [Specs -> Contents \cup {Unborn, Gone}]
    BY <1>1, <1>12, <2>1 DEF StoreUpload, TypeOK, Chunk, Contents
  <2> QED
    BY <1>1, <1>5, <1>12, <2>2 DEF StoreUpload, AtStep, JobSteps, TypeInv, TypeOK
<1>13. CASE RemoveKey(w)
  BY <1>1, <1>4, <1>13 DEF RemoveKey, AtStep, Ends, TypeInv, TypeOK
<1>14. CASE IndexFail(w)
  <2>1. w \in Busy /\ work[w].msg \in Message
    BY <1>1, <1>14, BusyType DEF IndexFail, AtStep, Busy
  <2>2. queue' \subseteq Message
    <3>1. CASE RetriedAtOnce(w)
      <4>1. work[w].msg.line \in {"first", "second"} /\ work[w].msg.retries < MaxRetries
        BY <2>1, <3>1 DEF RetriedAtOnce, Message
      <4>2. Again(work[w].msg, work[w].msg.line) \in Message
        BY <2>1, <4>1, AgainType
      <4> QED
        BY <1>1, <1>14, <4>2 DEF IndexFail, TypeOK
    <3>2. CASE ~RetriedAtOnce(w)
      BY <1>1, <1>14, <3>2 DEF IndexFail, TypeOK
    <3> QED
      BY <3>1, <3>2
  <2> QED
    BY <1>1, <1>2, <1>14, <2>1, <2>2
    DEF IndexFail, Fail, Contents, TypeInv, TypeOK
<1>15. CASE LogFailure(w)
  <2>1. w \in Busy /\ work[w].msg \in Message
    BY <1>1, <1>15, BusyType DEF LogFailure, AtStep, Busy
  <2>2. FailureRow(work[w].msg) \in FailedTask
    BY <2>1, MessageFields, TaskBoundsAssumption DEF FailureRow, FailedTask
  <2>3. failed' \subseteq FailedTask
    BY <1>1, <1>15, <2>2 DEF LogFailure, TypeOK
  <2> QED
    BY <1>1, <1>4, <1>5, <1>15, <2>1, <2>3
    DEF LogFailure, AtStep, Busy, JobSteps, Ends, TypeInv, TypeOK
<1>16. CASE LogConflict(w)
  BY <1>1, <1>4, <1>16 DEF LogConflict, AtStep, Ends, TypeInv, TypeOK
<1>17. CASE Retry(w)
  <2>1. w \in Busy /\ work[w].msg \in Message /\ work[w].step = "logged"
    BY <1>1, <1>17, BusyType DEF Retry, AtStep, Busy
  <2>2. Again(work[w].msg, "second") \in Message
    BY <1>1, <2>1, AgainType DEF StepsFit
  <2>3. work' \in [Workers -> Job \cup {Idle}] /\ StepsFit'
    BY <1>17, WorkUpdate DEF Retry
  <2> QED
    BY <1>1, <1>17, <2>2, <2>3 DEF Retry, TypeInv, TypeOK
<1>18. CASE LogFail(w) \/ RetryFail(w) \/ WorkerCrash(w)
  <2>1. faults' \in 0 .. MaxFaults
    BY <1>1, <1>18, FaultsType DEF LogFail, RetryFail, WorkerCrash
  <2> QED
    BY <1>1, <1>4, <1>18, <2>1
    DEF LogFail, RetryFail, WorkerCrash, AtStep, Ends, TypeInv, TypeOK
<1>19. ASSUME NEW m \in queue, TakeFail(w, m) PROVE TypeInv'
  <2>1. m \in Message
    BY <1>1 DEF TypeOK
  <2> QED
    BY <1>1, <1>2, <1>19, <2>1 DEF TakeFail, Take, Fail, Contents, TypeInv, TypeOK
<1>20. CASE UploadFail(w)
  <2>1. work[w].msg \in Message
    BY <1>1, <1>20, BusyType DEF UploadFail, AtStep, Busy
  <2>2. faults' \in 0 .. MaxFaults
    BY <1>1, <1>20, FaultsType DEF UploadFail
  <2> QED
    BY <1>1, <1>2, <1>20, <2>1, <2>2 DEF UploadFail, Fail, Contents, TypeInv, TypeOK
<1> QED
  BY <1>6, <1>7, <1>8, <1>9, <1>10, <1>11, <1>12, <1>13, <1>14, <1>15, <1>16, <1>17, <1>18,
     <1>19, <1>20
  DEF WorkerStep, WorkerFault

LEMMA AdminType ==
    ASSUME TypeInv, NEW h \in Admins, AdminStep(h)
    PROVE  TypeInv'
<1> USE DEF tables, broker
<1>1. TypeOK /\ StepsFit /\ h \in Sessions
    BY DEF TypeInv, Sessions
<1>2. ASSUME NEW f \in failed, NEW status \in {"pending", "retrying", "failed", "resolved"},
             NEW n \in 0 .. MaxRetries, SetRow(f, status, n)
      PROVE  failed' \subseteq FailedTask
  <2>1. f \in FailedTask
    BY <1>1 DEF TypeOK
  <2>2. [f EXCEPT !.status = status, !.count = n] \in FailedTask
    BY <2>1, RowUpdate
  <2> QED
    BY <1>1, <1>2, <2>2 DEF SetRow, TypeOK
<1>3. ASSUME NEW f \in failed, SendRequeue(h, f) PROVE TypeInv'
  <2>1. f \in FailedTask
    BY <1>1 DEF TypeOK
  <2>2. f.aim \in Aim /\ f.task \in Tasks /\ f.count \in {n \in Nat : n < MaxRetries}
    BY <1>3, <2>1, RowFields, TaskBoundsAssumption DEF SendRequeue, MayRequeue
  <2>3. queue' \subseteq Message /\ issued' \in 0 .. MaxTasks
    BY <1>1, <1>3, <2>2, IssueType DEF SendRequeue
  <2> DEFINE e == [step |-> "count", task |-> f.task, count |-> f.count]
  <2>4. e \in Requeue /\ e.step # "push"
    BY <2>2 DEF Requeue
  <2>5. session' = [session EXCEPT ![h] = e]
    BY <1>3 DEF SendRequeue
  <2> HIDE DEF e
  <2>6. session' \in [Sessions -> Errand \cup Requeue \cup {Idle}] /\ StepsFit'
    BY <1>1, <1>3, <2>4, <2>5, SessionUpdate DEF SendRequeue
  <2> QED
    BY <1>1, <1>3, <2>3, <2>6 DEF SendRequeue, TypeInv, TypeOK
<1>4. CASE CountRequeue(h)
  <2>1. session[h] \in Requeue
    BY <1>1, <1>4, SessionType DEF CountRequeue, Doing
  <2>2. session[h].count + 1 \in 0 .. MaxRetries
    BY <2>1, TaskBoundsAssumption DEF Requeue
  <2>3. failed' \subseteq FailedTask
    BY <1>2, <1>4, <2>2 DEF CountRequeue
  <2>4. session' \in [Sessions -> Errand \cup Requeue \cup {Idle}] /\ StepsFit'
    BY <1>1, <1>4, SessionUpdate DEF CountRequeue
  <2> QED
    BY <1>1, <1>4, <2>3, <2>4 DEF CountRequeue, TypeInv, TypeOK
<1>5. ASSUME NEW f \in failed, RefuseRequeue(h, f) \/ Resolve(h, f) PROVE TypeInv'
  <2>1. f.count \in 0 .. MaxRetries
    BY <1>1, RowFields DEF TypeOK
  <2>2. failed' \subseteq FailedTask
    BY <1>2, <1>5, <2>1 DEF RefuseRequeue, Resolve
  <2>3. StepsFit'
    BY <1>1, <1>5, StepsStay DEF RefuseRequeue, Resolve
  <2> QED
    BY <1>1, <1>5, <2>2, <2>3 DEF RefuseRequeue, Resolve, TypeInv, TypeOK
<1> QED
  BY <1>3, <1>4, <1>5 DEF AdminStep

\* Every step is one of these.
LEMMA StepCases ==
    ASSUME [Next]_vars
    PROVE  \/ \E h \in Sessions :
                 \/ h \in Editors /\ EditorStep(h)
                 \/ h \in Importers /\ ImporterStep(h)
                 \/ h \in Agents /\ AgentStep(h)
                 \/ Enqueue(h) \/ EnqueueFail(h) \/ SessionCrash(h)
           \/ \E h \in Admins : AdminStep(h)
           \/ \E f \in staged : ExpireUpload(f)
           \/ \E w \in Workers : WorkerStep(w) \/ WorkerFault(w)
           \/ UNCHANGED vars
BY DEF Next, Sessions

LEMMA TypeStep == TypeInv /\ [Next]_vars => TypeInv'
<1> SUFFICES ASSUME TypeInv, [Next]_vars PROVE TypeInv'
    OBVIOUS
<1>1. ASSUME NEW f \in staged, ExpireUpload(f) PROVE TypeInv'
  BY <1>1, StepsStay DEF ExpireUpload, TypeInv, TypeOK, tables, broker
<1>2. CASE UNCHANGED vars
  BY <1>2, StepsStay DEF vars, TypeInv, TypeOK, tables, broker
<1> QED
  BY <1>1, <1>2, StepCases, HandlerType, AdminType, WorkerType

LEMMA TypeInit == Init => TypeInv
BY TaskBoundsAssumption DEF Init, TypeInv, TypeOK, StepsFit, Busy, Doing, Sessions

\* The variables keep their types: among others, no attempt of a task carries
\* more retries than max_retries, the inner and the outer retry of a failing
\* upload included.
THEOREM TypeCorrect == Spec => []TypeOK
<1>1. TypeInv => TypeOK
    BY DEF TypeInv
<1> QED
    BY <1>1, TypeInit, TypeStep, PTL DEF Spec

-----------------------------------------------------------------------------
(* The search index *)

\* Writing the row of a spec keeps its chunks valid, unless it takes it away.
LEMMA WriteKeepsIndex ==
    ASSUME TypeOK, SearchShowsOneIndexing, UNCHANGED chunks,
           \A s \in Specs : Live(s) => content'[s] \in Contents
    PROVE  SearchShowsOneIndexing'
BY DEF SearchShowsOneIndexing, Live, TypeOK, Chunk

\* A transaction that fits leaves its own chunks alone in the index.
LEMMA FitLeavesOne ==
    ASSUME TypeOK, SearchShowsOneIndexing, UNCHANGED content,
           NEW s \in Specs, NEW text, NEW by, NEW seen, Fits(s, seen),
           chunks' = (chunks \ seen) \cup {[spec |-> s, text |-> text, by |-> by]}
    PROVE  SearchShowsOneIndexing'
<1> DEFINE new == [spec |-> s, text |-> text, by |-> by]
<1>1. Live(s) /\ \A c \in chunks : c.spec = s => c \in seen
    BY DEF Fits, ChunksOf
<1>2. new.spec = s
    OBVIOUS
<1> HIDE DEF new
<1>3. chunks' = (chunks \ seen) \cup {new}
    BY DEF new
<1>4. \A c \in chunks' : c = new \/ (c \in chunks /\ c.spec # s)
    BY <1>1, <1>3
<1>5. \A c \in chunks' : Live(c.spec)
    BY <1>1, <1>2, <1>4 DEF SearchShowsOneIndexing
<1>6. \A c, d \in chunks' : d.spec = c.spec => d = c
    BY <1>2, <1>4 DEF SearchShowsOneIndexing
<1> QED
    BY <1>5, <1>6 DEF SearchShowsOneIndexing, Live

LEMMA IndexStep ==
    TypeInv /\ SearchShowsOneIndexing /\ [Next]_vars => SearchShowsOneIndexing'
<1> SUFFICES ASSUME TypeInv, SearchShowsOneIndexing, [Next]_vars
             PROVE  SearchShowsOneIndexing'
    OBVIOUS
<1> USE DEF tables, broker
<1>1. TypeOK /\ StepsFit
    BY DEF TypeInv
<1>2. ASSUME UNCHANGED <<content, chunks>> PROVE SearchShowsOneIndexing'
  BY <1>1, <1>2, WriteKeepsIndex DEF Live
<1>3. ASSUME NEW h \in Sessions, NEW s \in Specs, NEW c \in Contents,
             WriteSpec(h, s, c) \/ FlushImport(h, s, c)
      PROVE  SearchShowsOneIndexing'
  <2>1. content[s] = Unborn => ~Live(s)
    BY ContentsAssumption DEF Live
  <2> QED
    BY <1>1, <1>3, <2>1, WriteKeepsIndex DEF WriteSpec, FlushImport, Live, TypeOK
<1>4. ASSUME NEW h \in Sessions, CommitImport(h) PROVE SearchShowsOneIndexing'
  <2>1. session[h].text \in Contents
    BY <1>1, <1>4, SessionType, ErrandFields DEF CommitImport, Doing
  <2> QED
    BY <1>1, <1>4, <2>1, WriteKeepsIndex DEF CommitImport, Live, TypeOK
<1>5. ASSUME NEW h \in Sessions, NEW S \in SUBSET LiveSpecs, DeleteSpecs(h, S)
      PROVE  SearchShowsOneIndexing'
  <2>1. chunks' \subseteq chunks /\ \A c \in chunks' : c.spec \notin S
    BY <1>5 DEF DeleteSpecs
  <2>2. \A s \in Specs \ S : content'[s] = content[s]
    BY <1>5 DEF DeleteSpecs
  <2> QED
    BY <1>1, <2>1, <2>2 DEF SearchShowsOneIndexing, Live, TypeOK, Chunk
<1>6. ASSUME NEW h \in Sessions, NEW S \in SUBSET LiveSpecs, ClearSpecs(h, S)
      PROVE  SearchShowsOneIndexing'
  BY <1>1, <1>6, WriteKeepsIndex DEF ClearSpecs, Live, Contents
<1>7. ASSUME NEW h \in Sessions, PushCommit(h) PROVE SearchShowsOneIndexing'
  <2>1. session[h].spec \in Specs
    BY <1>1, <1>7, SessionType, ErrandFields DEF PushCommit, Doing
  <2> QED
    BY <1>1, <1>7, <2>1, FitLeavesOne DEF PushCommit
<1>8. ASSUME NEW w \in Workers, CommitChunks(w) PROVE SearchShowsOneIndexing'
  <2>1. w \in Busy /\ work[w].msg \in Message
    BY <1>1, <1>8, BusyType DEF CommitChunks, AtStep, Busy
  <2>2. work[w].msg.aim.target \in Specs
    BY <1>1, <1>8, <2>1, MessageFields DEF CommitChunks, AtStep, StepsFit
  <2> QED
    BY <1>1, <1>8, <2>2, FitLeavesOne DEF CommitChunks
<1>9. ASSUME NEW w \in Workers, NEW s \in Specs, StoreUpload(w, s)
      PROVE  SearchShowsOneIndexing'
  <2> DEFINE new == [spec |-> s, text |-> work[w].text, by |-> work[w].msg.task]
  <2>1. \A c \in chunks : c.spec # s
    BY <1>9, ContentsAssumption DEF StoreUpload, SearchShowsOneIndexing, Live
  <2>2. content'[s] \in Contents /\ \A r \in Specs \ {s} : content'[r] = content[r]
    BY <1>1, <1>9 DEF StoreUpload, TypeOK, Contents
  <2>3. new.spec = s
    OBVIOUS
  <2>4. chunks' = chunks \cup {new}
    BY <1>9 DEF StoreUpload
  <2>5. \A c \in chunks : c.spec \in Specs
    BY <1>1 DEF TypeOK, Chunk
  <2> HIDE DEF new
  <2> QED
    BY <2>1, <2>2, <2>3, <2>4, <2>5 DEF SearchShowsOneIndexing, Live
<1>10. ASSUME NEW h \in Sessions,
              \/ h \in Editors /\ EditorStep(h)
              \/ h \in Importers /\ ImporterStep(h)
              \/ h \in Agents /\ AgentStep(h)
              \/ Enqueue(h) \/ EnqueueFail(h) \/ SessionCrash(h)
       PROVE  SearchShowsOneIndexing'
  <2>1. ASSUME NEW c \in Files, StageUpload(h, c) PROVE SearchShowsOneIndexing'
    BY <1>2, <2>1 DEF StageUpload
  <2>2. ASSUME NEW s \in Specs, NEW c \in Texts, PushDelete(h, s, c)
        PROVE  SearchShowsOneIndexing'
    BY <1>2, <2>2 DEF PushDelete
  <2>3. CASE PushFail(h) \/ Enqueue(h) \/ EnqueueFail(h) \/ SessionCrash(h)
    BY <1>2, <2>3 DEF PushFail, Enqueue, EnqueueFail, SessionCrash
  <2>4. ASSUME NEW s \in Specs, PushNothing(h, s) PROVE SearchShowsOneIndexing'
    <3>1. chunks' \subseteq chunks /\ UNCHANGED content
      BY <2>4 DEF PushNothing
    <3> QED
      BY <3>1 DEF SearchShowsOneIndexing, Live
  <2> QED
    BY <1>3, <1>4, <1>5, <1>6, <1>7, <1>10, <2>1, <2>2, <2>3, <2>4
    DEF EditorStep, ImporterStep, AgentStep
<1>11. ASSUME NEW h \in Admins, AdminStep(h) PROVE SearchShowsOneIndexing'
  BY <1>2, <1>11 DEF AdminStep, SendRequeue, CountRequeue, RefuseRequeue, Resolve
<1>12. ASSUME NEW w \in Workers, WorkerStep(w) \/ WorkerFault(w)
       PROVE  SearchShowsOneIndexing'
  <2>1. CASE \/ \E m \in queue : TakeSpec(w, m) \/ TakeExpired(w, m) \/ TakeFail(w, m)
             \/ \E m \in queue, f \in staged : TakeUpload(w, m, f)
    BY <1>2, <2>1 DEF TakeSpec, TakeExpired, TakeUpload, TakeFail
  <2>2. CASE IndexNothing(w) \/ DeleteChunks(w) \/ RemoveKey(w) \/ IndexFail(w)
    BY <1>2, <2>2 DEF IndexNothing, DeleteChunks, RemoveKey, IndexFail
  <2>3. CASE LogFailure(w) \/ LogConflict(w) \/ Retry(w) \/ WorkerFault(w)
    BY <1>2, <2>3
    DEF LogFailure, LogConflict, Retry, WorkerFault, UploadFail, LogFail, RetryFail, WorkerCrash
  <2> QED
    BY <1>8, <1>9, <1>12, <2>1, <2>2, <2>3 DEF WorkerStep
<1>13. ASSUME NEW f \in staged, ExpireUpload(f) PROVE SearchShowsOneIndexing'
  BY <1>2, <1>13 DEF ExpireUpload
<1>14. CASE UNCHANGED vars
  BY <1>2, <1>14 DEF vars
<1> QED
  BY <1>10, <1>11, <1>12, <1>13, <1>14, StepCases

\* Search never mixes two indexings of a spec, nor shows a deleted one: any
\* number of workers and pushing agents may index it while others edit, clear
\* or delete it, because the constraints of the chunk table hold at commit.
THEOREM SearchStaysConsistent == Spec => []SearchShowsOneIndexing
<1>1. Init => SearchShowsOneIndexing
    BY DEF Init, SearchShowsOneIndexing
<1> QED
    BY <1>1, IndexStep, TypeInit, TypeStep, PTL DEF Spec

-----------------------------------------------------------------------------
(* The rows of failed tasks *)

\* A step keeps a row for each task and what it is about, and adds rows only for the tasks
\* of workers.
RowsMove ==
    /\ \A f \in failed : \E g \in failed' : g.task = f.task /\ g.aim = f.aim
    /\ \A g \in failed' :
          \/ \E f \in failed : g.task = f.task /\ g.aim = f.aim
          \/ \E w \in Busy : g.task = work[w].msg.task /\ g.aim = work[w].msg.aim

LEMMA RowsStay ==
    ASSUME UNCHANGED failed
    PROVE  RowsMove
BY DEF RowsMove

LEMMA RowChanged ==
    ASSUME TypeOK, NEW f \in failed,
           NEW status \in {"pending", "retrying", "failed", "resolved"},
           NEW n \in 0 .. MaxRetries, SetRow(f, status, n)
    PROVE  RowsMove
<1> DEFINE g == [f EXCEPT !.status = status, !.count = n]
<1>1. g.task = f.task /\ g.aim = f.aim
    BY DEF TypeOK, FailedTask
<1>2. failed' = (failed \ {f}) \cup {g}
    BY DEF SetRow
<1> HIDE DEF g
<1> QED
    BY <1>1, <1>2 DEF RowsMove

LEMMA AdminRows ==
    ASSUME TypeInv, NEW h \in Admins, AdminStep(h)
    PROVE  RowsMove
<1>1. TypeOK
    BY DEF TypeInv
<1>2. ASSUME NEW f \in failed, SendRequeue(h, f) PROVE RowsMove
  BY <1>2, RowsStay DEF SendRequeue
<1>3. CASE CountRequeue(h)
  <2>1. session[h] \in Requeue
    BY <1>1, <1>3, SessionType DEF CountRequeue, Doing, Sessions
  <2>2. session[h].count + 1 \in 0 .. MaxRetries
    BY <2>1, TaskBoundsAssumption DEF Requeue
  <2> QED
    BY <1>1, <1>3, <2>2, RowChanged DEF CountRequeue
<1>4. ASSUME NEW f \in failed, RefuseRequeue(h, f) \/ Resolve(h, f) PROVE RowsMove
  <2>1. f.count \in 0 .. MaxRetries
    BY <1>1, RowFields DEF TypeOK
  <2> QED
    BY <1>1, <1>4, <2>1, RowChanged DEF RefuseRequeue, Resolve
<1> QED
  BY <1>2, <1>3, <1>4 DEF AdminStep

LEMMA WorkerRows ==
    ASSUME TypeInv, NEW w \in Workers, WorkerStep(w) \/ WorkerFault(w)
    PROVE  RowsMove
<1>1. CASE LogFailure(w)
  <2> DEFINE g == FailureRow(work[w].msg)
  <2>1. g.task = work[w].msg.task /\ g.aim = work[w].msg.aim
    BY DEF FailureRow
  <2>2. failed' = failed \cup {g} /\ w \in Busy
    BY <1>1 DEF LogFailure, AtStep, Busy
  <2> HIDE DEF g
  <2> QED
    BY <2>1, <2>2 DEF RowsMove
<1>2. CASE ~LogFailure(w)
  <2>1. CASE \/ \E m \in queue : TakeSpec(w, m) \/ TakeExpired(w, m) \/ TakeFail(w, m)
             \/ \E m \in queue, f \in staged : TakeUpload(w, m, f)
    BY <2>1, RowsStay DEF TakeSpec, TakeExpired, TakeUpload, TakeFail
  <2>2. CASE IndexNothing(w) \/ DeleteChunks(w) \/ CommitChunks(w) \/ RemoveKey(w)
    BY <2>2, RowsStay DEF IndexNothing, DeleteChunks, CommitChunks, RemoveKey
  <2>3. CASE \/ \E s \in Specs : StoreUpload(w, s)
             \/ IndexFail(w) \/ LogConflict(w) \/ Retry(w) \/ WorkerFault(w)
    BY <2>3, RowsStay
    DEF StoreUpload, IndexFail, LogConflict, Retry,
        WorkerFault, UploadFail, LogFail, RetryFail, WorkerCrash
  <2> QED
    BY <1>2, <2>1, <2>2, <2>3 DEF WorkerStep
<1> QED
  BY <1>1, <1>2

LEMMA NextRows == TypeInv /\ [Next]_vars => RowsMove
<1> SUFFICES ASSUME TypeInv, [Next]_vars PROVE RowsMove
    OBVIOUS
<1>1. ASSUME NEW h \in Sessions,
             \/ h \in Editors /\ EditorStep(h)
             \/ h \in Importers /\ ImporterStep(h)
             \/ h \in Agents /\ AgentStep(h)
             \/ Enqueue(h) \/ EnqueueFail(h) \/ SessionCrash(h)
      PROVE  RowsMove
  <2>1. CASE EditorStep(h)
    BY <2>1, RowsStay DEF EditorStep, WriteSpec, StageUpload, DeleteSpecs, ClearSpecs
  <2>2. CASE ImporterStep(h)
    BY <2>2, RowsStay DEF ImporterStep, FlushImport, CommitImport
  <2>3. CASE AgentStep(h)
    BY <2>3, RowsStay DEF AgentStep, PushDelete, PushCommit, PushNothing, PushFail
  <2>4. CASE Enqueue(h) \/ EnqueueFail(h) \/ SessionCrash(h)
    BY <2>4, RowsStay DEF Enqueue, EnqueueFail, SessionCrash
  <2> QED
    BY <1>1, <2>1, <2>2, <2>3, <2>4
<1>2. ASSUME NEW f \in staged, ExpireUpload(f) PROVE RowsMove
  BY <1>2, RowsStay DEF ExpireUpload
<1>3. CASE UNCHANGED vars
  BY <1>3, RowsStay DEF vars
<1> QED
  BY <1>1, <1>2, <1>3, StepCases, AdminRows, WorkerRows

\* A worker that is about to send a retry has written the row of its task.
LoggedInv == \A w \in Busy : work[w].step = "logged" => Logged(work[w].msg)

LEMMA RowsLast ==
    ASSUME RowsMove, NEW m, Logged(m), NEW n, n = m
    PROVE  \E f \in failed' : f.task = n.task
BY DEF RowsMove, Logged

\* Only LogFailure brings a worker there.
LEMMA WorkerLogs ==
    ASSUME TypeInv, NEW w \in Workers, WorkerStep(w) \/ WorkerFault(w)
    PROVE  /\ \A v \in Workers \ {w} : work'[v] = work[v]
           /\ work'[w] # Idle /\ work'[w].step = "logged" =>
                  \E f \in failed' : f.task = work'[w].msg.task
<1>1. TypeOK
    BY DEF TypeInv
<1>2. \A j : work' = [work EXCEPT ![w] = j] =>
          work'[w] = j /\ \A v \in Workers \ {w} : work'[v] = work[v]
    BY <1>1 DEF TypeOK
<1>3. work[w] # Idle => work[w] \in Job
    BY <1>1, BusyType DEF Busy
<1> DEFINE Elsewhere == /\ \A v \in Workers \ {w} : work'[v] = work[v]
                        /\ work'[w] = Idle \/ work'[w].step # "logged"
<1>4. ASSUME NEW m, NEW c, NEW step \in {"ready", "failed"}, Begin(w, m, step, c)
      PROVE  Elsewhere
  <2> DEFINE j == [step |-> step, msg |-> m, text |-> c, seen |-> {}]
  <2>1. j.step # "logged" /\ work' = [work EXCEPT ![w] = j]
    BY <1>4 DEF Begin
  <2> HIDE DEF j
  <2> QED
    BY <1>2, <2>1
<1>5. ASSUME work[w] = Idle, NEW m, Refuse(w, m) PROVE Elsewhere
  BY <1>5 DEF Refuse
<1>6. ASSUME NEW how, Finish(w, how) PROVE Elsewhere
  BY <1>2, <1>6 DEF Finish
<1>7. ASSUME NEW step \in JobSteps, work[w] # Idle, Goto(w, step)
      PROVE  /\ \A v \in Workers \ {w} : work'[v] = work[v]
             /\ work'[w].step = step /\ work'[w].msg = work[w].msg
  <2>1. /\ work'[w] = [work[w] EXCEPT !.step = step]
        /\ \A v \in Workers \ {w} : work'[v] = work[v]
    BY <1>2, <1>7 DEF Goto
  <2> QED
    BY <1>3, <1>7, <2>1, JobStep
<1>8. CASE \/ \E m \in queue : TakeSpec(w, m) \/ TakeExpired(w, m) \/ TakeFail(w, m)
           \/ \E m \in queue, f \in staged : TakeUpload(w, m, f)
  BY <1>4, <1>5, <1>8 DEF TakeSpec, TakeExpired, TakeFail, TakeUpload, Take, Fail
<1>9. CASE IndexNothing(w) \/ \E s \in Specs : StoreUpload(w, s)
  BY <1>6, <1>7, <1>9 DEF IndexNothing, StoreUpload, AtStep, JobSteps
<1>10. CASE DeleteChunks(w)
  <2> DEFINE seen == ChunksOf(work[w].msg.aim.target)
             j == [work[w] EXCEPT !.step = "indexing", !.seen = seen]
  <2>1. seen \in SUBSET Chunk /\ work[w] \in Job
    BY <1>1, <1>3, <1>10 DEF ChunksOf, TypeOK, DeleteChunks, AtStep
  <2>2. j.step = "indexing"
    BY <2>1, JobSeen
  <2>3. work' = [work EXCEPT ![w] = j]
    BY <1>1, <1>10 DEF DeleteChunks, TypeOK
  <2> HIDE DEF j
  <2> QED
    BY <1>2, <2>2, <2>3
<1>11. CASE CommitChunks(w) \/ RemoveKey(w) \/ LogConflict(w) \/ Retry(w)
  BY <1>2, <1>6, <1>11 DEF CommitChunks, RemoveKey, LogConflict, Retry
<1>12. CASE IndexFail(w) \/ WorkerFault(w)
  BY <1>4, <1>6, <1>12
  DEF IndexFail, WorkerFault, UploadFail, LogFail, RetryFail, WorkerCrash, Fail
<1>13. CASE LogFailure(w)
  <2> DEFINE g == FailureRow(work[w].msg)
  <2>1. g.task = work[w].msg.task /\ g \in failed' /\ work[w] # Idle
    BY <1>13 DEF LogFailure, AtStep, FailureRow
  <2> HIDE DEF g
  <2>2. CASE Finish(w, "error")
    BY <1>6, <2>2
  <2>3. CASE Goto(w, "logged")
    BY <1>7, <2>1, <2>3 DEF JobSteps
  <2> QED
    BY <1>13, <2>2, <2>3 DEF LogFailure
<1> QED
  BY <1>8, <1>9, <1>10, <1>11, <1>12, <1>13 DEF WorkerStep

LEMMA LoggedStep == TypeInv /\ LoggedInv /\ [Next]_vars => LoggedInv'
<1> SUFFICES ASSUME TypeInv, LoggedInv, [Next]_vars PROVE LoggedInv'
    OBVIOUS
<1>1. RowsMove
    BY NextRows
<1>2. ASSUME NEW v \in Workers, work'[v] = work[v], work[v] # Idle, work[v].step = "logged"
      PROVE  \E f \in failed' : f.task = work'[v].msg.task
  <2>1. Logged(work[v].msg)
    BY <1>2 DEF LoggedInv, Busy
  <2> QED
    BY <1>1, <1>2, <2>1, RowsLast
<1>3. ASSUME \A v \in Workers : work'[v] # Idle /\ work'[v].step = "logged" =>
                 \E f \in failed' : f.task = work'[v].msg.task
      PROVE  LoggedInv'
  BY <1>3 DEF LoggedInv, Logged, Busy
<1>4. CASE \E w \in Workers : WorkerStep(w) \/ WorkerFault(w)
  BY <1>2, <1>3, <1>4, WorkerLogs
<1>5. CASE UNCHANGED work
  BY <1>2, <1>3, <1>5
<1>6. ASSUME NEW h \in Sessions,
             \/ h \in Editors /\ EditorStep(h)
             \/ h \in Importers /\ ImporterStep(h)
             \/ h \in Agents /\ AgentStep(h)
             \/ Enqueue(h) \/ EnqueueFail(h) \/ SessionCrash(h)
      PROVE  UNCHANGED work
  BY <1>6 DEF EditorStep, WriteSpec, StageUpload, DeleteSpecs, ClearSpecs,
     ImporterStep, FlushImport, CommitImport, AgentStep, PushDelete, PushCommit, PushNothing, PushFail,
     Enqueue, EnqueueFail, SessionCrash
<1>7. ASSUME NEW h \in Admins, AdminStep(h) PROVE UNCHANGED work
  BY <1>7 DEF AdminStep, SendRequeue, CountRequeue, RefuseRequeue, Resolve
<1>8. ASSUME NEW f \in staged, ExpireUpload(f) PROVE UNCHANGED work
  BY <1>8 DEF ExpireUpload
<1>9. CASE UNCHANGED vars
  BY <1>5, <1>9 DEF vars
<1> QED
  BY <1>4, <1>5, <1>6, <1>7, <1>8, <1>9, StepCases

LEMMA LoggedInit == Init => LoggedInv
BY DEF Init, LoggedInv, Busy

-----------------------------------------------------------------------------
(* What a step does to the attempts of tasks *)

\* The task has come to an end that somebody can see.
Recorded(t) ==
    \/ \E o \in outcome : o.task = t /\ o.how \in {"done", "refused", "lost", "unlogged"}
    \/ \E f \in failed : f.task = t

\* A worker that gives its task up has recorded it.
KeepsAttempts ==
    /\ UNCHANGED broker
    /\ \A w \in Workers :
          IF work'[w] = Idle
          THEN w \in Busy => \A t \in Tasks : t = work[w].msg.task => Recorded(t)'
          ELSE w \in Busy /\ work'[w].msg = work[w].msg

IssuesTask == \E aim \in Aim : Issue(aim) /\ UNCHANGED work

OthersWait(w) == \A v \in Workers \ {w} : work'[v] = work[v]

TakesTask(w, m) ==
    /\ work[w] = Idle /\ m \in queue /\ queue' = queue \ {m}
    /\ UNCHANGED issued /\ OthersWait(w)
    /\ IF work'[w] = Idle
       THEN \A t \in Tasks : t = m.task => Recorded(t)'
       ELSE work'[w].msg = m

\* The retry is the attempt that follows, or that of an upload, sent at once.
Resends(w, n) ==
    /\ w \in Busy /\ n.task = work[w].msg.task /\ n.aim = work[w].msg.aim
    /\ queue' = queue \cup {n}
    /\ UNCHANGED issued /\ OthersWait(w)
    /\ \/ work'[w] = Idle
       \/ ~ForSpec(n) /\ work'[w] # Idle /\ work'[w].msg = work[w].msg

\* What is recorded stays so.
RecordsStay == \A t \in Tasks : Recorded(t) => Recorded(t)'

TaskMove ==
    /\ RecordsStay
    /\ \/ KeepsAttempts
       \/ IssuesTask
       \/ \E w \in Workers, m \in queue : TakesTask(w, m)
       \/ \E w \in Workers, n \in Message : Resends(w, n)

LEMMA RecordsKept ==
    ASSUME outcome \subseteq outcome', failed \subseteq failed'
    PROVE  RecordsStay
BY DEF RecordsStay, Recorded

LEMMA OutcomeRecorded ==
    ASSUME NEW t, NEW how \in {"done", "refused", "lost", "unlogged"},
           [task |-> t, how |-> how] \in outcome'
    PROVE  Recorded(t)'
<1> DEFINE o == [task |-> t, how |-> how]
<1>1. o \in outcome' /\ o.task = t /\ o.how = how
    OBVIOUS
<1> HIDE DEF o
<1> QED
    BY <1>1 DEF Recorded

LEMMA WorkersWait ==
    ASSUME UNCHANGED <<work, queue, issued, outcome, failed>>
    PROVE  TaskMove
BY RecordsKept DEF TaskMove, KeepsAttempts, Busy, broker

LEMMA HandlerMove ==
    ASSUME TypeInv, NEW h \in Sessions,
           \/ h \in Editors /\ EditorStep(h)
           \/ h \in Importers /\ ImporterStep(h)
           \/ h \in Agents /\ AgentStep(h)
           \/ Enqueue(h) \/ EnqueueFail(h) \/ SessionCrash(h)
    PROVE  TaskMove
<1> USE DEF broker
<1>1. TypeOK
    BY DEF TypeInv
<1>2. ASSUME NEW aim \in Aim, Issue(aim), UNCHANGED <<work, outcome, failed>>
      PROVE  TaskMove
  BY <1>2, RecordsKept DEF TaskMove, IssuesTask
<1>3. CASE EditorStep(h)
  <2>1. ASSUME NEW c \in Files, StageUpload(h, c) PROVE TaskMove
    BY <1>2, <2>1, AimTypes DEF StageUpload
  <2>2. ASSUME NEW s \in Specs, NEW c \in Contents, WriteSpec(h, s, c) PROVE TaskMove
    BY <2>2, WorkersWait DEF WriteSpec
  <2>3. ASSUME NEW S \in SUBSET LiveSpecs, DeleteSpecs(h, S) \/ ClearSpecs(h, S)
        PROVE  TaskMove
    BY <2>3, WorkersWait DEF DeleteSpecs, ClearSpecs
  <2> QED
    BY <1>3, <2>1, <2>2, <2>3 DEF EditorStep
<1>4. CASE ImporterStep(h)
  BY <1>4, WorkersWait DEF ImporterStep, FlushImport, CommitImport
<1>5. CASE AgentStep(h)
  BY <1>5, WorkersWait DEF AgentStep, PushDelete, PushCommit, PushNothing, PushFail
<1>6. CASE Enqueue(h)
  <2>1. ToIndex(session[h].spec) \in Aim
    BY <1>1, <1>6, SessionType, ErrandFields, AimTypes DEF Enqueue, Doing
  <2> QED
    BY <1>2, <1>6, <2>1 DEF Enqueue
<1>7. CASE EnqueueFail(h) \/ SessionCrash(h)
  BY <1>7, WorkersWait DEF EnqueueFail, SessionCrash
<1> QED
  BY <1>3, <1>4, <1>5, <1>6, <1>7

LEMMA AdminMove ==
    ASSUME TypeInv, NEW h \in Admins, AdminStep(h)
    PROVE  TaskMove
<1> USE DEF broker
<1>1. TypeOK
    BY DEF TypeInv
<1>2. ASSUME NEW f \in failed, NEW status \in {"pending", "retrying", "failed", "resolved"},
             NEW n \in 0 .. MaxRetries, SetRow(f, status, n),
             UNCHANGED <<work, queue, issued, outcome>>
      PROVE  TaskMove
  <2> DEFINE g == [f EXCEPT !.status = status, !.count = n]
  <2>1. g.task = f.task
    BY <1>1, RowUpdate DEF TypeOK
  <2>2. failed' = (failed \ {f}) \cup {g}
    BY <1>2 DEF SetRow
  <2> HIDE DEF g
  <2>3. RecordsStay
    BY <1>2, <2>1, <2>2 DEF RecordsStay, Recorded
  <2>4. KeepsAttempts
    BY <1>2 DEF KeepsAttempts, Busy
  <2> QED
    BY <2>3, <2>4 DEF TaskMove
<1>3. ASSUME NEW f \in failed, SendRequeue(h, f) PROVE TaskMove
  <2>1. f.aim \in Aim
    BY <1>1, RowFields DEF TypeOK
  <2> QED
    BY <1>3, <2>1, RecordsKept DEF SendRequeue, TaskMove, IssuesTask
<1>4. CASE CountRequeue(h)
  <2>1. session[h] \in Requeue
    BY <1>1, <1>4, SessionType DEF CountRequeue, Doing, Sessions
  <2>2. session[h].count + 1 \in 0 .. MaxRetries
    BY <2>1, TaskBoundsAssumption DEF Requeue
  <2> QED
    BY <1>2, <1>4, <2>2 DEF CountRequeue
<1>5. ASSUME NEW f \in failed, RefuseRequeue(h, f) \/ Resolve(h, f) PROVE TaskMove
  <2>1. f.count \in 0 .. MaxRetries
    BY <1>1, RowFields DEF TypeOK
  <2> QED
    BY <1>2, <1>5, <2>1 DEF RefuseRequeue, Resolve
<1> QED
  BY <1>3, <1>4, <1>5 DEF AdminStep

LEMMA WorkerMove ==
    ASSUME TypeInv, LoggedInv, NEW w \in Workers, WorkerStep(w) \/ WorkerFault(w)
    PROVE  TaskMove
<1> USE DEF broker
<1>1. TypeOK /\ StepsFit
    BY DEF TypeInv
<1>2. \A j : work' = [work EXCEPT ![w] = j] => OthersWait(w) /\ work'[w] = j
    BY <1>1 DEF OthersWait, TypeOK
<1>3. work[w] # Idle => w \in Busy /\ work[w] \in Job /\ work[w].msg \in Message
    BY <1>1, BusyType DEF Busy
<1>4. ASSUME NEW step \in JobSteps, work[w] # Idle, Goto(w, step),
             UNCHANGED <<queue, issued>>, failed \subseteq failed'
      PROVE  TaskMove
  <2>1. OthersWait(w) /\ work'[w] = [work[w] EXCEPT !.step = step]
    BY <1>2, <1>4 DEF Goto
  <2>2. work'[w] \in Job /\ work'[w].msg = work[w].msg
    BY <1>3, <1>4, <2>1, JobStep
  <2>3. KeepsAttempts
    BY <1>3, <1>4, <2>1, <2>2, IdleAssumption DEF KeepsAttempts, OthersWait, Busy
  <2> QED
    BY <1>4, <2>3, RecordsKept DEF Goto, TaskMove
<1>5. ASSUME NEW how, work[w] # Idle, Finish(w, how),
             UNCHANGED <<queue, issued>>, failed \subseteq failed',
             how \in {"done", "refused", "lost", "unlogged"} \/ \E f \in failed' : f.task = work[w].msg.task
      PROVE  TaskMove
  <2>1. OthersWait(w) /\ work'[w] = Idle
    BY <1>2, <1>5 DEF Finish
  <2>2. ASSUME NEW t \in Tasks, t = work[w].msg.task PROVE Recorded(t)'
    <3>1. CASE how \in {"done", "refused", "lost", "unlogged"}
      BY <1>5, <2>2, <3>1, OutcomeRecorded DEF Finish
    <3>2. CASE \E f \in failed' : f.task = work[w].msg.task
      BY <2>2, <3>2 DEF Recorded
    <3> QED
      BY <1>5, <3>1, <3>2
  <2>3. KeepsAttempts
    BY <1>5, <2>1, <2>2 DEF KeepsAttempts, OthersWait, Busy
  <2> QED
    BY <1>5, <2>3, RecordsKept DEF Finish, TaskMove
<1>6. ASSUME NEW m \in queue, Take(w, m), UNCHANGED <<issued, failed>>,
             \/ Refuse(w, m)
             \/ \E step \in JobSteps, c \in Contents : Begin(w, m, step, c)
      PROVE  TaskMove
  <2>1. CASE Refuse(w, m)
    <3>1. Recorded(m.task)'
      <4>1. [task |-> m.task, how |-> "refused"] \in outcome'
        BY <2>1 DEF Refuse
      <4> QED
        BY <4>1, OutcomeRecorded
    <3>2. TakesTask(w, m)
      BY <1>6, <2>1, <3>1 DEF Take, Refuse, TakesTask, OthersWait
    <3> QED
      BY <1>6, <2>1, <3>2, RecordsKept DEF Refuse, TaskMove
  <2>2. ASSUME NEW step \in JobSteps, NEW c \in Contents, Begin(w, m, step, c)
        PROVE  TaskMove
    <3> DEFINE j == [step |-> step, msg |-> m, text |-> c, seen |-> {}]
    <3>1. j \in Job /\ j.msg = m
      BY <1>1 DEF Job, TypeOK
    <3>2. work' = [work EXCEPT ![w] = j] /\ UNCHANGED outcome
      BY <2>2 DEF Begin
    <3> HIDE DEF j
    <3>3. TakesTask(w, m)
      BY <1>2, <1>6, <3>1, <3>2, IdleAssumption DEF Take, TakesTask
    <3> QED
      BY <1>6, <3>2, <3>3, RecordsKept DEF TaskMove
  <2> QED
    BY <1>6, <2>1, <2>2
<1>7. ASSUME NEW m \in queue, TakeSpec(w, m) PROVE TaskMove
  BY <1>6, <1>7 DEF TakeSpec, Live, JobSteps
<1>8. ASSUME NEW m \in queue, TakeExpired(w, m) PROVE TaskMove
  BY <1>6, <1>8 DEF TakeExpired
<1>9. ASSUME NEW m \in queue, NEW f \in staged, TakeUpload(w, m, f) PROVE TaskMove
  <2>1. f.text \in Contents
    BY <1>1 DEF TypeOK
  <2> QED
    BY <1>6, <1>9, <2>1 DEF TakeUpload, JobSteps
<1>20. ASSUME NEW m \in queue, TakeFail(w, m) PROVE TaskMove
  BY <1>6, <1>20 DEF TakeFail, Fail, JobSteps, Contents
<1>21. ASSUME work[w] # Idle, Fail(w, work[w].msg)
       PROVE  /\ OthersWait(w) /\ UNCHANGED outcome
              /\ work'[w] # Idle /\ work'[w].msg = work[w].msg
  <2> DEFINE j == [step |-> "failed", msg |-> work[w].msg, text |-> Blank, seen |-> {}]
  <2>1. j \in Job /\ j.msg = work[w].msg
    BY <1>3, <1>21 DEF Job, JobSteps, Contents
  <2>2. work' = [work EXCEPT ![w] = j] /\ UNCHANGED outcome
    BY <1>21 DEF Fail, Begin
  <2> HIDE DEF j
  <2> QED
    BY <1>2, <2>1, <2>2, IdleAssumption
<1>22. ASSUME work[w] # Idle, Fail(w, work[w].msg), UNCHANGED <<queue, issued, failed>>
       PROVE  TaskMove
  <2>1. KeepsAttempts
    BY <1>3, <1>21, <1>22 DEF KeepsAttempts, OthersWait, Busy
  <2> QED
    BY <1>21, <1>22, <2>1, RecordsKept DEF TaskMove
<1>10. CASE IndexNothing(w)
  BY <1>4, <1>5, <1>10 DEF IndexNothing, AtStep, JobSteps
<1>11. CASE DeleteChunks(w)
  <2> DEFINE seen == ChunksOf(work[w].msg.aim.target)
             j == [work[w] EXCEPT !.step = "indexing", !.seen = seen]
  <2>1. seen \in SUBSET Chunk
    BY <1>1 DEF ChunksOf, TypeOK
  <2>2. w \in Busy
    BY <1>3, <1>11 DEF DeleteChunks, AtStep
  <2>3. j \in Job /\ j.msg = work[w].msg
    BY <1>3, <2>1, <2>2, JobSeen DEF Busy
  <2>4. work' = [work EXCEPT ![w] = j]
    BY <1>1, <1>11 DEF DeleteChunks, TypeOK
  <2> HIDE DEF j
  <2>5. KeepsAttempts
    BY <1>2, <1>11, <2>2, <2>3, <2>4, IdleAssumption
    DEF DeleteChunks, KeepsAttempts, OthersWait, Busy
  <2> QED
    BY <1>11, <2>5, RecordsKept DEF DeleteChunks, TaskMove
<1>12. CASE CommitChunks(w)
  BY <1>5, <1>12 DEF CommitChunks, AtStep
<1>13. ASSUME NEW s \in Specs, StoreUpload(w, s) PROVE TaskMove
  BY <1>4, <1>13 DEF StoreUpload, AtStep, JobSteps
<1>14. CASE RemoveKey(w)
  BY <1>5, <1>14 DEF RemoveKey, AtStep
<1>15. CASE IndexFail(w)
  <2>1. w \in Busy
    BY <1>3, <1>15 DEF IndexFail, AtStep
  <2>2. CASE RetriedAtOnce(w)
    <3> DEFINE n == Again(work[w].msg, work[w].msg.line)
    <3>1. work[w].msg.line \in {"first", "second"} /\ work[w].msg.retries < MaxRetries
      BY <1>3, <2>1, <2>2 DEF RetriedAtOnce, Message, Busy
    <3>2. n \in Message /\ n.task = work[w].msg.task /\ n.aim = work[w].msg.aim
      BY <1>3, <2>1, <3>1, AgainType DEF Busy
    <3>3. queue' = queue \cup {n}
      BY <1>15, <2>2 DEF IndexFail
    <3> HIDE DEF n
    <3>4. ~ForSpec(n)
      BY <2>2, <3>2 DEF RetriedAtOnce, ForSpec
    <3>5. /\ OthersWait(w) /\ UNCHANGED outcome
          /\ work'[w] # Idle /\ work'[w].msg = work[w].msg
      BY <1>15, <1>21, <2>1 DEF IndexFail, Busy
    <3>6. Resends(w, n)
      BY <1>15, <2>1, <3>2, <3>3, <3>4, <3>5 DEF IndexFail, Resends
    <3> QED
      BY <1>15, <3>2, <3>5, <3>6, RecordsKept DEF IndexFail, TaskMove
  <2>3. CASE ~RetriedAtOnce(w)
    BY <1>15, <1>22, <2>1, <2>3 DEF IndexFail, Busy
  <2> QED
    BY <2>2, <2>3
<1>16. CASE LogFailure(w)
  <2>1. failed \subseteq failed' /\ \E f \in failed' : f.task = work[w].msg.task
    <3> DEFINE f == FailureRow(work[w].msg)
    <3>1. f.task = work[w].msg.task
      BY DEF FailureRow
    <3>2. failed' = failed \cup {f}
      BY <1>16 DEF LogFailure
    <3> HIDE DEF f
    <3> QED
      BY <3>1, <3>2
  <2> QED
    BY <1>4, <1>5, <1>16, <2>1 DEF LogFailure, AtStep, JobSteps
<1>17. CASE LogConflict(w)
  BY <1>5, <1>17 DEF LogConflict, AtStep, Logged
<1>18. CASE Retry(w)
  <2> DEFINE n == Again(work[w].msg, "second")
  <2>1. w \in Busy /\ work[w].step = "logged"
    BY <1>3, <1>18 DEF Retry, AtStep
  <2>2. n \in Message /\ n.task = work[w].msg.task /\ n.aim = work[w].msg.aim
    BY <1>1, <1>3, <2>1, AgainType DEF StepsFit, Busy
  <2>3. queue' = queue \cup {n}
    BY <1>18 DEF Retry
  <2> HIDE DEF n
  <2>4. Resends(w, n)
    BY <1>2, <1>18, <2>1, <2>2, <2>3 DEF Retry, Resends
  <2> QED
    BY <1>18, <2>2, <2>4, RecordsKept DEF Retry, TaskMove
<1>19. CASE LogFail(w) \/ WorkerCrash(w)
  BY <1>5, <1>19 DEF LogFail, WorkerCrash, AtStep
<1>23. CASE UploadFail(w)
  BY <1>22, <1>23 DEF UploadFail, AtStep
<1>24. CASE RetryFail(w)
  <2>1. work[w] # Idle /\ \E f \in failed : f.task = work[w].msg.task
    BY <1>3, <1>24 DEF RetryFail, AtStep, LoggedInv, Logged
  <2> QED
    BY <1>5, <1>24, <2>1 DEF RetryFail
<1> QED
  BY <1>7, <1>8, <1>9, <1>10, <1>11, <1>12, <1>13, <1>14, <1>15, <1>16, <1>17, <1>18, <1>19,
     <1>20, <1>23, <1>24
  DEF WorkerStep, WorkerFault

LEMMA NextMove == TypeInv /\ LoggedInv /\ [Next]_vars => TaskMove
<1> SUFFICES ASSUME TypeInv, LoggedInv, [Next]_vars PROVE TaskMove
    OBVIOUS
<1>1. ASSUME NEW f \in staged, ExpireUpload(f) PROVE TaskMove
  BY <1>1, WorkersWait DEF ExpireUpload, broker
<1>2. CASE UNCHANGED vars
  BY <1>2, WorkersWait DEF vars, broker
<1> QED
  BY <1>1, <1>2, StepCases, HandlerMove, AdminMove, WorkerMove

-----------------------------------------------------------------------------
(* Attempts of one task *)

\* The inductive invariant: a new task has a number no attempt has.
AttemptInv ==
    /\ OneAttemptAtATime
    /\ \A m \in queue : m.task <= issued
    /\ \A w \in Busy : work[w].msg.task <= issued

LEMMA AttemptStep ==
    TypeInv /\ TypeInv' /\ AttemptInv /\ TaskMove => AttemptInv'
<1> SUFFICES ASSUME TypeInv, TypeInv', AttemptInv, TaskMove PROVE AttemptInv'
    OBVIOUS
<1> USE DEF broker
<1>1. /\ issued \in Nat
      /\ \A m \in queue : m.task \in Nat
      /\ \A w \in Busy : w \in Workers /\ work[w].msg.task \in Nat
  BY BusyType, MessageFields DEF TypeInv, TypeOK, Tasks
<1>2. CASE KeepsAttempts
  <2>1. \A w \in Busy' : w \in Busy /\ work'[w].msg = work[w].msg
    BY <1>2 DEF KeepsAttempts, Busy
  <2>2. queue' = queue /\ issued' = issued
    BY <1>2 DEF KeepsAttempts
  <2> QED
    BY <2>1, <2>2 DEF AttemptInv, OneAttemptAtATime, Rivals, ForSpec
<1>3. ASSUME NEW aim \in Aim, Issue(aim), UNCHANGED work PROVE AttemptInv'
  <2> DEFINE n == [task |-> issued + 1, aim |-> aim, retries |-> 0, line |-> "first"]
  <2>1. n.task = issued + 1
    OBVIOUS
  <2>2. queue' = queue \cup {n} /\ issued' = issued + 1 /\ Busy' = Busy
    BY <1>3 DEF Issue, Busy
  <2> HIDE DEF n
  <2>3. \A m \in queue : m.task # n.task
    BY <1>1, <2>1 DEF AttemptInv
  <2>4. \A w \in Busy : work[w].msg.task # n.task
    BY <1>1, <2>1 DEF AttemptInv
  <2>5. \A m \in queue' : m.task <= issued'
    BY <1>1, <2>1, <2>2 DEF AttemptInv
  <2>6. \A w \in Busy' : work'[w].msg.task <= issued'
    BY <1>1, <1>3, <2>2 DEF AttemptInv
  <2>7. OneAttemptAtATime'
    BY <1>3, <2>2, <2>3, <2>4 DEF AttemptInv, OneAttemptAtATime, Rivals, ForSpec
  <2> QED
    BY <2>5, <2>6, <2>7 DEF AttemptInv
<1>4. ASSUME NEW w \in Workers, NEW m \in queue, TakesTask(w, m) PROVE AttemptInv'
  <2>1. queue' = queue \ {m} /\ issued' = issued
    BY <1>4 DEF TakesTask
  <2>2. \A v \in Busy' : \/ v = w /\ work'[v].msg = m
                         \/ v \in Busy /\ v # w /\ work'[v] = work[v]
    BY <1>4 DEF TakesTask, OthersWait, Busy
  <2>3. \A n \in queue' : n \in queue /\ ~Rivals(n, m)
    BY <2>1 DEF AttemptInv, OneAttemptAtATime
  <2>4. \A v \in Busy : ~Rivals(m, work[v].msg) /\ ~Rivals(work[v].msg, m)
    BY DEF AttemptInv, OneAttemptAtATime, Rivals
  <2>5. \A a, b \in queue' : Rivals(a, b) => a = b
    BY <2>1 DEF AttemptInv, OneAttemptAtATime
  <2>6. \A a \in queue', v \in Busy' : ~Rivals(a, work'[v].msg)
    BY <2>2, <2>3 DEF AttemptInv, OneAttemptAtATime
  <2>7. \A u, v \in Busy' : Rivals(work'[u].msg, work'[v].msg) => u = v
    BY <2>2, <2>4 DEF AttemptInv, OneAttemptAtATime
  <2>8. OneAttemptAtATime'
    BY <2>5, <2>6, <2>7 DEF OneAttemptAtATime, Rivals, ForSpec
  <2> QED
    BY <2>1, <2>2, <2>8 DEF AttemptInv
<1>5. ASSUME NEW w \in Workers, NEW n \in Message, Resends(w, n) PROVE AttemptInv'
  <2>1. w \in Busy /\ n.task = work[w].msg.task /\ n.aim = work[w].msg.aim
    BY <1>5 DEF Resends
  <2>2. queue' = queue \cup {n} /\ issued' = issued
    BY <1>5 DEF Resends
  <2>3. \A x : Rivals(n, x) <=> Rivals(work[w].msg, x)
    BY <2>1 DEF Rivals, ForSpec
  <2>4. \A v \in Busy' : v \in Busy /\ work'[v].msg = work[v].msg /\ (v = w => ~ForSpec(n))
    BY <1>5 DEF Resends, OthersWait, Busy
  <2>5. \A m \in queue : ~Rivals(n, m) /\ ~Rivals(m, n)
    BY <2>1, <2>3 DEF AttemptInv, OneAttemptAtATime, Rivals
  <2>6. \A v \in Busy' : ~Rivals(n, work'[v].msg)
    <3>1. ASSUME NEW v \in Busy', v # w PROVE ~Rivals(n, work'[v].msg)
      BY <2>1, <2>3, <2>4, <3>1 DEF AttemptInv, OneAttemptAtATime
    <3>2. w \in Busy' => ~Rivals(n, work'[w].msg)
      BY <2>1, <2>4 DEF Rivals, ForSpec
    <3> QED
      BY <3>1, <3>2
  <2>7. \A a, b \in queue' : Rivals(a, b) => a = b
    BY <2>2, <2>5 DEF AttemptInv, OneAttemptAtATime
  <2>8. \A a \in queue', v \in Busy' : ~Rivals(a, work'[v].msg)
    BY <2>2, <2>4, <2>6 DEF AttemptInv, OneAttemptAtATime
  <2>9. \A u, v \in Busy' : Rivals(work'[u].msg, work'[v].msg) => u = v
    BY <2>4 DEF AttemptInv, OneAttemptAtATime
  <2>10. OneAttemptAtATime'
    BY <2>7, <2>8, <2>9 DEF OneAttemptAtATime, Rivals, ForSpec
  <2>11. /\ \A m \in queue' : m.task <= issued'
         /\ \A v \in Busy' : work'[v].msg.task <= issued'
    BY <2>1, <2>2, <2>4 DEF AttemptInv
  <2> QED
    BY <2>10, <2>11 DEF AttemptInv
<1> QED
  BY <1>2, <1>3, <1>4, <1>5 DEF TaskMove, IssuesTask

LEMMA AttemptInit == Init => AttemptInv
BY DEF Init, AttemptInv, OneAttemptAtATime, Busy

\* A spec task never races its own retry, nor the admin's requeue of it, with
\* any number of workers and admins, and workers and handlers that die.
THEOREM RetriesNeverRace == Spec => []OneAttemptAtATime
<1>1. AttemptInv => OneAttemptAtATime
    BY DEF AttemptInv
<1> QED
    BY <1>1, AttemptInit, AttemptStep, NextMove, LoggedInit, LoggedStep, TypeInit, TypeStep,
       PTL DEF Spec

-----------------------------------------------------------------------------
(* No task disappears *)

LEMMA TraceStep ==
    TypeInv /\ NoTaskDisappears /\ TaskMove => NoTaskDisappears'
<1> SUFFICES ASSUME TypeInv, NoTaskDisappears, TaskMove PROVE NoTaskDisappears'
    OBVIOUS
<1> USE DEF broker
<1>1. /\ issued \in Nat /\ 1 .. issued \subseteq Tasks
      /\ \A w \in Busy : w \in Workers
  BY TaskBoundsAssumption DEF TypeInv, TypeOK, Tasks, Busy
<1>2. \A t \in 1 .. issued : Pending(t) \/ Recorded(t)'
  BY <1>1 DEF NoTaskDisappears, Recorded, TaskMove, RecordsStay
<1>3. ASSUME NEW t \in 1 .. issued, Pending(t) PROVE Pending(t)' \/ Recorded(t)'
  <2>0. t \in Tasks
    BY <1>1
  <2>1. CASE KeepsAttempts
    <3>1. ASSUME NEW m \in queue, m.task = t PROVE Pending(t)'
      BY <2>1, <3>1 DEF KeepsAttempts, Pending
    <3>2. ASSUME NEW w \in Busy, work[w].msg.task = t PROVE Pending(t)' \/ Recorded(t)'
      BY <1>1, <2>0, <2>1, <3>2 DEF KeepsAttempts, Pending, Busy
    <3> QED
      BY <1>3, <3>1, <3>2 DEF Pending
  <2>2. CASE IssuesTask
    BY <1>3, <2>2 DEF IssuesTask, Issue, Pending, Busy
  <2>3. ASSUME NEW w \in Workers, NEW m \in queue, TakesTask(w, m)
        PROVE  Pending(t)' \/ Recorded(t)'
    <3>1. ASSUME NEW n \in queue, n.task = t, n # m PROVE Pending(t)'
      BY <2>3, <3>1 DEF TakesTask, Pending
    <3>2. CASE m.task = t
      BY <2>0, <2>3, <3>2 DEF TakesTask, Pending, Busy
    <3>3. ASSUME NEW v \in Busy, work[v].msg.task = t PROVE Pending(t)'
      BY <2>3, <3>3 DEF TakesTask, OthersWait, Pending, Busy
    <3> QED
      BY <1>3, <3>1, <3>2, <3>3 DEF Pending
  <2>4. ASSUME NEW w \in Workers, NEW n \in Message, Resends(w, n) PROVE Pending(t)'
    <3>1. ASSUME NEW m \in queue, m.task = t PROVE Pending(t)'
      BY <2>4, <3>1 DEF Resends, Pending
    <3>2. CASE work[w].msg.task = t
      BY <2>4, <3>2 DEF Resends, Pending
    <3>3. ASSUME NEW v \in Busy, v # w, work[v].msg.task = t PROVE Pending(t)'
      BY <2>4, <3>3 DEF Resends, OthersWait, Pending, Busy
    <3> QED
      BY <1>3, <3>1, <3>2, <3>3 DEF Pending
  <2> QED
    BY <2>1, <2>2, <2>3, <2>4 DEF TaskMove
<1>4. ASSUME NEW t \in 1 .. issued', t \notin 1 .. issued PROVE Pending(t)'
  <2>1. CASE issued' = issued
    BY <1>4, <2>1
  <2>2. CASE IssuesTask
    <3>1. PICK aim \in Aim : Issue(aim)
      BY <2>2 DEF IssuesTask
    <3>2. issued' = issued + 1 /\ t = issued + 1
      BY <1>1, <1>4, <3>1 DEF Issue
    <3> DEFINE n == [task |-> issued + 1, aim |-> aim, retries |-> 0, line |-> "first"]
    <3>3. n.task = issued + 1 /\ n \in queue'
      BY <3>1 DEF Issue
    <3> HIDE DEF n
    <3> QED
      BY <3>2, <3>3 DEF Pending
  <2> QED
    BY <2>1, <2>2 DEF TaskMove, KeepsAttempts, TakesTask, Resends
<1>5. \A t \in 1 .. issued' : Pending(t)' \/ Recorded(t)'
  BY <1>2, <1>3, <1>4
<1> QED
  BY <1>5 DEF NoTaskDisappears, Recorded

\* However failures, retries and requeues interleave, an issued task is pending,
\* was done or refused, or has a row of its own for the admin; it disappears only
\* with a worker that dies or a row that the database does not take.
THEOREM TasksLeaveATrace == Spec => []NoTaskDisappears
<1>1. Init => NoTaskDisappears
    BY DEF Init, NoTaskDisappears
<1> QED
    BY <1>1, TraceStep, NextMove, LoggedInit, LoggedStep, TypeInit, TypeStep, PTL DEF Spec

-----------------------------------------------------------------------------
(* Uploads *)

\* The inductive invariant for one worker that does not die: a staged file
\* whose text is stored is about to be removed, and an upload that is about
\* to be stored is not.
UploadInv ==
    /\ UploadStoredOnce
    /\ \A r \in stored : r.task <= issued
    /\ \A r \in stored, f \in staged, w \in Workers :
          f.task = r.task => AtStep(w, "cleanup") /\ work[w].msg.task = r.task
    /\ \A w \in Workers, r \in stored :
          AtStep(w, "ready") /\ ~ForSpec(work[w].msg) => r.task # work[w].msg.task

LEMMA UploadFrame ==
    ASSUME TypeOK, UploadInv, UNCHANGED <<stored, work>>,
           staged' \subseteq staged, issued' = issued \/ issued' = issued + 1
    PROVE  UploadInv'
<1>1. issued \in Nat /\ \A r \in stored : r.task \in Nat
    BY DEF TypeOK, Tasks
<1> QED
    BY <1>1 DEF UploadInv, UploadStoredOnce, AtStep, ForSpec

LEMMA HandlerUploads ==
    ASSUME TypeOK, UploadInv, NEW h \in Sessions,
           \/ h \in Editors /\ EditorStep(h)
           \/ h \in Importers /\ ImporterStep(h)
           \/ h \in Agents /\ AgentStep(h)
           \/ Enqueue(h) \/ EnqueueFail(h) \/ SessionCrash(h)
           \/ AdminStep(h)
    PROVE  UploadInv'
<1> USE DEF tables, broker
<1>1. CASE EditorStep(h)
  <2>1. ASSUME NEW c \in Files, StageUpload(h, c) PROVE UploadInv'
    <3> DEFINE new == [task |-> issued + 1, text |-> c]
    <3>1. new.task = issued + 1
      OBVIOUS
    <3>2. staged' = staged \cup {new} /\ UNCHANGED <<stored, work>> /\ issued' = issued + 1
      BY <2>1 DEF StageUpload, Issue
    <3> HIDE DEF new
    <3>3. issued \in Nat /\ \A r \in stored : r.task \in Nat
      BY DEF TypeOK, Tasks
    <3>4. \A r \in stored : r.task <= issued' /\ r.task # new.task
      BY <3>1, <3>2, <3>3 DEF UploadInv
    <3> QED
      BY <3>2, <3>4 DEF UploadInv, UploadStoredOnce, AtStep, ForSpec
  <2>2. ASSUME NEW s \in Specs, NEW c \in Contents, WriteSpec(h, s, c) PROVE UploadInv'
    BY <2>2, UploadFrame DEF WriteSpec
  <2>3. ASSUME NEW S \in SUBSET LiveSpecs, DeleteSpecs(h, S) \/ ClearSpecs(h, S)
        PROVE  UploadInv'
    BY <2>3, UploadFrame DEF DeleteSpecs, ClearSpecs
  <2> QED
    BY <1>1, <2>1, <2>2, <2>3 DEF EditorStep
<1>2. CASE ImporterStep(h)
  BY <1>2, UploadFrame DEF ImporterStep, FlushImport, CommitImport
<1>3. CASE AgentStep(h)
  BY <1>3, UploadFrame DEF AgentStep, PushDelete, PushCommit, PushNothing, PushFail
<1>4. CASE Enqueue(h) \/ EnqueueFail(h) \/ SessionCrash(h)
  BY <1>4, UploadFrame DEF Enqueue, Issue, EnqueueFail, SessionCrash
<1>5. CASE AdminStep(h)
  BY <1>5, UploadFrame DEF AdminStep, SendRequeue, Issue, CountRequeue, RefuseRequeue, Resolve
<1> QED
  BY <1>1, <1>2, <1>3, <1>4, <1>5

\* The steps of the worker that neither store an upload nor remove its file.
LEMMA WorkerFrame ==
    ASSUME UploadInv, \A v, w \in Workers : v = w, NEW w \in Workers,
           ~AtStep(w, "cleanup"),
           UNCHANGED <<stored, issued>>, staged' \subseteq staged,
           AtStep(w, "ready")' =>
               \/ ForSpec(work'[w].msg)
               \/ \A r \in stored : r.task # work'[w].msg.task
    PROVE  UploadInv'
<1>1. \A v \in Workers : v = w
    OBVIOUS
<1>2. \A r \in stored', f \in staged' : f.task # r.task
    BY DEF UploadInv
<1>3. \A v \in Workers, r \in stored' :
          AtStep(v, "ready")' /\ ~ForSpec(work'[v].msg) => r.task # work'[v].msg.task
    BY <1>1
<1> QED
    BY <1>2, <1>3 DEF UploadInv, UploadStoredOnce, ForSpec

LEMMA WorkerUploads ==
    ASSUME TypeInv, AttemptInv, UploadInv, \A v, w \in Workers : v = w,
           NEW w \in Workers, WorkerStep(w)
    PROVE  UploadInv'
<1> USE DEF tables, broker
<1>1. TypeOK /\ StepsFit
    BY DEF TypeInv
<1>2. \A v \in Workers : v = w
    OBVIOUS
<1>3. \A j : work' = [work EXCEPT ![w] = j] => work'[w] = j
    BY <1>1 DEF TypeOK
<1>4. work[w] # Idle => w \in Busy /\ work[w] \in Job
    BY <1>1, BusyType DEF Busy
<1>5. \A m : Refuse(w, m) => work'[w] = work[w]
    BY DEF Refuse
<1>6. \A m, step, c : Begin(w, m, step, c) => work'[w].step = step /\ work'[w].msg = m
  <2> SUFFICES ASSUME NEW m, NEW step, NEW c, Begin(w, m, step, c)
               PROVE  work'[w].step = step /\ work'[w].msg = m
    OBVIOUS
  <2> DEFINE j == [step |-> step, msg |-> m, text |-> c, seen |-> {}]
  <2>1. j.step = step /\ j.msg = m /\ work' = [work EXCEPT ![w] = j]
    BY DEF Begin
  <2> HIDE DEF j
  <2> QED
    BY <1>3, <2>1
<1>7. \A how : Finish(w, how) => work'[w] = Idle
    BY <1>3 DEF Finish
<1>8. ASSUME NEW step \in JobSteps, work[w] # Idle, Goto(w, step)
      PROVE  work'[w] # Idle /\ work'[w].step = step /\ work'[w].msg = work[w].msg
  <2>1. work'[w] = [work[w] EXCEPT !.step = step]
    BY <1>3, <1>8 DEF Goto
  <2>2. work[w] \in Job
    BY <1>4, <1>8
  <2>3. work'[w] \in Job /\ work'[w].step = step /\ work'[w].msg = work[w].msg
    BY <2>1, <2>2, JobStep
  <2> QED
    BY <2>3, IdleAssumption
<1>9. ASSUME NEW m \in queue, TakeSpec(w, m) PROVE UploadInv'
  <2>1. work[w] = Idle /\ ForSpec(m)
    BY <1>9 DEF TakeSpec, Take
  <2>2. work'[w] = Idle \/ work'[w].msg = m
    BY <1>5, <1>6, <1>9, <2>1 DEF TakeSpec
  <2> QED
    BY <1>2, <1>9, <2>1, <2>2, WorkerFrame DEF TakeSpec, AtStep
<1>10. ASSUME NEW m \in queue, TakeExpired(w, m) PROVE UploadInv'
  <2>1. work[w] = Idle /\ work'[w] = Idle
    BY <1>5, <1>10 DEF TakeExpired, Take
  <2> QED
    BY <1>2, <1>10, <2>1, WorkerFrame DEF TakeExpired, AtStep
<1>11. ASSUME NEW m \in queue, NEW f \in staged, TakeUpload(w, m, f) PROVE UploadInv'
  <2>1. work[w] = Idle /\ f.task = m.task
    BY <1>11 DEF TakeUpload, Take
  <2>2. \A r \in stored : r.task # m.task
    BY <2>1 DEF UploadInv, AtStep
  <2>3. work'[w] = Idle \/ work'[w].msg = m
    BY <1>5, <1>6, <1>11, <2>1 DEF TakeUpload
  <2>4. UNCHANGED <<stored, issued>> /\ staged' \subseteq staged
    BY <1>11 DEF TakeUpload
  <2> QED
    BY <1>2, <2>1, <2>2, <2>3, <2>4, WorkerFrame DEF AtStep
<1>12. CASE IndexNothing(w)
  <2>1. ~AtStep(w, "cleanup") /\ work[w] # Idle
    BY <1>12 DEF IndexNothing, AtStep
  <2>2. ~AtStep(w, "ready")'
    BY <1>7, <1>8, <1>12, <2>1 DEF IndexNothing, AtStep, JobSteps
  <2> QED
    BY <1>2, <1>12, <2>1, <2>2, WorkerFrame DEF IndexNothing
<1>13. CASE DeleteChunks(w)
  <2>1. ~AtStep(w, "cleanup") /\ work[w] \in Job /\ ForSpec(work[w].msg)
    BY <1>4, <1>13 DEF DeleteChunks, AtStep
  <2> DEFINE seen == ChunksOf(work[w].msg.aim.target)
             j == [work[w] EXCEPT !.step = "indexing", !.seen = seen]
  <2>2. seen \in SUBSET Chunk
    BY <1>1 DEF ChunksOf, TypeOK
  <2>3. j.step = "indexing"
    BY <2>1, <2>2, JobSeen
  <2>4. work' = [work EXCEPT ![w] = j]
    BY <1>1, <1>13 DEF DeleteChunks, TypeOK
  <2> HIDE DEF j
  <2>5. ~AtStep(w, "ready")'
    BY <1>3, <2>3, <2>4 DEF AtStep
  <2> QED
    BY <1>2, <1>13, <2>1, <2>5, WorkerFrame DEF DeleteChunks
<1>14. CASE CommitChunks(w)
  BY <1>2, <1>7, <1>14, WorkerFrame DEF CommitChunks, AtStep
<1>15. ASSUME NEW s \in Specs, StoreUpload(w, s) PROVE UploadInv'
  <2> DEFINE t == work[w].msg.task
             new == [task |-> t, spec |-> s]
  <2>1. AtStep(w, "ready") /\ ~ForSpec(work[w].msg) /\ w \in Busy
    BY <1>4, <1>15 DEF StoreUpload, AtStep
  <2>2. t <= issued /\ \A r \in stored : r.task # t
    BY <2>1 DEF AttemptInv, UploadInv
  <2>3. \A r \in stored, f \in staged : f.task # r.task
    BY <2>1 DEF UploadInv, AtStep
  <2>4. stored' = stored \cup {new} /\ new.task = t
    BY <1>15 DEF StoreUpload
  <2>5. AtStep(w, "cleanup")' /\ work'[w].msg.task = t
    BY <1>8, <1>15, <2>1 DEF StoreUpload, AtStep, JobSteps
  <2>6. UNCHANGED <<staged, issued>>
    BY <1>15 DEF StoreUpload
  <2> HIDE DEF t, new
  <2>7. ~AtStep(w, "ready")'
    BY <2>5 DEF AtStep
  <2>8. UploadStoredOnce'
    BY <2>2, <2>4 DEF UploadInv, UploadStoredOnce
  <2>9. \A r \in stored' : r.task <= issued'
    BY <2>2, <2>4, <2>6 DEF UploadInv
  <2>10. \A r \in stored', f \in staged', v \in Workers :
            f.task = r.task => AtStep(v, "cleanup")' /\ work'[v].msg.task = r.task
    BY <1>2, <2>3, <2>4, <2>5, <2>6
  <2>11. \A v \in Workers, r \in stored' :
            AtStep(v, "ready")' /\ ~ForSpec(work'[v].msg) => r.task # work'[v].msg.task
    BY <1>2, <2>7
  <2> QED
    BY <2>8, <2>9, <2>10, <2>11 DEF UploadInv, ForSpec
<1>16. CASE RemoveKey(w)
  <2>1. work'[w] = Idle /\ UNCHANGED <<stored, issued>>
    BY <1>7, <1>16 DEF RemoveKey
  <2>2. \A f \in staged' : f \in staged /\ f.task # work[w].msg.task
    BY <1>16 DEF RemoveKey
  <2>3. \A r \in stored', f \in staged' : f.task # r.task
    BY <2>1, <2>2 DEF UploadInv
  <2>4. \A v \in Workers : ~AtStep(v, "ready")'
    BY <1>2, <2>1 DEF AtStep
  <2> QED
    BY <2>1, <2>3, <2>4 DEF UploadInv, UploadStoredOnce
<1>17. CASE IndexFail(w)
  <2>1. ~AtStep(w, "cleanup")
    BY <1>17 DEF IndexFail, AtStep
  <2>2. ~AtStep(w, "ready")'
    BY <1>6, <1>17 DEF IndexFail, Fail, AtStep
  <2> QED
    BY <1>2, <1>17, <2>1, <2>2, WorkerFrame DEF IndexFail
<1>18. CASE LogFailure(w)
  <2>1. ~AtStep(w, "cleanup") /\ work[w] # Idle
    BY <1>18 DEF LogFailure, AtStep
  <2>2. ~AtStep(w, "ready")'
    BY <1>7, <1>8, <1>18, <2>1 DEF LogFailure, AtStep, JobSteps
  <2> QED
    BY <1>2, <1>18, <2>1, <2>2, WorkerFrame DEF LogFailure
<1>19. CASE LogConflict(w)
  BY <1>2, <1>7, <1>19, WorkerFrame DEF LogConflict, AtStep
<1>20. CASE Retry(w)
  BY <1>2, <1>3, <1>20, WorkerFrame DEF Retry, AtStep
<1>21. ASSUME NEW m \in queue, TakeFail(w, m) PROVE UploadInv'
  <2>1. ~AtStep(w, "cleanup")
    BY <1>21 DEF TakeFail, Take, AtStep
  <2>2. ~AtStep(w, "ready")'
    BY <1>6, <1>21 DEF TakeFail, Fail, AtStep
  <2> QED
    BY <1>2, <1>21, <2>1, <2>2, WorkerFrame DEF TakeFail
<1> QED
  BY <1>9, <1>10, <1>11, <1>12, <1>13, <1>14, <1>15, <1>16, <1>17, <1>18, <1>19, <1>20, <1>21
  DEF WorkerStep

LEMMA UploadStep ==
    (\A v, w \in Workers : v = w) /\ MaxFaults = 0
        => (TypeInv /\ AttemptInv /\ UploadInv /\ [Next]_vars => UploadInv')
<1> SUFFICES ASSUME \A v, w \in Workers : v = w, MaxFaults = 0,
                    TypeInv, AttemptInv, UploadInv, [Next]_vars
             PROVE  UploadInv'
    OBVIOUS
<1>1. TypeOK
    BY DEF TypeInv
<1>2. ASSUME NEW f \in staged, ExpireUpload(f) PROVE UploadInv'
  BY <1>1, <1>2, UploadFrame DEF ExpireUpload, tables, broker
<1>3. CASE UNCHANGED vars
  BY <1>1, <1>3, UploadFrame DEF vars, tables, broker
<1>4. \A w \in Workers : ~WorkerFault(w)
  BY <1>1 DEF TypeOK, WorkerFault, UploadFail, LogFail, RetryFail, WorkerCrash
<1>5. Admins \subseteq Sessions
  BY DEF Sessions
<1> QED
  BY <1>1, <1>2, <1>3, <1>4, <1>5, StepCases, HandlerUploads, WorkerUploads

\* With one worker that is not killed an uploaded file becomes one spec,
\* although a failing attempt sends two retries that both find the file.
THEOREM UploadsStoreOnce ==
    (\A v, w \in Workers : v = w) /\ MaxFaults = 0 /\ Spec => []UploadStoredOnce
<1> SUFFICES ASSUME \A v, w \in Workers : v = w, MaxFaults = 0
             PROVE  Spec => []UploadStoredOnce
    OBVIOUS
<1>1. Init => UploadInv
    BY DEF Init, UploadInv, UploadStoredOnce
<1>2. TypeInv /\ AttemptInv /\ UploadInv /\ [Next]_vars => UploadInv'
    BY UploadStep
<1>3. UploadInv => UploadStoredOnce
    BY DEF UploadInv
<1> QED
    BY <1>1, <1>2, <1>3, AttemptInit, AttemptStep, NextMove, LoggedInit, LoggedStep,
       TypeInit, TypeStep, PTL DEF Spec

-----------------------------------------------------------------------------
(* What rows and attempts are about *)

\* The attempts waiting or at work.
AtHand(m) == m \in queue \/ \E w \in Busy : work[w].msg = m

\* The inductive invariant: a row, and the attempts of its task, are about
\* the same thing.
AimInv ==
    \A f \in failed :
        /\ f.task <= issued
        /\ \A m \in Message : AtHand(m) /\ m.task = f.task => m.aim = f.aim

LEMMA UploadAim ==
    ASSUME NEW a \in Aim, a.kind # "spec"
    PROVE  a = ToUpload
BY DEF Aim, ToUpload

\* Attempts of one task are about one thing: uploads are all alike, and a
\* spec task has one attempt.
LEMMA SameAim ==
    ASSUME TypeOK, OneAttemptAtATime, NEW m \in Message, NEW n \in Message,
           AtHand(m), AtHand(n), m.task = n.task
    PROVE  m.aim = n.aim
<1>1. CASE ForSpec(m) \/ ForSpec(n)
  <2>1. Rivals(m, n) /\ Rivals(n, m)
    BY <1>1 DEF Rivals
  <2> QED
    BY <2>1 DEF AtHand, OneAttemptAtATime
<1>2. CASE ~ForSpec(m) /\ ~ForSpec(n)
  BY <1>2, UploadAim, MessageFields DEF ForSpec
<1> QED
  BY <1>1, <1>2

\* Where the attempts come from.
LEMMA AttemptsComeFrom ==
    ASSUME TypeOK, TaskMove, NEW n \in Message, AtHand(n)'
    PROVE  \/ \E m \in Message : AtHand(m) /\ m.task = n.task /\ m.aim = n.aim
           \/ n.task = issued + 1
<1> USE DEF broker
<1>1. \A v \in Busy : v \in Workers /\ work[v].msg \in Message /\ AtHand(work[v].msg)
    BY BusyType DEF AtHand
<1>2. \A m \in queue : m \in Message /\ AtHand(m)
    BY DEF AtHand, TypeOK
<1>3. CASE KeepsAttempts
  BY <1>1, <1>2, <1>3 DEF KeepsAttempts, AtHand, Busy
<1>4. CASE IssuesTask
  <2>1. PICK aim \in Aim : Issue(aim) /\ UNCHANGED work
    BY <1>4 DEF IssuesTask
  <2> DEFINE new == [task |-> issued + 1, aim |-> aim, retries |-> 0, line |-> "first"]
  <2>2. queue' = queue \cup {new} /\ new.task = issued + 1
    BY <2>1 DEF Issue
  <2> HIDE DEF new
  <2> QED
    BY <1>1, <1>2, <2>1, <2>2 DEF AtHand, Busy
<1>5. ASSUME NEW w \in Workers, NEW m \in queue, TakesTask(w, m)
      PROVE  \E k \in Message : AtHand(k) /\ k.task = n.task /\ k.aim = n.aim
  <2>1. \A v \in Busy' : v # w => v \in Busy /\ work'[v].msg = work[v].msg
    BY <1>5 DEF TakesTask, OthersWait, Busy
  <2>2. w \in Busy' => work'[w].msg = m
    BY <1>5 DEF TakesTask, Busy
  <2>3. n \in queue \/ n = m \/ \E v \in Busy : work[v].msg = n
    BY <1>5, <2>1, <2>2 DEF AtHand, TakesTask
  <2> QED
    BY <1>1, <1>2, <2>3
<1>6. ASSUME NEW w \in Workers, NEW k \in Message, Resends(w, k)
      PROVE  \E m \in Message : AtHand(m) /\ m.task = n.task /\ m.aim = n.aim
  <2>1. \A v \in Busy' : v \in Busy /\ work'[v].msg = work[v].msg
    BY <1>6 DEF Resends, OthersWait, Busy
  <2>2. n \in queue \/ n = k \/ \E v \in Busy : work[v].msg = n
    BY <1>6, <2>1 DEF AtHand, Resends
  <2> QED
    BY <1>1, <1>2, <1>6, <2>2 DEF Resends
<1> QED
  BY <1>3, <1>4, <1>5, <1>6 DEF TaskMove

LEMMA AimStep ==
    TypeInv /\ LoggedInv /\ AttemptInv /\ AimInv /\ [Next]_vars => AimInv'
<1> SUFFICES ASSUME TypeInv, LoggedInv, AttemptInv, AimInv, [Next]_vars PROVE AimInv'
    OBVIOUS
<1>1. TypeOK /\ TaskMove /\ RowsMove /\ OneAttemptAtATime
    BY NextMove, NextRows DEF TypeInv, AttemptInv
<1>2. issued \in Nat /\ issued' \in Nat /\ issued <= issued'
    BY <1>1 DEF TypeOK, TaskMove, KeepsAttempts, IssuesTask, Issue, TakesTask, Resends, broker
<1>3. ASSUME NEW g \in failed'
      PROVE  /\ g.task <= issued'
             /\ \A n \in Message : AtHand(n)' /\ n.task = g.task => n.aim = g.aim
  <2>1. CASE \E f \in failed : g.task = f.task /\ g.aim = f.aim
    <3>1. PICK f \in failed : g.task = f.task /\ g.aim = f.aim
      BY <2>1
    <3>2. f.task \in Nat /\ f.task <= issued
      BY <1>1 DEF AimInv, TypeOK, FailedTask, Tasks
    <3>3. ASSUME NEW n \in Message, AtHand(n)', n.task = g.task PROVE n.aim = g.aim
      <4>1. n.task # issued + 1
        BY <1>2, <3>1, <3>2, <3>3
      <4>2. PICK m \in Message : AtHand(m) /\ m.task = n.task /\ m.aim = n.aim
        BY <1>1, <3>3, <4>1, AttemptsComeFrom
      <4> QED
        BY <3>1, <3>3, <4>2 DEF AimInv
    <3> QED
      BY <1>2, <3>1, <3>2, <3>3
  <2>2. CASE \E w \in Busy : g.task = work[w].msg.task /\ g.aim = work[w].msg.aim
    <3>1. PICK w \in Busy : g.task = work[w].msg.task /\ g.aim = work[w].msg.aim
      BY <2>2
    <3>2. work[w].msg \in Message /\ AtHand(work[w].msg)
      BY <1>1, BusyType DEF AtHand
    <3>3. work[w].msg.task \in Nat /\ work[w].msg.task <= issued
      BY <3>2, MessageFields DEF AttemptInv, Tasks
    <3>4. ASSUME NEW n \in Message, AtHand(n)', n.task = g.task PROVE n.aim = g.aim
      <4>1. n.task # issued + 1
        BY <1>2, <3>1, <3>3, <3>4
      <4>2. PICK m \in Message : AtHand(m) /\ m.task = n.task /\ m.aim = n.aim
        BY <1>1, <3>4, <4>1, AttemptsComeFrom
      <4> QED
        BY <1>1, <3>1, <3>2, <3>4, <4>2, SameAim
    <3> QED
      BY <1>2, <3>1, <3>3, <3>4
  <2> QED
    BY <1>1, <2>1, <2>2 DEF RowsMove
<1> QED
  BY <1>3 DEF AimInv

-----------------------------------------------------------------------------
(* The index catches up *)

\* One worker that is not killed, and no handler but editors and admins.
EditorsAndOneWorker ==
    /\ \A v, w \in Workers : v = w
    /\ MaxFaults = 0 /\ Importers = {} /\ Agents = {}

WorksOn(w, s) == w \in Busy /\ work[w].msg.aim = ToIndex(s)
Reading(w) == work[w].step \in {"ready", "indexing"}
Failing(w) == work[w].step \in {"failed", "logged"}

Announced(s) == \E h \in Sessions : Doing(h, "enqueue") /\ session[h].spec = s
Queued(s) == \E m \in queue : m.aim = ToIndex(s)
Reported(s) == \E f \in failed : f.aim.target = s

\* A task for the spec is still to come, or the admin has a row for it.
Due(s) ==
    \/ Announced(s) \/ Queued(s) \/ Reported(s)
    \/ \E w \in Workers : WorksOn(w, s) /\ Failing(w)

\* Search shows the text of the spec, or will when the worker commits: it is
\* not about to replace it by an older one.
Fresh(s) ==
    /\ \A w \in Workers : WorksOn(w, s) /\ Reading(w) => work[w].text = content[s]
    /\ \/ \E w \in Workers : WorksOn(w, s) /\ Reading(w)
       \/ \E c \in ChunksOf(s) : c.text = content[s]

InTime(s) == content[s] \in Texts => Due(s) \/ Fresh(s)

\* A task for a spec is not cleaned up after, it deletes no chunks but those
\* of its spec, and sessions only enqueue or count.
WorkFits ==
    \A w \in Busy :
        /\ ForSpec(work[w].msg) => work[w].step # "cleanup"
        /\ AtStep(w, "indexing") =>
              \A c \in work[w].seen : c.spec = work[w].msg.aim.target
SessionsFit ==
    \A h \in Sessions : session[h] # Idle => session[h].step \in {"enqueue", "count"}

\* The inductive invariant: besides, every written text is in time.
CatchInv == WorkFits /\ SessionsFit /\ \A s \in Specs : InTime(s)

QueueKeeps(s) == \A m \in queue : m.aim = ToIndex(s) => m \in queue'

LEMMA DueStays ==
    ASSUME NEW s \in Specs, RowsMove, QueueKeeps(s), UNCHANGED session,
           Announced(s) \/ Queued(s) \/ Reported(s)
    PROVE  Due(s)'
<1>1. Announced(s) => Announced(s)'
    BY DEF Announced, Doing
<1>2. Queued(s) => Queued(s)'
    BY DEF Queued, QueueKeeps
<1>3. Reported(s) => Reported(s)'
    BY DEF Reported, RowsMove
<1> QED
    BY <1>1, <1>2, <1>3 DEF Due

\* A handler leaves the worker alone: what it writes it announces.
LEMMA HandlerInTime ==
    ASSUME NEW s \in Specs, InTime(s), RowsMove, UNCHANGED work, QueueKeeps(s),
           \/ Due(s)'
           \/ content'[s] \notin Texts
           \/ /\ content'[s] = content[s]
              /\ \A c \in chunks : c.spec = s => c \in chunks'
              /\ Announced(s) => Announced(s)'
    PROVE  InTime(s)'
<1> SUFFICES ASSUME content'[s] \in Texts, content'[s] = content[s],
                    \A c \in chunks : c.spec = s => c \in chunks',
                    Announced(s) => Announced(s)'
             PROVE  Due(s)' \/ Fresh(s)'
    BY DEF InTime
<1>1. Queued(s) => Queued(s)'
    BY DEF Queued, QueueKeeps
<1>2. Reported(s) => Reported(s)'
    BY DEF Reported, RowsMove
<1>3. \A w \in Workers : /\ WorksOn(w, s)' <=> WorksOn(w, s)
                         /\ Reading(w)' <=> Reading(w)
                         /\ Failing(w)' <=> Failing(w)
    BY DEF WorksOn, Reading, Failing, Busy, ToIndex
<1>4. Due(s) => Due(s)'
    BY <1>1, <1>2, <1>3 DEF Due
<1>5. Fresh(s) => Fresh(s)'
    BY <1>3 DEF Fresh, ChunksOf
<1> QED
    BY <1>4, <1>5 DEF InTime

\* The worker leaves alone the specs it is not at work on.
LEMMA WorkerElsewhere ==
    ASSUME NEW s \in Specs, InTime(s), RowsMove, QueueKeeps(s), UNCHANGED session,
           NEW w \in Workers, \A v \in Workers : v = w,
           ~WorksOn(w, s), ~WorksOn(w, s)',
           content'[s] = content[s], \A c \in chunks : c.spec = s => c \in chunks'
    PROVE  InTime(s)'
<1>1. CASE Due(s)
  <2>1. Announced(s) \/ Queued(s) \/ Reported(s)
    BY <1>1 DEF Due
  <2> QED
    BY <2>1, DueStays DEF InTime
<1>2. CASE Fresh(s)
  <2>1. PICK c \in ChunksOf(s) : c.text = content[s]
    BY <1>2 DEF Fresh
  <2>2. \A v \in Workers : ~WorksOn(v, s)'
    OBVIOUS
  <2>3. c \in ChunksOf(s)'
    BY <2>1 DEF ChunksOf
  <2>4. Fresh(s)'
    BY <2>1, <2>2, <2>3 DEF Fresh
  <2> QED
    BY <2>4 DEF InTime
<1> QED
  BY <1>1, <1>2 DEF InTime

\* The worker ends or fails its task for the spec, or goes on with it.
LEMMA WorkerOnSpec ==
    ASSUME NEW s \in Specs, InTime(s), RowsMove, QueueKeeps(s), UNCHANGED session,
           NEW w \in Workers, \A v \in Workers : v = w,
           WorksOn(w, s), content'[s] = content[s],
           \/ Due(s)'
           \/ Reading(w) /\ work[w].text \notin Texts
           \/ /\ Reading(w) /\ WorksOn(w, s)' /\ Reading(w)'
              /\ work'[w].text = work[w].text
           \/ /\ Reading(w) /\ ~WorksOn(w, s)'
              /\ \E c \in chunks' : c.spec = s /\ c.text = work[w].text
    PROVE  InTime(s)'
<1> SUFFICES ASSUME content[s] \in Texts, ~Due(s)' PROVE Fresh(s)'
    BY DEF InTime
<1>1. ~(Announced(s) \/ Queued(s) \/ Reported(s))
    BY DueStays
<1>2. Reading(w) /\ ~Failing(w)
    BY DEF Reading, Failing
<1>3. ~Due(s)
    BY <1>1, <1>2 DEF Due
<1>4. work[w].text = content[s]
    BY <1>2, <1>3 DEF InTime, Fresh
<1>5. CASE WorksOn(w, s)' /\ Reading(w)' /\ work'[w].text = work[w].text
  BY <1>4, <1>5 DEF Fresh
<1>6. CASE ~WorksOn(w, s)' /\ \E c \in chunks' : c.spec = s /\ c.text = work[w].text
  <2>1. PICK c \in chunks' : c.spec = s /\ c.text = work[w].text
    BY <1>6
  <2>2. c \in ChunksOf(s)'
    BY <2>1 DEF ChunksOf
  <2>3. \A v \in Workers : ~WorksOn(v, s)'
    BY <1>6
  <2> QED
    BY <1>4, <2>1, <2>2, <2>3 DEF Fresh
<1> QED
  BY <1>4, <1>5, <1>6

LEMMA WorkStaysFit ==
    ASSUME WorkFits, UNCHANGED work
    PROVE  WorkFits'
BY DEF WorkFits, Busy, AtStep, ForSpec

LEMMA SessionChange ==
    ASSUME TypeOK, SessionsFit, NEW h \in Sessions, NEW e,
           e # Idle => e.step \in {"enqueue", "count"},
           session' = [session EXCEPT ![h] = e]
    PROVE  /\ SessionsFit'
           /\ session'[h] = e /\ \A g \in Sessions \ {h} : session'[g] = session[g]
           /\ \A s : ~(Doing(h, "enqueue") /\ session[h].spec = s) =>
                         (Announced(s) => Announced(s)')
<1>1. session'[h] = e /\ \A g \in Sessions \ {h} : session'[g] = session[g]
    BY DEF TypeOK
<1>2. SessionsFit'
    BY <1>1 DEF SessionsFit
<1>3. ASSUME NEW s, ~(Doing(h, "enqueue") /\ session[h].spec = s), Announced(s)
      PROVE  Announced(s)'
  BY <1>1, <1>3 DEF Announced, Doing
<1> QED
    BY <1>1, <1>2, <1>3

LEMMA EditorsCatchUp ==
    ASSUME EditorsAndOneWorker, TypeInv, CatchInv, RowsMove, NEW h \in Sessions,
           EditorStep(h)
    PROVE  CatchInv'
<1> USE DEF tables, broker
<1>1. TypeOK /\ WorkFits /\ SessionsFit /\ \A s \in Specs : InTime(s)
    BY DEF TypeInv, CatchInv
<1>2. ASSUME NEW r \in Specs, NEW c \in Contents, WriteSpec(h, r, c) PROVE CatchInv'
  <2> DEFINE e == [step |-> "enqueue", spec |-> r, text |-> c, seen |-> {}]
  <2>1. e \in Errand /\ e.step = "enqueue" /\ e.spec = r
    BY DEF Errand
  <2>2. session' = [session EXCEPT ![h] = e] /\ session[h] = Idle
    BY <1>2 DEF WriteSpec, Errands
  <2> HIDE DEF e
  <2>3. /\ SessionsFit' /\ session'[h] = e
        /\ \A s : Announced(s) => Announced(s)'
    BY <1>1, <2>1, <2>2, SessionChange DEF Doing
  <2>4. Due(r)'
    BY <2>1, <2>3, IdleAssumption DEF Due, Announced, Doing
  <2>5. ASSUME NEW s \in Specs PROVE InTime(s)'
    <3>1. s # r => content'[s] = content[s]
      BY <1>1, <1>2 DEF WriteSpec, TypeOK
    <3>2. UNCHANGED <<work, queue, chunks>>
      BY <1>2 DEF WriteSpec
    <3> QED
      BY <1>1, <2>3, <2>4, <3>1, <3>2, HandlerInTime DEF QueueKeeps
  <2> QED
    BY <1>1, <1>2, <2>3, <2>5, WorkStaysFit DEF CatchInv, WriteSpec
<1>3. ASSUME UNCHANGED <<work, session>>, queue \subseteq queue',
             \A s \in Specs :
                 \/ content'[s] \notin Texts
                 \/ /\ content'[s] = content[s]
                    /\ \A c \in chunks : c.spec = s => c \in chunks'
      PROVE  CatchInv'
  <2>1. ASSUME NEW s \in Specs PROVE InTime(s)'
    <3>1. Announced(s) => Announced(s)'
      BY <1>3 DEF Announced, Doing
    <3> QED
      BY <1>1, <1>3, <3>1, HandlerInTime DEF QueueKeeps
  <2>2. SessionsFit'
    BY <1>1, <1>3 DEF SessionsFit
  <2> QED
    BY <1>1, <1>3, <2>1, <2>2, WorkStaysFit DEF CatchInv
<1>4. ASSUME NEW c \in Files, StageUpload(h, c) PROVE CatchInv'
  BY <1>3, <1>4 DEF StageUpload, Issue
<1>5. ASSUME NEW S \in SUBSET LiveSpecs, DeleteSpecs(h, S) PROVE CatchInv'
  <2>1. \A s \in Specs : IF s \in S THEN content'[s] = Gone ELSE content'[s] = content[s]
    BY <1>5 DEF DeleteSpecs
  <2>2. Gone \notin Texts
    BY ContentsAssumption DEF Contents
  <2>3. \A c \in chunks : c.spec \notin S => c \in chunks'
    BY <1>5 DEF DeleteSpecs
  <2>4. UNCHANGED <<work, session, queue>>
    BY <1>5 DEF DeleteSpecs
  <2> QED
    BY <1>3, <2>1, <2>2, <2>3, <2>4
<1>6. ASSUME NEW S \in SUBSET LiveSpecs, ClearSpecs(h, S) PROVE CatchInv'
  <2>1. \A s \in Specs : IF s \in S THEN content'[s] = Blank ELSE content'[s] = content[s]
    BY <1>6 DEF ClearSpecs
  <2>2. UNCHANGED <<work, session, queue, chunks>>
    BY <1>6 DEF ClearSpecs
  <2> QED
    BY <1>3, <2>1, <2>2, ContentsAssumption
<1> QED
  BY <1>2, <1>4, <1>5, <1>6 DEF EditorStep

LEMMA EnqueueCatchesUp ==
    ASSUME TypeInv, CatchInv, RowsMove, NEW h \in Sessions, Enqueue(h)
    PROVE  CatchInv'
<1> USE DEF tables, broker
<1>1. TypeOK /\ WorkFits /\ SessionsFit /\ \A s \in Specs : InTime(s)
    BY DEF TypeInv, CatchInv
<1>2. Doing(h, "enqueue") /\ session[h].step # "announce"
    BY <1>1 DEF Enqueue, SessionsFit, Doing
<1>3. session' = [session EXCEPT ![h] = Idle]
    BY <1>2 DEF Enqueue, AfterEnqueue
<1>4. /\ SessionsFit'
      /\ \A s : s # session[h].spec => (Announced(s) => Announced(s)')
    BY <1>1, <1>3, SessionChange
<1> DEFINE aim == ToIndex(session[h].spec)
           m == [task |-> issued + 1, aim |-> aim, retries |-> 0, line |-> "first"]
<1>5. m.aim = ToIndex(session[h].spec) /\ queue' = queue \cup {m}
    BY DEF Enqueue, Issue
<1> HIDE DEF m
<1>6. UNCHANGED <<work, content, chunks>>
    BY DEF Enqueue
<1>7. ASSUME NEW s \in Specs PROVE InTime(s)'
  <2>1. CASE s = session[h].spec
    <3>1. m \in queue' /\ m.aim = ToIndex(s)
      BY <1>5, <2>1
    <3>2. Queued(s)'
      BY <3>1 DEF Queued, ToIndex
    <3> QED
      BY <3>2 DEF InTime, Due
  <2>2. CASE s # session[h].spec
    BY <1>1, <1>4, <1>5, <1>6, <2>2, HandlerInTime DEF QueueKeeps
  <2> QED
    BY <2>1, <2>2
<1> QED
    BY <1>1, <1>4, <1>6, <1>7, WorkStaysFit DEF CatchInv

LEMMA AdminsCatchUp ==
    ASSUME TypeInv, CatchInv, RowsMove, NEW h \in Sessions, AdminStep(h)
    PROVE  CatchInv'
<1> USE DEF tables, broker
<1>1. TypeOK /\ WorkFits /\ SessionsFit /\ \A s \in Specs : InTime(s)
    BY DEF TypeInv, CatchInv
<1>2. UNCHANGED <<work, content, chunks>> /\ queue \subseteq queue'
    BY DEF AdminStep, SendRequeue, Issue, CountRequeue, RefuseRequeue, Resolve
<1>3. /\ SessionsFit'
      /\ \A s : Announced(s) => Announced(s)'
  <2>1. CASE UNCHANGED session
    BY <1>1, <2>1 DEF SessionsFit, Announced, Doing
  <2>2. ASSUME NEW f \in failed, SendRequeue(h, f)
        PROVE  SessionsFit' /\ \A s : Announced(s) => Announced(s)'
    <3> DEFINE e == [step |-> "count", task |-> f.task, count |-> f.count]
    <3>1. e.step = "count" /\ session' = [session EXCEPT ![h] = e] /\ session[h] = Idle
      BY <2>2 DEF SendRequeue
    <3> HIDE DEF e
    <3> QED
      BY <1>1, <3>1, SessionChange DEF Doing
  <2>3. CASE CountRequeue(h)
    BY <1>1, <2>3, SessionChange DEF CountRequeue, Doing
  <2> QED
    BY <2>1, <2>2, <2>3 DEF AdminStep, RefuseRequeue, Resolve
<1>4. ASSUME NEW s \in Specs PROVE InTime(s)'
  BY <1>1, <1>2, <1>3, HandlerInTime DEF QueueKeeps
<1> QED
  BY <1>1, <1>2, <1>3, <1>4, WorkStaysFit DEF CatchInv

LEMMA AimOfTask ==
    ASSUME NEW m \in Message
    PROVE  /\ ForSpec(m) => m.aim.target \in Specs /\ m.aim = ToIndex(m.aim.target)
           /\ \A s : m.aim = ToIndex(s) => ForSpec(m) /\ m.aim.target = s
BY DEF Message, Aim, ForSpec, ToIndex

\* The worker takes up a message, or lays it aside.
LEMMA TakingInTime ==
    ASSUME EditorsAndOneWorker, TypeInv, CatchInv, RowsMove, NEW w \in Workers,
           NEW m \in queue, Take(w, m), UNCHANGED <<content, chunks, session>>,
           work'[w] = Idle \/ work'[w].msg = m,
           ForSpec(m) => \/ content[m.aim.target] \notin Texts
                         \/ /\ work'[w] # Idle /\ work'[w].step = "ready"
                            /\ work'[w].text = content[m.aim.target]
                         \/ work'[w] # Idle /\ work'[w].step = "failed"
    PROVE  \A s \in Specs : InTime(s)'
<1>1. TypeOK /\ \A s \in Specs : InTime(s)
    BY DEF TypeInv, CatchInv
<1>2. m \in Message /\ \A v \in Workers : v = w
    BY <1>1 DEF TypeOK, EditorsAndOneWorker
<1>3. work[w] = Idle /\ queue' = queue \ {m}
    BY DEF Take
<1> SUFFICES ASSUME NEW s \in Specs PROVE InTime(s)'
    OBVIOUS
<1>4. CASE m.aim = ToIndex(s)
  <2>1. ForSpec(m) /\ m.aim.target = s
    BY <1>2, <1>4, AimOfTask
  <2>2. CASE content[s] \notin Texts
    BY <2>2 DEF InTime
  <2>3. CASE work'[w] # Idle /\ work'[w].step = "ready" /\ work'[w].text = content[s]
    <3>1. WorksOn(w, s)' /\ Reading(w)'
      BY <1>4, <2>3 DEF WorksOn, Reading, Busy, ToIndex
    <3> QED
      BY <1>2, <2>3, <3>1 DEF InTime, Fresh
  <2>4. CASE work'[w] # Idle /\ work'[w].step = "failed"
    <3>1. WorksOn(w, s)' /\ Failing(w)'
      BY <1>4, <2>4 DEF WorksOn, Failing, Busy, ToIndex
    <3> QED
      BY <3>1 DEF InTime, Due
  <2> QED
    BY <2>1, <2>2, <2>3, <2>4
<1>5. CASE m.aim # ToIndex(s)
  <2>1. ~WorksOn(w, s) /\ ~WorksOn(w, s)'
    BY <1>3, <1>5 DEF WorksOn, Busy, ToIndex
  <2>2. QueueKeeps(s)
    BY <1>3, <1>5 DEF QueueKeeps
  <2> QED
    BY <1>1, <1>2, <2>1, <2>2, WorkerElsewhere
<1> QED
  BY <1>4, <1>5

\* The worker goes on with its task, or ends it.
LEMMA WorkingInTime ==
    ASSUME EditorsAndOneWorker, TypeInv, CatchInv, RowsMove, NEW w \in Busy,
           UNCHANGED <<content, session>>, queue \subseteq queue',
           work'[w] = Idle \/ work'[w].msg = work[w].msg,
           \A c \in chunks : c.spec # work[w].msg.aim.target => c \in chunks',
           \A s \in Specs : WorksOn(w, s) =>
               \/ Due(s)'
               \/ Reading(w) /\ work[w].text \notin Texts
               \/ /\ Reading(w) /\ WorksOn(w, s)' /\ Reading(w)'
                  /\ work'[w].text = work[w].text
               \/ /\ Reading(w) /\ ~WorksOn(w, s)'
                  /\ \E c \in chunks' : c.spec = s /\ c.text = work[w].text,
           ForSpec(work[w].msg) \/ UNCHANGED chunks
    PROVE  \A s \in Specs : InTime(s)'
<1>1. TypeOK /\ \A s \in Specs : InTime(s)
    BY DEF TypeInv, CatchInv
<1>2. w \in Workers /\ work[w].msg \in Message /\ \A v \in Workers : v = w
    BY <1>1, BusyType DEF EditorsAndOneWorker
<1> SUFFICES ASSUME NEW s \in Specs PROVE InTime(s)'
    OBVIOUS
<1>3. QueueKeeps(s)
    BY DEF QueueKeeps
<1>4. CASE WorksOn(w, s)
  BY <1>1, <1>2, <1>3, <1>4, WorkerOnSpec
<1>5. CASE ~WorksOn(w, s)
  <2>1. work[w].msg.aim # ToIndex(s)
    BY <1>5 DEF WorksOn
  <2>2. ~WorksOn(w, s)'
    BY <2>1 DEF WorksOn, Busy, ToIndex
  <2>3. ForSpec(work[w].msg) => work[w].msg.aim.target # s
    BY <1>2, <2>1, AimOfTask
  <2>4. \A c \in chunks : c.spec = s => c \in chunks'
    BY <2>3
  <2> QED
    BY <1>1, <1>2, <1>3, <1>5, <2>2, <2>4, WorkerElsewhere
<1> QED
  BY <1>4, <1>5

LEMMA WorkerFits ==
    ASSUME TypeInv, CatchInv, NEW w \in Workers, \A v \in Workers : v = w,
           UNCHANGED session, \A s \in Specs : InTime(s)',
           work'[w] # Idle =>
               /\ work'[w].step # "indexing"
               /\ work'[w].step = "cleanup" => ~ForSpec(work'[w].msg)
    PROVE  CatchInv'
<1>1. WorkFits'
    BY DEF WorkFits, Busy, AtStep, ForSpec
<1>2. SessionsFit'
    BY DEF CatchInv, SessionsFit
<1> QED
    BY <1>1, <1>2 DEF CatchInv

Indexing(i, seen) == [i EXCEPT !.step = "indexing", !.seen = seen]

LEMMA JobIndexing ==
    ASSUME NEW i \in Job, NEW seen \in SUBSET Chunk
    PROVE  /\ Indexing(i, seen) \in Job /\ Indexing(i, seen).step = "indexing"
           /\ Indexing(i, seen).msg = i.msg /\ Indexing(i, seen).text = i.text
           /\ Indexing(i, seen).seen = seen
BY DEF Job, JobSteps, Indexing

LEMMA WorkerCatchesUp ==
    ASSUME EditorsAndOneWorker, TypeInv, AimInv, CatchInv, RowsMove,
           NEW w \in Workers, WorkerStep(w)
    PROVE  CatchInv'
<1> USE DEF tables, broker
<1>1. TypeOK /\ StepsFit /\ WorkFits /\ \A s \in Specs : InTime(s)
    BY DEF TypeInv, CatchInv
<1>2. \A v \in Workers : v = w
    BY DEF EditorsAndOneWorker
<1>3. \A j : work' = [work EXCEPT ![w] = j] => work'[w] = j
    BY <1>1 DEF TypeOK
<1>4. work[w] # Idle => w \in Busy /\ work[w] \in Job /\ work[w].msg \in Message
    BY <1>1, BusyType DEF Busy
<1>5. \A m : Refuse(w, m) => work'[w] = work[w]
    BY DEF Refuse
<1>6. ASSUME NEW m \in Message, NEW step \in {"ready", "failed"}, NEW c \in Contents,
             Begin(w, m, step, c)
      PROVE  /\ work'[w] # Idle /\ work'[w].step = step
             /\ work'[w].msg = m /\ work'[w].text = c
  <2> DEFINE j == [step |-> step, msg |-> m, text |-> c, seen |-> {}]
  <2>1. /\ j.step = step /\ j.msg = m /\ j.text = c
        /\ work' = [work EXCEPT ![w] = j]
    BY <1>6 DEF Begin
  <2>2. j \in Job
    BY DEF Job, JobSteps
  <2> HIDE DEF j
  <2> QED
    BY <1>3, <2>1, <2>2, IdleAssumption
<1>7. \A how : Finish(w, how) => work'[w] = Idle
    BY <1>3 DEF Finish
<1>8. ASSUME NEW step \in JobSteps, work[w] # Idle, Goto(w, step)
      PROVE  work'[w] # Idle /\ work'[w].step = step /\ work'[w].msg = work[w].msg
  <2>1. work'[w] = [work[w] EXCEPT !.step = step]
    BY <1>3, <1>8 DEF Goto
  <2>2. work'[w] \in Job /\ work'[w].step = step /\ work'[w].msg = work[w].msg
    BY <1>4, <1>8, <2>1, JobStep
  <2> QED
    BY <2>2, IdleAssumption
<1>9. ASSUME NEW s, WorksOn(w, s) PROVE ForSpec(work[w].msg) /\ work[w].msg.aim.target = s
  BY <1>4, <1>9, AimOfTask DEF WorksOn, Busy
<1>10. ASSUME NEW m \in queue, TakeSpec(w, m) PROVE CatchInv'
  <2> DEFINE s == m.aim.target
  <2>1. /\ Take(w, m) /\ work[w] = Idle
        /\ UNCHANGED <<content, chunks, session>> /\ ForSpec(m)
    BY <1>10 DEF TakeSpec, Take
  <2>2. CASE Live(s)
    <3>1. /\ work'[w] # Idle /\ work'[w].step = "ready"
          /\ work'[w].msg = m /\ work'[w].text = content[s]
      BY <1>1, <1>6, <1>10, <2>2 DEF TakeSpec, Live, TypeOK
    <3>2. \A r \in Specs : InTime(r)'
      BY <2>1, <3>1, TakingInTime
    <3> QED
      BY <1>2, <2>1, <3>1, <3>2, WorkerFits
  <2>3. CASE ~Live(s)
    <3>1. work'[w] = Idle /\ content[s] \notin Texts
      BY <1>5, <1>10, <2>1, <2>3 DEF TakeSpec, Live, Contents
    <3>2. \A r \in Specs : InTime(r)'
      BY <2>1, <3>1, TakingInTime
    <3> QED
      BY <1>2, <2>1, <3>1, <3>2, WorkerFits
  <2> QED
    BY <2>2, <2>3
<1>11. ASSUME NEW m \in queue,
              TakeExpired(w, m) \/ \E f \in staged : TakeUpload(w, m, f)
       PROVE  CatchInv'
  <2>1. /\ Take(w, m) /\ work[w] = Idle
        /\ UNCHANGED <<content, chunks, session>> /\ ~ForSpec(m)
    BY <1>11 DEF TakeExpired, TakeUpload, Take
  <2>2. \/ work'[w] = Idle
        \/ work'[w].msg = m /\ work'[w].step \in {"ready", "failed"}
    <3>1. CASE Refuse(w, m)
      BY <1>5, <2>1, <3>1
    <3>2. ASSUME NEW f \in staged, TakeUpload(w, m, f), ~Refuse(w, m)
          PROVE  work'[w].msg = m /\ work'[w].step \in {"ready", "failed"}
      <4>1. f.text \in Contents /\ m \in Message
        BY <1>1 DEF TypeOK
      <4> QED
        BY <1>6, <3>2, <4>1 DEF TakeUpload
    <3> QED
      BY <1>11, <3>1, <3>2 DEF TakeExpired
  <2>3. \A r \in Specs : InTime(r)'
    BY <2>1, <2>2, TakingInTime
  <2> QED
    BY <1>2, <2>1, <2>2, <2>3, WorkerFits
<1>12. CASE IndexNothing(w)
  <2>1. /\ w \in Busy /\ Reading(w) /\ work[w].text \notin Texts
        /\ UNCHANGED <<content, chunks, session, queue>>
    BY <1>12 DEF IndexNothing, AtStep, Busy, Reading
  <2>2. \/ work'[w] = Idle
        \/ /\ ~ForSpec(work[w].msg) /\ work'[w].msg = work[w].msg
           /\ work'[w].step = "cleanup"
    BY <1>7, <1>8, <1>12, <2>1 DEF IndexNothing, Busy, JobSteps
  <2>3. \A r \in Specs : InTime(r)'
    BY <2>1, <2>2, WorkingInTime
  <2> QED
    BY <1>2, <2>1, <2>2, <2>3, WorkerFits
<1>13. CASE DeleteChunks(w)
  <2>1. /\ w \in Busy /\ Reading(w) /\ ForSpec(work[w].msg) /\ work[w] \in Job
        /\ UNCHANGED <<content, chunks, session, queue>>
    BY <1>4, <1>13 DEF DeleteChunks, AtStep, Busy, Reading
  <2> DEFINE seen == ChunksOf(work[w].msg.aim.target)
             j == Indexing(work[w], seen)
  <2>2. seen \in SUBSET Chunk /\ \A c \in seen : c.spec = work[w].msg.aim.target
    BY <1>1 DEF ChunksOf, TypeOK
  <2>3. work' = [work EXCEPT ![w] = j]
    BY <1>1, <1>13 DEF DeleteChunks, TypeOK, Indexing
  <2> HIDE DEF seen
  <2>4. /\ j \in Job /\ j.step = "indexing" /\ j.msg = work[w].msg
        /\ j.text = work[w].text /\ j.seen = seen
    BY <2>1, <2>2, JobIndexing
  <2> HIDE DEF j
  <2>5. /\ work'[w].step = "indexing" /\ work'[w].msg = work[w].msg
        /\ work'[w].text = work[w].text /\ work'[w].seen = seen /\ work'[w] # Idle
    BY <1>3, <2>3, <2>4, IdleAssumption
  <2>6. ASSUME NEW s \in Specs, WorksOn(w, s) PROVE WorksOn(w, s)' /\ Reading(w)'
    BY <2>5, <2>6 DEF WorksOn, Reading, Busy, ToIndex
  <2>7. \A r \in Specs : InTime(r)'
    BY <2>1, <2>5, <2>6, WorkingInTime
  <2>8. WorkFits'
    BY <1>2, <2>2, <2>5 DEF WorkFits, Busy
  <2> QED
    BY <2>1, <2>7, <2>8 DEF CatchInv, SessionsFit
<1>14. CASE CommitChunks(w)
  <2> DEFINE s == work[w].msg.aim.target
             new == [spec |-> s, text |-> work[w].text, by |-> work[w].msg.task]
  <2>1. /\ w \in Busy /\ Reading(w) /\ ForSpec(work[w].msg) /\ work'[w] = Idle
        /\ \A c \in work[w].seen : c.spec = s
        /\ UNCHANGED <<content, session, queue>>
    BY <1>1, <1>7, <1>14 DEF CommitChunks, AtStep, Busy, Reading, StepsFit, WorkFits
  <2>2. new.spec = s /\ new.text = work[w].text
    OBVIOUS
  <2>3. chunks' = (chunks \ work[w].seen) \cup {new}
    BY <1>14 DEF CommitChunks
  <2> HIDE DEF new
  <2>4. \A c \in chunks : c.spec # s => c \in chunks'
    BY <2>1, <2>3
  <2>5. ASSUME NEW r \in Specs, WorksOn(w, r)
        PROVE  /\ ~WorksOn(w, r)'
               /\ \E c \in chunks' : c.spec = r /\ c.text = work[w].text
    BY <1>9, <2>1, <2>2, <2>3, <2>5 DEF WorksOn, Busy
  <2>6. \A r \in Specs : InTime(r)'
    BY <2>1, <2>4, <2>5, WorkingInTime
  <2> QED
    BY <1>2, <2>1, <2>6, WorkerFits
<1>15. ASSUME NEW r \in Specs, StoreUpload(w, r) PROVE CatchInv'
  <2> DEFINE new == [spec |-> r, text |-> work[w].text, by |-> work[w].msg.task]
  <2>1. /\ work[w] # Idle /\ ~ForSpec(work[w].msg)
        /\ UNCHANGED <<queue, session>>
    BY <1>15 DEF StoreUpload, AtStep
  <2>2. work'[w].step = "cleanup" /\ work'[w].msg = work[w].msg
    BY <1>8, <1>15, <2>1 DEF StoreUpload, JobSteps
  <2>3. ASSUME NEW s \in Specs PROVE ~WorksOn(w, s) /\ ~WorksOn(w, s)'
    <3>1. work[w].msg.aim # ToIndex(s)
      BY <1>4, <2>1, AimOfTask
    <3> QED
      BY <2>2, <3>1 DEF WorksOn, ToIndex
  <2>4. /\ content'[r] = work[w].text
        /\ \A s \in Specs \ {r} : content'[s] = content[s]
    BY <1>1, <1>15 DEF StoreUpload, TypeOK
  <2>5. new.spec = r /\ new.text = work[w].text
    OBVIOUS
  <2>6. chunks' = chunks \cup {new}
    BY <1>15 DEF StoreUpload
  <2> HIDE DEF new
  <2>7. ASSUME NEW s \in Specs PROVE InTime(s)'
    <3>1. CASE s = r
      <4>1. new \in ChunksOf(r)'
        BY <2>5, <2>6 DEF ChunksOf
      <4> QED
        BY <1>2, <2>3, <2>4, <2>5, <3>1, <4>1 DEF InTime, Fresh
    <3>2. CASE s # r
      BY <1>1, <1>2, <2>1, <2>3, <2>4, <2>6, <3>2, WorkerElsewhere DEF QueueKeeps
    <3> QED
      BY <3>1, <3>2
  <2> QED
    BY <1>2, <2>1, <2>2, <2>7, WorkerFits
<1>16. CASE RemoveKey(w)
  <2>1. /\ w \in Busy /\ ~ForSpec(work[w].msg) /\ work'[w] = Idle
        /\ UNCHANGED <<content, chunks, session, queue>>
    BY <1>1, <1>7, <1>16 DEF RemoveKey, AtStep, Busy, WorkFits
  <2>2. \A r \in Specs : InTime(r)'
    BY <1>9, <2>1, WorkingInTime
  <2> QED
    BY <1>2, <2>1, <2>2, WorkerFits
<1>17. CASE IndexFail(w)
  <2>1. w \in Busy /\ UNCHANGED <<content, chunks, session>> /\ queue \subseteq queue'
    BY <1>17 DEF IndexFail, AtStep, Busy
  <2>2. work'[w] # Idle /\ work'[w].step = "failed" /\ work'[w].msg = work[w].msg
    BY <1>4, <1>6, <1>17, <2>1 DEF IndexFail, Fail, Busy, Contents
  <2>3. ASSUME NEW s \in Specs, WorksOn(w, s) PROVE Due(s)'
    BY <2>2, <2>3 DEF Due, WorksOn, Failing, Busy, ToIndex
  <2>4. \A r \in Specs : InTime(r)'
    BY <2>1, <2>2, <2>3, WorkingInTime
  <2> QED
    BY <1>2, <2>1, <2>2, <2>4, WorkerFits
<1>18. CASE LogFailure(w)
  <2> DEFINE g == FailureRow(work[w].msg)
  <2>1. /\ w \in Busy /\ UNCHANGED <<content, chunks, session, queue>>
        /\ g.aim = work[w].msg.aim /\ g \in failed'
    BY <1>18 DEF LogFailure, AtStep, Busy, FailureRow
  <2> HIDE DEF g
  <2>2. work'[w] = Idle \/ (work'[w].step = "logged" /\ work'[w].msg = work[w].msg)
    <3>1. CASE Goto(w, "logged")
      BY <1>8, <2>1, <3>1 DEF Busy, JobSteps
    <3>2. CASE Finish(w, "error")
      BY <1>7, <3>2
    <3> QED
      BY <1>18, <3>1, <3>2 DEF LogFailure
  <2>3. ASSUME NEW s \in Specs, WorksOn(w, s) PROVE Due(s)'
    BY <1>9, <2>1, <2>3 DEF Due, Reported
  <2>4. \A r \in Specs : InTime(r)'
    BY <2>1, <2>2, <2>3, WorkingInTime
  <2> QED
    BY <1>2, <2>1, <2>2, <2>4, WorkerFits
<1>19. CASE LogConflict(w)
  <2>1. /\ w \in Busy /\ work'[w] = Idle /\ Logged(work[w].msg)
        /\ UNCHANGED <<content, chunks, session, queue, failed>>
    BY <1>7, <1>19 DEF LogConflict, AtStep, Busy
  <2>2. ASSUME NEW s \in Specs, WorksOn(w, s) PROVE Due(s)'
    <3>1. PICK f \in failed : f.task = work[w].msg.task
      BY <2>1 DEF Logged
    <3>2. f.aim = work[w].msg.aim
      BY <1>4, <2>1, <3>1 DEF AimInv, AtHand, Busy
    <3> QED
      BY <1>9, <2>1, <2>2, <3>2 DEF Due, Reported
  <2>3. \A r \in Specs : InTime(r)'
    BY <2>1, <2>2, WorkingInTime
  <2> QED
    BY <1>2, <2>1, <2>3, WorkerFits
<1>20. CASE Retry(w)
  <2> DEFINE n == Again(work[w].msg, "second")
  <2>1. /\ w \in Busy /\ work'[w] = Idle /\ work[w].step = "logged"
        /\ UNCHANGED <<content, chunks, session>> /\ queue' = queue \cup {n}
    BY <1>3, <1>20 DEF Retry, AtStep, Busy
  <2>2. n.aim = work[w].msg.aim
    <3>1. work[w].msg.retries < MaxRetries
      BY <1>1, <2>1 DEF StepsFit
    <3> QED
      BY <1>4, <2>1, <3>1, AgainType DEF Busy
  <2> HIDE DEF n
  <2>3. ASSUME NEW s \in Specs, WorksOn(w, s) PROVE Due(s)'
    <3>1. n \in queue' /\ n.aim = ToIndex(s)
      BY <2>1, <2>2, <2>3 DEF WorksOn
    <3> QED
      BY <3>1 DEF Due, Queued, ToIndex
  <2>4. \A r \in Specs : InTime(r)'
    BY <2>1, <2>3, WorkingInTime
  <2> QED
    BY <1>2, <2>1, <2>4, WorkerFits
<1>21. ASSUME NEW m \in queue, TakeFail(w, m) PROVE CatchInv'
  <2>1. Take(w, m) /\ UNCHANGED <<content, chunks, session>> /\ m \in Message
    BY <1>1, <1>21 DEF TakeFail, TypeOK
  <2>2. work'[w] # Idle /\ work'[w].step = "failed" /\ work'[w].msg = m
    BY <1>6, <1>21, <2>1 DEF TakeFail, Fail, Contents
  <2>3. \A r \in Specs : InTime(r)'
    BY <2>1, <2>2, TakingInTime
  <2> QED
    BY <1>2, <2>1, <2>2, <2>3, WorkerFits
<1> QED
  BY <1>10, <1>11, <1>12, <1>13, <1>14, <1>15, <1>16, <1>17, <1>18, <1>19, <1>20, <1>21
  DEF WorkerStep

LEMMA CatchStep ==
    EditorsAndOneWorker
        => (TypeInv /\ AimInv /\ CatchInv /\ [Next]_vars => CatchInv')
<1> SUFFICES ASSUME EditorsAndOneWorker, TypeInv, AimInv, CatchInv, [Next]_vars
             PROVE  CatchInv'
    OBVIOUS
<1>1. TypeOK /\ RowsMove /\ WorkFits /\ SessionsFit /\ \A s \in Specs : InTime(s)
    BY NextRows DEF TypeInv, CatchInv
<1>2. ASSUME UNCHANGED <<content, chunks, queue, work, session>> PROVE CatchInv'
  <2>1. ASSUME NEW s \in Specs PROVE InTime(s)'
    <3>1. Announced(s) => Announced(s)'
      BY <1>2 DEF Announced, Doing
    <3> QED
      BY <1>1, <1>2, <3>1, HandlerInTime DEF QueueKeeps
  <2> QED
    BY <1>1, <1>2, <2>1, WorkStaysFit DEF CatchInv, SessionsFit
<1>3. ASSUME NEW f \in staged, ExpireUpload(f) PROVE CatchInv'
  BY <1>2, <1>3 DEF ExpireUpload, tables, broker
<1>4. CASE UNCHANGED vars
  BY <1>2, <1>4 DEF vars, tables, broker
<1>5. /\ \A h \in Sessions : ~EnqueueFail(h) /\ ~SessionCrash(h)
      /\ \A w \in Workers : ~WorkerFault(w)
  BY <1>1 DEF TypeOK, EditorsAndOneWorker, EnqueueFail, SessionCrash,
     WorkerFault, UploadFail, LogFail, RetryFail, WorkerCrash
<1>6. Importers = {} /\ Agents = {} /\ Admins \subseteq Sessions
  BY DEF EditorsAndOneWorker, Sessions
<1> QED
  BY <1>1, <1>3, <1>4, <1>5, <1>6, StepCases, EditorsCatchUp, EnqueueCatchesUp,
     AdminsCatchUp, WorkerCatchesUp

\* However edits, deletions, uploads, failures, retries and the admin's
\* requeues interleave, search ends up with the text written last, or the
\* admin with a row for the spec: a worker that has read an older text always
\* leaves a later task behind.
THEOREM IndexEndsUpToDate ==
    EditorsAndOneWorker /\ Spec => []IndexCatchesUp
<1> SUFFICES ASSUME EditorsAndOneWorker PROVE Spec => []IndexCatchesUp
    OBVIOUS
<1>1. Init => AimInv /\ CatchInv
  <2> SUFFICES ASSUME Init PROVE AimInv /\ CatchInv
    OBVIOUS
  <2>1. AimInv /\ WorkFits /\ SessionsFit
    BY DEF Init, AimInv, WorkFits, SessionsFit, Busy, Sessions
  <2>2. \A s \in Specs : InTime(s)
    BY ContentsAssumption DEF Init, InTime, Contents
  <2> QED
    BY <2>1, <2>2 DEF CatchInv
<1>2. TypeInv /\ AimInv /\ CatchInv /\ [Next]_vars => CatchInv'
    BY CatchStep
<1>3. CatchInv => IndexCatchesUp
  <2> SUFFICES ASSUME CatchInv, Quiet, NEW s \in Specs, content[s] \in Texts
               PROVE  \/ \E c \in ChunksOf(s) : c.text = content[s]
                      \/ \E f \in failed : f.aim.target = s
    BY DEF IndexCatchesUp
  <2>1. Due(s) \/ Fresh(s)
    BY DEF CatchInv, InTime
  <2>2. ~Announced(s) /\ ~Queued(s) /\ \A w \in Workers : ~WorksOn(w, s)
    BY DEF Quiet, Announced, Doing, Queued, WorksOn
  <2> QED
    BY <2>1, <2>2 DEF Due, Fresh, Reported
<1> QED
    BY <1>1, <1>2, <1>3, AimStep, AttemptInit, AttemptStep, NextMove, LoggedInit, LoggedStep,
       TypeInit, TypeStep, PTL DEF Spec
=============================================================================
