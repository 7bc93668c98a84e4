------------------------------ MODULE SpecTasks ------------------------------
(***************************************************************************)
(* The spec documents of mcper, their search chunks, and the Celery tasks  *)
(* that keep the one in step with the other: the handlers that write specs *)
(* and enqueue tasks, the worker processes that run, retry and give up     *)
(* tasks, the table of failed tasks, and the admin's requeue.              *)
(*                                                                         *)
(* A step is one commit, one statement or one broker call.  Tasks are      *)
(* acknowledged when they are taken, so a dying worker loses its task.     *)
(* Count-downs only delay a retry: the queue is a set of messages that are *)
(* taken in any order.                                                     *)
(***************************************************************************)
EXTENDS Naturals, FiniteSets

CONSTANTS
    Specs,       \* keys of the spec table
    Texts,       \* contents the chunker makes chunks of
    Bare,        \* a content of headings alone: not blank, but no chunks
    Blank,       \* blank content
    Files,       \* contents of the files that are uploaded
    Unborn,      \* content of a key that is still free
    Gone,        \* content of a key without a row, never used again
    Editors,     \* sessions that upload, edit, clear and delete specs
    Importers,   \* sessions that register URLs
    Agents,      \* sessions that push chunks of their own
    Admins,      \* sessions that requeue failed tasks
    Workers,     \* worker processes
    Idle,        \* what an idle session or worker holds
    NoSpec,      \* target of an upload task
    MaxRetries,  \* max_retries of the tasks
    MaxTasks,    \* bound: tasks issued in a behaviour
    MaxFaults    \* bound: crashes, calls of broker and database that fail

Contents == Texts \cup {Bare, Blank}
Sessions == Editors \cup Importers \cup Agents \cup Admins
Tasks == 1 .. MaxTasks

ASSUME ContentsAssumption ==
    /\ Bare \notin Texts /\ Blank \notin Texts /\ Bare # Blank
    /\ Unborn \notin Contents /\ Gone \notin Contents /\ Unborn # Gone
    /\ NoSpec \notin Specs
    /\ Files \subseteq Contents
ASSUME TaskBoundsAssumption == MaxRetries \in Nat /\ MaxTasks \in Nat /\ MaxFaults \in Nat

VARIABLES
    content,   \* content[s]: the text of spec s, Unborn or Gone
    chunks,    \* which text, indexed by whom, the search shows for a spec
    queue,     \* messages in the broker
    issued,    \* tasks issued so far
    staged,    \* uploaded files in Redis, keyed by their task
    stored,    \* which upload task has stored which spec
    failed,    \* table of failed tasks
    outcome,   \* how the attempts of tasks ended
    work,      \* work[w]: what worker w is doing
    session,   \* session[h]: what handler h is doing
    faults     \* crashes and failed calls so far

tables == <<content, chunks, stored>>
broker == <<queue, issued>>
vars == <<tables, broker, staged, failed, outcome, work, session, faults>>

-----------------------------------------------------------------------------
(* Messages, rows and local state *)

\* What a message or a row is about: uploads have no spec yet.
Aim == [kind : {"spec"}, target : Specs] \cup [kind : {"upload"}, target : {NoSpec}]

\* line tells the two retries apart that one failed upload attempt may send.
Message == [task : Tasks, aim : Aim, retries : 0 .. MaxRetries, line : {"first", "second"}]

FailedTask == [task : Tasks, aim : Aim, count : 0 .. MaxRetries,
               status : {"pending", "retrying", "failed", "resolved"}]

Chunk == [spec : Specs, text : Texts, by : Tasks \cup Agents]

JobSteps == {"ready", "indexing", "cleanup", "failed", "logged"}
Job == [step : JobSteps, msg : Message, text : Contents, seen : SUBSET Chunk]

Errand == [step : {"enqueue", "announce", "commit", "push"}, spec : Specs,
           text : Contents, seen : SUBSET Chunk]
Ends == {"done", "refused", "error", "raised", "unlogged", "lost"}
Requeue == [step : {"count"}, task : Tasks, count : {n \in Nat : n < MaxRetries}]

ASSUME IdleAssumption == Idle \notin Job \cup Errand \cup Requeue

ForSpec(m) == m.aim.kind = "spec"

Live(s) == content[s] \in Contents
ChunksOf(s) == {c \in chunks : c.spec = s}

\* Mutants: a table without its unique constraint, or without its foreign key.
FitsNotUnique(s, seen) == Live(s)
FitsNoForeignKey(s, seen) == ChunksOf(s) \subseteq seen

\* A transaction that deleted the chunks it saw may insert new ones: the spec
\* is still there, and no chunk that is left has one of their indexes.
Fits(s, seen) == Live(s) /\ ChunksOf(s) \subseteq seen

\* Mutant: a retry that starts counting again.
AgainFromZero(m, line) == [m EXCEPT !.retries = 0, !.line = line]

\* The retry keeps the id of the task.
Again(m, line) == [m EXCEPT !.retries = @ + 1, !.line = line]

Finish(w, how) ==
    /\ work' = [work EXCEPT ![w] = Idle]
    /\ outcome' = outcome \cup {[task |-> work[w].msg.task, how |-> how]}

Goto(w, step) == work' = [work EXCEPT ![w].step = step] /\ UNCHANGED outcome

AtStep(w, step) == work[w] # Idle /\ work[w].step = step
Doing(h, step) == session[h] # Idle /\ session[h].step = step

Init ==
    /\ content = [s \in Specs |-> Unborn]
    /\ chunks = {} /\ queue = {} /\ issued = 0 /\ staged = {} /\ stored = {}
    /\ failed = {} /\ outcome = {} /\ faults = 0
    /\ work = [w \in Workers |-> Idle]
    /\ session = [h \in Sessions |-> Idle]

-----------------------------------------------------------------------------
(* Handlers that write specs *)

Errands(h, step, s, c) ==
    session' = [session EXCEPT ![h] =
        [step |-> step, spec |-> s, text |-> c, seen |-> {}]]

\* upload_document, plan_edit_submit and the harness sync commit the row ...
WriteSpec(h, s, c) ==
    /\ session[h] = Idle
    /\ content[s] # Gone
    /\ content' = [content EXCEPT ![s] = c]
    /\ Errands(h, "enqueue", s, c)
    /\ UNCHANGED <<chunks, stored, broker, staged, failed, outcome, work, faults>>

\* ... while the import of a URL has only the key of its row yet.
FlushImport(h, s, c) ==
    /\ session[h] = Idle
    /\ content[s] = Unborn
    /\ content' = [content EXCEPT ![s] = Gone]
    /\ Errands(h, "announce", s, c)
    /\ UNCHANGED <<chunks, stored, broker, staged, failed, outcome, work, faults>>

ToIndex(s) == [kind |-> "spec", target |-> s]
ToUpload == [kind |-> "upload", target |-> NoSpec]

Issue(aim) ==
    /\ issued < MaxTasks
    /\ issued' = issued + 1
    /\ queue' = queue \cup {[task |-> issued + 1, aim |-> aim,
                             retries |-> 0, line |-> "first"]}

\* Both then ask for the spec to be indexed; that the broker did not take the
\* message is logged, and reported, but changes nothing else.
AfterEnqueue(h) ==
    IF session[h].step = "announce"
    THEN session' = [session EXCEPT ![h].step = "commit"]
    ELSE session' = [session EXCEPT ![h] = Idle]

\* Mutant: no second task for a spec that has one in the queue or at work.
EnqueueUnlessPending(h) ==
    /\ Doing(h, "enqueue") \/ Doing(h, "announce")
    /\ AfterEnqueue(h)
    /\ IF \/ \E m \in queue : m.aim = ToIndex(session[h].spec)
          \/ \E w \in Workers : work[w] # Idle /\ work[w].msg.aim = ToIndex(session[h].spec)
       THEN UNCHANGED broker ELSE Issue(ToIndex(session[h].spec))
    /\ UNCHANGED <<tables, staged, failed, outcome, work, faults>>

Enqueue(h) ==
    /\ Doing(h, "enqueue") \/ Doing(h, "announce")
    /\ AfterEnqueue(h)
    /\ Issue(ToIndex(session[h].spec))
    /\ UNCHANGED <<tables, staged, failed, outcome, work, faults>>

EnqueueFail(h) ==
    /\ Doing(h, "enqueue") \/ Doing(h, "announce")
    /\ faults < MaxFaults /\ faults' = faults + 1
    /\ AfterEnqueue(h)
    /\ UNCHANGED <<tables, broker, staged, failed, outcome, work>>

CommitImport(h) ==
    /\ Doing(h, "commit")
    /\ content' = [content EXCEPT ![session[h].spec] = session[h].text]
    /\ session' = [session EXCEPT ![h] = Idle]
    /\ UNCHANGED <<chunks, stored, broker, staged, failed, outcome, work, faults>>

\* An uploaded file is staged in Redis under a key of its own, which its task
\* carries.
StageUpload(h, c) ==
    /\ session[h] = Idle
    /\ Issue(ToUpload)
    /\ staged' = staged \cup {[task |-> issued + 1, text |-> c]}
    /\ UNCHANGED <<tables, failed, outcome, work, session, faults>>

\* The staged file outlives its TTL.
ExpireUpload(f) ==
    /\ staged' = staged \ {f}
    /\ UNCHANGED <<tables, broker, failed, outcome, work, session, faults>>

\* Deleting one spec, or those of an app; their chunks go with them (CASCADE).
DeleteSpecs(h, S) ==
    /\ session[h] = Idle
    /\ content' = [s \in Specs |-> IF s \in S THEN Gone ELSE content[s]]
    /\ chunks' = {c \in chunks : c.spec \notin S}
    /\ UNCHANGED <<stored, broker, staged, failed, outcome, work, session, faults>>

\* Blanking the specs of an app; their chunks stay, and no task is sent.
ClearSpecs(h, S) ==
    /\ session[h] = Idle
    /\ content' = [s \in Specs |-> IF s \in S THEN Blank ELSE content[s]]
    /\ UNCHANGED <<chunks, stored, broker, staged, failed, outcome, work, session, faults>>

\* push_spec_chunks_with_embeddings: an agent brings chunks of its own.
PushDelete(h, s, c) ==
    /\ session[h] = Idle /\ Live(s)
    /\ session' = [session EXCEPT ![h] =
           [step |-> "push", spec |-> s, text |-> c, seen |-> ChunksOf(s)]]
    /\ UNCHANGED <<tables, broker, staged, failed, outcome, work, faults>>

PushCommit(h) ==
    /\ Doing(h, "push")
    /\ Fits(session[h].spec, session[h].seen)
    /\ chunks' = (chunks \ session[h].seen) \cup
           {[spec |-> session[h].spec, text |-> session[h].text, by |-> h]}
    /\ session' = [session EXCEPT ![h] = Idle]
    /\ UNCHANGED <<content, stored, broker, staged, failed, outcome, work, faults>>

\* An empty list: the DELETE and its commit, with nothing between them that
\* another session could tell.
PushNothing(h, s) ==
    /\ session[h] = Idle /\ Live(s)
    /\ chunks' = chunks \ ChunksOf(s)
    /\ UNCHANGED <<content, stored, broker, staged, failed, outcome, work, session, faults>>

\* A constraint or an ill-formed vector: rolled back and reported.
PushFail(h) ==
    /\ Doing(h, "push")
    /\ session' = [session EXCEPT ![h] = Idle]
    /\ UNCHANGED <<tables, broker, staged, failed, outcome, work, faults>>

\* The process of a handler dies.
SessionCrash(h) ==
    /\ session[h] # Idle
    /\ faults < MaxFaults /\ faults' = faults + 1
    /\ session' = [session EXCEPT ![h] = Idle]
    /\ UNCHANGED <<tables, broker, staged, failed, outcome, work>>

-----------------------------------------------------------------------------
(* Workers *)

Take(w, m) ==
    /\ work[w] = Idle /\ m \in queue
    /\ queue' = queue \ {m}

Begin(w, m, step, c) ==
    /\ work' = [work EXCEPT ![w] = [step |-> step, msg |-> m, text |-> c, seen |-> {}]]
    /\ UNCHANGED outcome

\* The task has nothing to work on and returns an error.
Refuse(w, m) ==
    /\ outcome' = outcome \cup {[task |-> m.task, how |-> "refused"]}
    /\ UNCHANGED work

\* index_spec reads the text of the spec, once.
TakeSpec(w, m) ==
    /\ ForSpec(m) /\ Take(w, m)
    /\ IF Live(m.aim.target) THEN Begin(w, m, "ready", content[m.aim.target]) ELSE Refuse(w, m)
    /\ UNCHANGED <<tables, issued, staged, failed, session, faults>>

\* parse_and_index_upload reads the staged file; it may have expired, or have
\* been stored already ...
TakeExpired(w, m) ==
    /\ ~ForSpec(m) /\ Take(w, m)
    /\ \A f \in staged : f.task # m.task
    /\ Refuse(w, m)
    /\ UNCHANGED <<tables, issued, staged, failed, session, faults>>

\* ... or be blank, and is then removed.
TakeUpload(w, m, f) ==
    /\ ~ForSpec(m) /\ Take(w, m)
    /\ f \in staged /\ f.task = m.task
    /\ \/ f.text = Blank /\ Refuse(w, m) /\ staged' = staged \ {f}
       \/ f.text # Blank /\ Begin(w, m, "ready", f.text) /\ UNCHANGED staged
    /\ UNCHANGED <<tables, issued, failed, session, faults>>

\* The handler of errors rolls back: nothing of the text is left.
Fail(w, m) == Begin(w, m, "failed", Blank)

\* The spec, or the staged file, cannot be read, or the file not be parsed.
TakeFail(w, m) ==
    /\ Take(w, m)
    /\ Fail(w, m)
    /\ UNCHANGED <<tables, issued, staged, failed, session, faults>>

\* A text without chunks: the index stays as it is and nothing is committed,
\* not even the row of an uploaded spec.
IndexNothing(w) ==
    /\ AtStep(w, "ready") /\ work[w].text \notin Texts
    /\ IF ForSpec(work[w].msg) THEN Finish(w, "done") ELSE Goto(w, "cleanup")
    /\ UNCHANGED <<tables, broker, staged, failed, session, faults>>

\* After the embedding: the DELETE of the chunks it sees ...
DeleteChunks(w) ==
    /\ AtStep(w, "ready") /\ work[w].text \in Texts /\ ForSpec(work[w].msg)
    /\ work' = [work EXCEPT ![w].step = "indexing",
                            ![w].seen = ChunksOf(work[w].msg.aim.target)]
    /\ UNCHANGED <<tables, broker, staged, failed, outcome, session, faults>>

\* ... and the new chunks, in one transaction.
CommitChunks(w) ==
    /\ AtStep(w, "indexing")
    /\ Fits(work[w].msg.aim.target, work[w].seen)
    /\ chunks' = (chunks \ work[w].seen) \cup
           {[spec |-> work[w].msg.aim.target, text |-> work[w].text, by |-> work[w].msg.task]}
    /\ Finish(w, "done")
    /\ UNCHANGED <<content, stored, broker, staged, failed, session, faults>>

\* An upload commits its spec and the chunks together.
StoreUpload(w, s) ==
    /\ AtStep(w, "ready") /\ work[w].text \in Texts /\ ~ForSpec(work[w].msg)
    /\ content[s] = Unborn
    /\ content' = [content EXCEPT ![s] = work[w].text]
    /\ chunks' = chunks \cup {[spec |-> s, text |-> work[w].text, by |-> work[w].msg.task]}
    /\ stored' = stored \cup {[task |-> work[w].msg.task, spec |-> s]}
    /\ Goto(w, "cleanup")
    /\ UNCHANGED <<broker, staged, failed, session, faults>>

\* Mutant: the staged file is left to its TTL.
KeyLeftToExpire(w) ==
    /\ AtStep(w, "cleanup")
    /\ Finish(w, "done")
    /\ UNCHANGED <<tables, broker, staged, failed, session, faults>>

RemoveKey(w) ==
    /\ AtStep(w, "cleanup")
    /\ staged' = {f \in staged : f.task # work[w].msg.task}
    /\ Finish(w, "done")
    /\ UNCHANGED <<tables, broker, failed, session, faults>>

\* Mutants: no limit, and indexing a spec sends a retry of its own too.
RetriedAtOnceForEver(w) == ~ForSpec(work[w].msg)
RetriedAtOnceAlways(w) == work[w].msg.retries < MaxRetries

\* An upload that fails in the indexer has sent its retry by the time the
\* outer handler sees an error: the Retry exception is caught as well.
RetriedAtOnce(w) == ~ForSpec(work[w].msg) /\ work[w].msg.retries < MaxRetries

\* The indexer fails: embedding, a constraint, the connection.
IndexFail(w) ==
    /\ AtStep(w, "indexing") \/ (AtStep(w, "ready") /\ work[w].text \in Texts)
    /\ queue' = queue \cup
           (IF RetriedAtOnce(w) THEN {Again(work[w].msg, work[w].msg.line)} ELSE {})
    /\ Fail(w, work[w].msg)
    /\ UNCHANGED <<tables, issued, staged, failed, session, faults>>

\* An upload fails outside the indexer: its row is not flushed, or its key is not
\* removed although the spec is stored.
UploadFail(w) ==
    /\ AtStep(w, "ready") \/ AtStep(w, "cleanup")
    /\ ~ForSpec(work[w].msg)
    /\ faults < MaxFaults /\ faults' = faults + 1
    /\ Fail(w, work[w].msg)
    /\ UNCHANGED <<tables, broker, staged, failed, session>>

\* Mutant: the failed-task table has one row for an entity.
LoggedForEntity(m) == \E f \in failed : f.aim = m.aim

\* The table of failed tasks has one row for a task id.
Logged(m) == \E f \in failed : f.task = m.task

FailureRow(m) == [task |-> m.task, aim |-> m.aim, status |-> "pending", count |-> 0]

\* log_task_failure commits a row.  Then come the retry, or the answer.
LogFailure(w) ==
    /\ AtStep(w, "failed")
    /\ ~Logged(work[w].msg)
    /\ failed' = failed \cup {FailureRow(work[w].msg)}
    /\ IF work[w].msg.retries < MaxRetries THEN Goto(w, "logged") ELSE Finish(w, "error")
    /\ UNCHANGED <<tables, broker, staged, session, faults>>

\* A second row for the same id: the IntegrityError leaves the handler.
LogConflict(w) ==
    /\ AtStep(w, "failed")
    /\ Logged(work[w].msg)
    /\ Finish(w, "raised")
    /\ UNCHANGED <<tables, broker, staged, failed, session, faults>>

\* The row cannot be written, for the database that made the task fail is still
\* away: the error leaves the handler before the retry, and the worker goes on.
LogFail(w) ==
    /\ AtStep(w, "failed")
    /\ faults < MaxFaults /\ faults' = faults + 1
    /\ Finish(w, "unlogged")
    /\ UNCHANGED <<tables, broker, staged, failed, session>>

Retry(w) ==
    /\ AtStep(w, "logged")
    /\ queue' = queue \cup {Again(work[w].msg, "second")}
    /\ work' = [work EXCEPT ![w] = Idle]
    /\ UNCHANGED <<tables, issued, staged, failed, outcome, session, faults>>

\* The broker does not take the retry.
RetryFail(w) ==
    /\ AtStep(w, "logged")
    /\ faults < MaxFaults /\ faults' = faults + 1
    /\ Finish(w, "raised")
    /\ UNCHANGED <<tables, broker, staged, failed, session>>

\* A worker process dies; its task was acknowledged when it was taken.
WorkerCrash(w) ==
    /\ work[w] # Idle
    /\ faults < MaxFaults /\ faults' = faults + 1
    /\ Finish(w, "lost")
    /\ UNCHANGED <<tables, broker, staged, failed, session>>

-----------------------------------------------------------------------------
(* The admin's page of failed tasks *)

SetRow(f, status, count) ==
    failed' = (failed \ {f}) \cup {[f EXCEPT !.status = status, !.count = count]}

MayRequeue(f) == f.count < MaxRetries

\* A requeue sends a new task for the spec, and counts in a later commit what
\* it has read before.  Uploads are refused.
SendRequeue(h, f) ==
    /\ session[h] = Idle /\ f \in failed /\ MayRequeue(f)
    /\ ForSpec(f)
    /\ Issue(f.aim)
    /\ session' = [session EXCEPT ![h] =
           [step |-> "count", task |-> f.task, count |-> f.count]]
    /\ UNCHANGED <<tables, staged, failed, outcome, work, faults>>

CountRequeue(h) ==
    /\ Doing(h, "count")
    /\ \E f \in failed : /\ f.task = session[h].task
                         /\ SetRow(f, "retrying", session[h].count + 1)
    /\ session' = [session EXCEPT ![h] = Idle]
    /\ UNCHANGED <<tables, broker, staged, outcome, work, faults>>

RefuseRequeue(h, f) ==
    /\ session[h] = Idle /\ f \in failed /\ ~MayRequeue(f)
    /\ SetRow(f, "failed", f.count)
    /\ UNCHANGED <<tables, broker, staged, outcome, work, session, faults>>

Resolve(h, f) ==
    /\ session[h] = Idle /\ f \in failed
    /\ SetRow(f, "resolved", f.count)
    /\ UNCHANGED <<tables, broker, staged, outcome, work, session, faults>>

-----------------------------------------------------------------------------
LiveSpecs == {s \in Specs : Live(s)}

EditorStep(h) ==
    \/ \E s \in Specs, c \in Contents : WriteSpec(h, s, c)
    \/ \E c \in Files : StageUpload(h, c)
    \/ \E S \in (SUBSET LiveSpecs) \ {{}} : DeleteSpecs(h, S)
    \/ \E S \in (SUBSET LiveSpecs) \ {{}} : ClearSpecs(h, S)

ImporterStep(h) ==
    \/ \E s \in Specs, c \in Contents \ {Blank} : FlushImport(h, s, c)
    \/ CommitImport(h)

AgentStep(h) ==
    \/ \E s \in Specs, c \in Texts : PushDelete(h, s, c)
    \/ \E s \in Specs : PushNothing(h, s)
    \/ PushCommit(h)
    \/ PushFail(h)

AdminStep(h) ==
    \/ \E f \in failed : SendRequeue(h, f)
    \/ CountRequeue(h)
    \/ \E f \in failed : RefuseRequeue(h, f)
    \/ \E f \in failed : Resolve(h, f)

WorkerStep(w) ==
    \/ \E m \in queue : TakeSpec(w, m)
    \/ \E m \in queue : TakeExpired(w, m)
    \/ \E m \in queue, f \in staged : TakeUpload(w, m, f)
    \/ \E m \in queue : TakeFail(w, m)
    \/ IndexNothing(w)
    \/ DeleteChunks(w)
    \/ CommitChunks(w)
    \/ \E s \in Specs : StoreUpload(w, s)
    \/ RemoveKey(w)
    \/ IndexFail(w)
    \/ LogFailure(w)
    \/ LogConflict(w)
    \/ Retry(w)

WorkerFault(w) ==
    \/ UploadFail(w)
    \/ LogFail(w)
    \/ RetryFail(w)
    \/ WorkerCrash(w)

Next ==
    \/ \E h \in Editors : EditorStep(h)
    \/ \E h \in Importers : ImporterStep(h)
    \/ \E h \in Agents : AgentStep(h)
    \/ \E h \in Admins : AdminStep(h)
    \/ \E h \in Sessions : Enqueue(h)
    \/ \E h \in Sessions : EnqueueFail(h)
    \/ \E h \in Sessions : SessionCrash(h)
    \/ \E f \in staged : ExpireUpload(f)
    \/ \E w \in Workers : WorkerStep(w)
    \/ \E w \in Workers : WorkerFault(w)

Spec == Init /\ [][Next]_vars

\* A worker that is not killed goes on with its task and takes the next one.
LiveSpec == Spec /\ \A w \in Workers : WF_vars(WorkerStep(w))

-----------------------------------------------------------------------------
(* Properties *)

\* The variables keep their types; no message carries more retries, and no
\* failed task more requeues, than max_retries.
TypeOK ==
    /\ content \in [Specs -> Contents \cup {Unborn, Gone}]
    /\ chunks \subseteq Chunk
    /\ queue \subseteq Message
    /\ issued \in 0 .. MaxTasks
    /\ staged \subseteq [task : Tasks, text : Contents]
    /\ stored \subseteq [task : Tasks, spec : Specs]
    /\ failed \subseteq FailedTask
    /\ outcome \subseteq [task : Tasks, how : Ends]
    /\ work \in [Workers -> Job \cup {Idle}]
    /\ session \in [Sessions -> Errand \cup Requeue \cup {Idle}]
    /\ faults \in 0 .. MaxFaults

\* Search shows one indexing of a spec, and only of specs that exist, however
\* workers, pushing agents and deletions interleave (the delete-and-insert
\* transaction of the indexer, its unique constraint and its foreign key).
SearchShowsOneIndexing ==
    \A c \in chunks : Live(c.spec) /\ \A d \in chunks : d.spec = c.spec => d = c

Busy == {w \in Workers : work[w] # Idle}

\* A task that is still to be run or at work.
Pending(t) == (\E m \in queue : m.task = t) \/ (\E w \in Busy : work[w].msg.task = t)

\* Two attempts of one spec task.
Rivals(m, n) == m.task = n.task /\ (ForSpec(m) \/ ForSpec(n))

\* A spec task has one attempt at a time, waiting or at work: its retry never
\* races it, nor does the admin's requeue, which is a task of its own.
OneAttemptAtATime ==
    /\ \A m, n \in queue : Rivals(m, n) => m = n
    /\ \A m \in queue, w \in Busy : ~Rivals(m, work[w].msg)
    /\ \A v, w \in Busy : Rivals(work[v].msg, work[w].msg) => v = w

\* A task disappears only with the worker process that has it, or when the
\* database that failed it does not take its row either.  Any other issued task
\* is still to be run, was done or refused, or has a row of its own for the
\* admin to see.
NoTaskDisappears ==
    \A t \in 1 .. issued :
        \/ Pending(t)
        \/ \E o \in outcome : o.task = t /\ o.how \in {"done", "refused", "lost", "unlogged"}
        \/ \E f \in failed : f.task = t

Quiet ==
    /\ queue = {}
    /\ Busy = {}
    /\ \A h \in Sessions : session[h] = Idle

\* When all is quiet, search shows the text of each spec, or the admin's page
\* a failed task for it.
IndexCatchesUp ==
    Quiet => \A s \in Specs : content[s] \in Texts =>
        \/ \E c \in ChunksOf(s) : c.text = content[s]
        \/ \E f \in failed : f.aim.target = s

\* An uploaded file becomes one spec, however often its task is retried.
UploadStoredOnce == \A a, b \in stored : a.task = b.task => a = b

\* The staged file of an upload is removed, and success reported, only when
\* its text is in the spec table.
UploadKeptUntilStored ==
    \A w \in Workers : AtStep(w, "cleanup") =>
        \E r \in stored : r.task = work[w].msg.task

\* Every task comes to an end.
TasksEnd == \A t \in Tasks : Pending(t) ~> ~Pending(t)

\* A task that ends in an error has used up its retries.
ErrorsUseUpRetries ==
    [][\A w \in Workers :
          \A o \in outcome' \ outcome :
              work[w] # Idle /\ work'[w] = Idle /\ o.how \in {"error", "raised"}
                  /\ o.task = work[w].msg.task => work[w].msg.retries = MaxRetries]_vars
=============================================================================
