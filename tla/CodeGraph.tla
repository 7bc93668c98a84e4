------------------------------- MODULE CodeGraph -------------------------------
(***************************************************************************)
(* The code graph of an app (tables code_nodes and code_edges): an agent   *)
(* pushes the symbols of some files and the edges between symbols, and a   *)
(* Celery task replaces what the graph holds of those files, in three      *)
(* commits: removal, symbols, edges.                                       *)
(*                                                                         *)
(* Tasks are taken, retried, logged and lost as in SpecTasks; embeddings   *)
(* and texts are left out: a row shows the push whose text it has.         *)
(***************************************************************************)
EXTENDS Naturals, Sequences, FiniteSets

CONSTANTS
    Files,       \* file paths
    Symbols,     \* stable ids
    Payloads,    \* what agents push
    Workers,     \* worker processes
    Idle,        \* what a worker without a task holds
    MaxRetries,  \* max_retries of the task
    MaxPushes,   \* bound: pushes in a behaviour
    MaxAttempts, \* bound: tasks taken, retries included
    MaxFaults    \* bound: crashes, calls of embedding, broker and database that fail

Payload == [files : SUBSET Files, nodes : SUBSET [symbol : Symbols, file : Files],
            edges : SUBSET (Symbols \X Symbols)]

\* An agent names the files of the symbols it pushes, and a symbol once.
ASSUME PayloadsAssumption ==
    \A p \in Payloads :
        /\ p \in Payload
        /\ \A n \in p.nodes : n.file \in p.files
        /\ \A n, m \in p.nodes : n.symbol = m.symbol => n = m
ASSUME BoundsAssumption ==
    MaxRetries \in Nat /\ MaxPushes \in Nat /\ MaxAttempts \in Nat /\ MaxFaults \in Nat

VARIABLES
    nodes,    \* rows of code_nodes
    edges,    \* rows of code_edges, between ids
    pushed,   \* pushed[t]: the payload of task t
    queue,    \* messages in the broker
    attempts, \* tasks taken so far
    failed,   \* tasks in the table of failed tasks
    outcome,  \* how the attempts of tasks ended
    work,     \* work[w]: what worker w is doing
    alone,    \* pushes whose last attempt nobody has disturbed since it began
    faults    \* crashes and failed calls so far

graph == <<nodes, edges>>
vars == <<graph, pushed, queue, attempts, failed, outcome, work, alone, faults>>

-----------------------------------------------------------------------------
Tasks == 1 .. MaxPushes

\* An id tells apart the rows that a symbol has had.
Id == [symbol : Symbols, attempt : 1 .. MaxAttempts]
Node == [id : Id, file : Files, by : Tasks]
Edge == [source : Id, target : Id]

Message == [task : Tasks, retries : 0 .. MaxRetries, line : {"first", "second"}]
JobSteps == {"remove", "select", "store", "resolve", "join", "failed", "logged"}
Job == [step : JobSteps, msg : Message, attempt : 1 .. MaxAttempts, seen : SUBSET Node]

Ends == {"done", "error", "raised", "unlogged", "lost"}

ASSUME IdleAssumption == Idle \notin Job

Of(w) == pushed[work[w].msg.task]
AtStep(w, step) == work[w] # Idle /\ work[w].step = step

SymbolsOf(p) == {n.symbol : n \in p.nodes}
SymbolsIn(N) == {n.id.symbol : n \in N}
RowsOf(S) == {n \in nodes : n.id.symbol \in S}
Ids(N) == {n.id : n \in N}

Goto(w, step) == work' = [work EXCEPT ![w].step = step] /\ UNCHANGED outcome

\* Goes on with rows that were read.
See(w, step, N) ==
    work' = [work EXCEPT ![w].step = step, ![w].seen = N] /\ UNCHANGED outcome

Finish(w, how) ==
    /\ work' = [work EXCEPT ![w] = Idle]
    /\ outcome' = outcome \cup {[task |-> work[w].msg.task, how |-> how]}

Disturb(w) == alone' = alone \ {work[w].msg.task}

-----------------------------------------------------------------------------
(* push_code_index *)

\* A broker that does not take the message is reported, and nothing is kept.
push_code_index(p) ==
    /\ Len(pushed) < MaxPushes
    /\ pushed' = Append(pushed, p)
    /\ queue' = queue \cup {[task |-> Len(pushed) + 1, retries |-> 0, line |-> "first"]}
    /\ UNCHANGED <<graph, attempts, failed, outcome, work, alone, faults>>

-----------------------------------------------------------------------------
(* index_code_batch_task *)

\* The task is taken, and reads which rows its files have.  Another attempt
\* disturbs it that writes one of its files or symbols, or that is about to
\* remove a symbol which has meanwhile moved.
Take(w, m) ==
    LET p == pushed[m.task]
        listed == {n \in nodes : n.file \in p.files}
        Touches(q, S) == p.files \cap q.files # {} \/ S \cap SymbolsOf(q) # {}
        rivals == {t \in 1 .. Len(pushed) :
                      t = m.task \/ Touches(pushed[t], SymbolsOf(p) \cup SymbolsIn(listed))}
        busy == {v \in Workers : work[v] # Idle
                    /\ \/ work[v].msg.task \in rivals
                       \/ SymbolsIn(work[v].seen) \cap SymbolsOf(p) # {}}
    IN  /\ work[w] = Idle /\ m \in queue
        /\ queue' = queue \ {m}
        /\ attempts < MaxAttempts /\ attempts' = attempts + 1
        /\ work' = [work EXCEPT ![w] = [step |-> "remove", msg |-> m,
                                       attempt |-> attempts + 1, seen |-> listed]]
        /\ alone' = (alone \ rivals) \cup (IF busy = {} THEN {m.task} ELSE {})
        /\ UNCHANGED <<graph, pushed, failed, outcome, faults>>

Incident(e, I) == e.source \in I \/ e.target \in I

\* Mutant: the rows of the file are left to the upsert.
RemoveNothing(w) ==
    /\ AtStep(w, "remove")
    /\ IF Of(w).nodes = {} THEN Finish(w, "done") ELSE Goto(w, "select")
    /\ UNCHANGED <<graph, pushed, queue, attempts, failed, alone, faults>>

\* The first commit: the rows, and with them (CASCADE) their edges.  A push
\* without symbols ends here, whatever edges it brings.
Remove(w) ==
    LET gone == Ids(work[w].seen)
    IN  /\ AtStep(w, "remove")
        /\ nodes' = {n \in nodes : n.id \notin gone}
        /\ edges' = {e \in edges : ~Incident(e, gone)}
        /\ IF Of(w).nodes = {} THEN Finish(w, "done") ELSE Goto(w, "select")
        /\ UNCHANGED <<pushed, queue, attempts, failed, alone, faults>>

\* After the embedding: which of the symbols have a row.
Select(w) ==
    /\ AtStep(w, "select")
    /\ See(w, "store", RowsOf(SymbolsOf(Of(w))))
    /\ UNCHANGED <<graph, pushed, queue, attempts, failed, alone, faults>>

\* Mutant: no unique constraint.
StillUnique(w) == Ids(work[w].seen) \subseteq Ids(nodes)

\* No symbol got a row meanwhile, and no row to update is gone.
StillSo(w) == Ids(work[w].seen) = Ids(RowsOf(SymbolsOf(Of(w))))

RowFor(w, n) ==
    LET old == {r \in work[w].seen : r.id.symbol = n.symbol}
    IN  [id |-> IF old # {} THEN (CHOOSE r \in old : TRUE).id
                ELSE [symbol |-> n.symbol, attempt |-> work[w].attempt],
         file |-> n.file, by |-> work[w].msg.task]

\* The second commit: updates and inserts.
Store(w) ==
    /\ AtStep(w, "store")
    /\ StillSo(w)
    /\ nodes' = {n \in nodes : n.id \notin Ids(work[w].seen)}
                  \cup {RowFor(w, n) : n \in Of(w).nodes}
    /\ Goto(w, "resolve")
    /\ UNCHANGED <<edges, pushed, queue, attempts, failed, alone, faults>>

\* The ends of the edges, whatever file they are in; edges with an end that
\* has no row are skipped.
Resolve(w) ==
    /\ AtStep(w, "resolve")
    /\ See(w, "join", RowsOf(UNION {{e[1], e[2]} : e \in Of(w).edges}))
    /\ UNCHANGED <<graph, pushed, queue, attempts, failed, alone, faults>>

Resolved(w) ==
    {[source |-> pair[1].id, target |-> pair[2].id] :
        pair \in {both \in work[w].seen \X work[w].seen :
                    <<both[1].id.symbol, both[2].id.symbol>> \in Of(w).edges}}

\* Mutant: no foreign keys.
EndsUnchecked(E) == TRUE

EndsExist(E) == \A e \in E : {e.source, e.target} \subseteq Ids(nodes)

\* The third commit.  Edges that are there already are left alone.
Join(w) ==
    /\ AtStep(w, "join")
    /\ EndsExist(Resolved(w))
    /\ edges' = edges \cup Resolved(w)
    /\ Finish(w, "done")
    /\ UNCHANGED <<nodes, pushed, queue, attempts, failed, alone, faults>>

Again(m, line) == [m EXCEPT !.retries = @ + 1, !.line = line]

\* Mutant: the error is returned before the handler sees it.
FailEmbeddingQuietly(w) ==
    /\ AtStep(w, "select")
    /\ faults < MaxFaults /\ faults' = faults + 1
    /\ Finish(w, "error")
    /\ Disturb(w)
    /\ UNCHANGED <<graph, pushed, queue, attempts, failed>>

\* An embedding that fails has sent its retry by the time the outer handler
\* catches that retry as one more error.
FailEmbedding(w) ==
    /\ AtStep(w, "select")
    /\ faults < MaxFaults /\ faults' = faults + 1
    /\ queue' = queue \cup (IF work[w].msg.retries < MaxRetries
                            THEN {Again(work[w].msg, work[w].msg.line)} ELSE {})
    /\ Goto(w, "failed")
    /\ Disturb(w)
    /\ UNCHANGED <<graph, pushed, attempts, failed>>

\* A constraint, a row that is gone, the connection, an inner retry not sent.
Fail(w) ==
    /\ \E step \in {"remove", "select", "store", "resolve", "join"} : AtStep(w, step)
    /\ \/ faults < MaxFaults /\ faults' = faults + 1
       \/ AtStep(w, "store") /\ ~StillSo(w) /\ UNCHANGED faults
       \/ AtStep(w, "join") /\ ~EndsExist(Resolved(w)) /\ UNCHANGED faults
    /\ Goto(w, "failed")
    /\ Disturb(w)
    /\ UNCHANGED <<graph, pushed, queue, attempts, failed>>

\* One row for a task id: a second one for it leaves the handler as an error.
LogFailure(w) ==
    /\ AtStep(w, "failed")
    /\ failed' = failed \cup {work[w].msg.task}
    /\ CASE work[w].msg.task \in failed -> Finish(w, "raised")
         [] work[w].msg.task \notin failed /\ work[w].msg.retries = MaxRetries -> Finish(w, "error")
         [] OTHER -> Goto(w, "logged")
    /\ UNCHANGED <<graph, pushed, queue, attempts, alone, faults>>

\* A new fault, or the last one lasts.
Outage == faults' \in {faults, faults + 1} \cap 1 .. MaxFaults

\* The row cannot be written, for the database that made the attempt fail is
\* still away: the error leaves the handler before the retry, and the worker
\* goes on.
LogFail(w) ==
    /\ AtStep(w, "failed")
    /\ Outage
    /\ Finish(w, "unlogged")
    /\ UNCHANGED <<graph, pushed, queue, attempts, failed, alone>>

\* Mutant: the retry is built, and not sent.
GiveUp(w) ==
    /\ AtStep(w, "logged")
    /\ work' = [work EXCEPT ![w] = Idle]
    /\ UNCHANGED <<graph, pushed, queue, attempts, failed, outcome, alone, faults>>

Retry(w) ==
    /\ AtStep(w, "logged")
    /\ queue' = queue \cup {Again(work[w].msg, "second")}
    /\ work' = [work EXCEPT ![w] = Idle]
    /\ UNCHANGED <<graph, pushed, attempts, failed, outcome, alone, faults>>

\* The broker does not take the retry.
RetryFail(w) ==
    /\ AtStep(w, "logged")
    /\ Outage
    /\ Finish(w, "raised")
    /\ UNCHANGED <<graph, pushed, queue, attempts, failed, alone>>

\* A worker dies; its task was acknowledged when it was taken.
Crash(w) ==
    /\ work[w] # Idle
    /\ faults < MaxFaults /\ faults' = faults + 1
    /\ Finish(w, "lost")
    /\ Disturb(w)
    /\ UNCHANGED <<graph, pushed, queue, attempts, failed>>

-----------------------------------------------------------------------------
Init ==
    /\ nodes = {} /\ edges = {} /\ pushed = <<>> /\ queue = {} /\ attempts = 0
    /\ failed = {} /\ outcome = {} /\ alone = {} /\ faults = 0
    /\ work = [w \in Workers |-> Idle]

index_code_batch(w) ==
    \/ \E m \in queue : Take(w, m)
    \/ Remove(w)
    \/ Select(w)
    \/ Store(w)
    \/ Resolve(w)
    \/ Join(w)
    \/ FailEmbedding(w)
    \/ Fail(w)
    \/ LogFailure(w)
    \/ LogFail(w)
    \/ Retry(w)
    \/ RetryFail(w)

Next ==
    \/ \E p \in Payloads : push_code_index(p)
    \/ \E w \in Workers : index_code_batch(w)
    \/ \E w \in Workers : Crash(w)

\* Workers that live go on with their tasks and take waiting ones.
Spec == Init /\ [][Next]_vars /\ \A w \in Workers : WF_vars(index_code_batch(w))

-----------------------------------------------------------------------------
(* Properties *)

\* Every variable has its type.
TypeOK ==
    /\ nodes \subseteq Node /\ edges \subseteq Edge
    /\ pushed \in Seq(Payloads) /\ Len(pushed) <= MaxPushes
    /\ queue \subseteq Message /\ attempts \in 0 .. MaxAttempts
    /\ failed \subseteq Tasks
    /\ outcome \subseteq [task : Tasks, how : Ends]
    /\ work \in [Workers -> Job \cup {Idle}]
    /\ alone \subseteq Tasks /\ faults \in 0 .. MaxFaults

\* However two workers interleave their commits, a symbol has one row and an
\* edge joins two rows.
GraphIsSound ==
    /\ \A n, m \in nodes : n.id.symbol = m.id.symbol => n = m
    /\ \A e \in edges : {e.source, e.target} \subseteq Ids(nodes)

Ended(t, hows) == \E o \in outcome : o.task = t /\ o.how \in hows

\* A push that came to its end, and during and since which no other attempt
\* wrote its files or symbols, is what the graph shows of its files: its
\* symbols, no others, and the edges it brought between them.
PushReplacesItsFiles ==
    \A t \in alone : (\A w \in Workers : work[w] # Idle => work[w].msg.task # t) =>
        LET p == pushed[t]
            shown == {n \in nodes : n.file \in p.files}
        IN  /\ {[symbol |-> n.id.symbol, file |-> n.file] : n \in shown} = p.nodes
            /\ \A n \in shown : n.by = t
            /\ \A n, m \in shown :
                  <<n.id.symbol, m.id.symbol>> \in p.edges =>
                      [source |-> n.id, target |-> m.id] \in edges

\* The ids that attempts at work, or to come, may still give.
ToCome ==
    {i \in Id : \/ i.attempt > attempts
                \/ \E w \in Workers : /\ work[w] # Idle /\ work[w].attempt = i.attempt
                                     /\ work[w].step \in {"remove", "select", "store"}}

\* The three commits of a push do to the tables what GraphTable allows, which
\* is all that the analysis of CodeImpact relies on.
Table == INSTANCE GraphTable WITH ids <- Ids(nodes), fresh <- ToCome
ImplementsTable == Table!Spec

Pending(t) ==
    \/ \E m \in queue : m.task = t
    \/ \E w \in Workers : work[w] # Idle /\ work[w].msg.task = t

\* A file that was pushed and is missing from the graph is missing for a
\* reason: a push of the file waits or is at work, has a row in the table of
\* failed tasks, died with its worker, failed while the database did not take
\* its row either, or left nothing there but symbols that were pushed in another
\* file too.
MissingFilesAreExplained ==
    \A t \in 1 .. Len(pushed) : \A f \in {n.file : n \in pushed[t].nodes} :
        \/ \E n \in nodes : n.file = f
        \/ \E u \in 1 .. Len(pushed) :
              /\ f \in pushed[u].files
              /\ \/ Pending(u) \/ u \in failed \/ Ended(u, {"lost", "unlogged"})
                 \/ \A n \in pushed[u].nodes : n.file = f =>
                       \E v \in 1 .. Len(pushed) : \E q \in pushed[v].nodes :
                          q.symbol = n.symbol /\ q.file # f

\* Every push comes to an end, however its attempts fail and are retried: it is
\* done, is lost with its worker, or ends in an error (and may then leave its
\* files removed and not filled again).
PushesEnd ==
    \A t \in Tasks : Pending(t) ~>
        (~Pending(t) /\ Ended(t, Ends))
=============================================================================
