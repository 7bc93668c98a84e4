--------------------------- MODULE CodeGraph_proofs ---------------------------
(***************************************************************************)
(* For any number of files, symbols, workers, pushes, failures and         *)
(* crashes: the types, the soundness of the tables, that what workers do   *)
(* to them is what GraphTable allows, why a file can be missing, and what  *)
(* a push leaves behind that nobody disturbs.                              *)
(***************************************************************************)
EXTENDS CodeGraph, TLAPS

\* Steps from which an attempt may still insert rows.
Early == {"remove", "select", "store"}

\* Messages and attempts are of tasks that were pushed.
TasksWerePushed ==
    /\ \A m \in queue : m.task \in 1 .. Len(pushed)
    /\ \A w \in Workers : work[w] # Idle => work[w].msg.task \in 1 .. Len(pushed)

\* Attempts at work have numbers of their own, and "logged", once the row is
\* written, is on the way to a retry.
AttemptsApart ==
    /\ \A w \in Workers : work[w] # Idle => work[w].attempt <= attempts
    /\ \A v, w \in Workers : work[v] # Idle /\ work[w] # Idle /\ work[v].attempt = work[w].attempt => v = w
    /\ \A w \in Workers : AtStep(w, "logged") =>
          work[w].msg.retries < MaxRetries /\ work[w].msg.task \in failed

\* A row's attempt is over, or past its insertion.
RowsAreOld ==
    \A n \in nodes :
        /\ n.id.attempt <= attempts
        /\ \A w \in Workers : work[w] # Idle /\ work[w].attempt = n.id.attempt => work[w].step \notin Early

IInv == TypeOK /\ TasksWerePushed /\ AttemptsApart /\ RowsAreOld /\ GraphIsSound

-----------------------------------------------------------------------------
(* Steps of workers *)

\* The new state of a worker that goes on with its attempt.
Onward(old, new) ==
    \/ new = Idle
    \/ /\ new \in Job
       /\ new.msg = old.msg /\ new.attempt = old.attempt
       /\ new.step \in Early => old.step \in Early
       /\ new.step = "logged" => new.msg.retries < MaxRetries /\ new.msg.task \in failed'

Advance(w) ==
    /\ work[w] # Idle
    /\ work' \in [Workers -> Job \cup {Idle}]
    /\ Onward(work[w], work'[w])
    /\ \A v \in Workers \ {w} : work'[v] = work[v]
    /\ outcome' \subseteq [task : Tasks, how : Ends]

\* Jobs that go on.
LEMMA JobGoes ==
    ASSUME NEW j \in Job, NEW step \in JobSteps
    PROVE  /\ [j EXCEPT !.step = step] \in Job
           /\ [j EXCEPT !.step = step].step = step
           /\ [j EXCEPT !.step = step].msg = j.msg
           /\ [j EXCEPT !.step = step].attempt = j.attempt
  BY DEF Job

LEMMA FinishAdvances ==
    ASSUME TypeOK, NEW w \in Workers, work[w] # Idle,
           NEW how \in Ends, Finish(w, how)
    PROVE  Advance(w) /\ work'[w] = Idle
<1>1. work[w] \in Job
  BY DEF TypeOK
<1>2. work[w].msg.task \in Tasks
  BY <1>1 DEF Job, Message
<1>3. outcome' \subseteq [task : Tasks, how : Ends]
  BY <1>2 DEF Finish, TypeOK
<1>4. /\ work' \in [Workers -> Job \cup {Idle}] /\ work'[w] = Idle
      /\ \A v \in Workers \ {w} : work'[v] = work[v]
  BY DEF Finish, TypeOK
<1> QED
  BY <1>3, <1>4 DEF Advance, Onward

LEMMA GotoAdvances ==
    ASSUME TypeOK, NEW w \in Workers, work[w] # Idle, NEW step \in JobSteps, Goto(w, step),
           step \in Early => work[w].step \in Early,
           step = "logged" => work[w].msg.retries < MaxRetries /\ work[w].msg.task \in failed'
    PROVE  Advance(w) /\ work'[w].step = step /\ work'[w] # Idle
<1>1. work[w] \in Job
  BY DEF TypeOK
<1> DEFINE j == [work[w] EXCEPT !.step = step]
<1>2. work' = [work EXCEPT ![w] = j]
  BY DEF Goto
<1>3. j \in Job /\ j.step = step /\ j.msg = work[w].msg /\ j.attempt = work[w].attempt
  BY <1>1, JobGoes
<1> HIDE DEF j
<1>4. /\ work' \in [Workers -> Job \cup {Idle}] /\ work'[w] = j
      /\ \A v \in Workers \ {w} : work'[v] = work[v]
  BY <1>2, <1>3 DEF TypeOK
<1>5. outcome' \subseteq [task : Tasks, how : Ends]
  BY DEF Goto, TypeOK
<1> QED
  BY <1>3, <1>4, <1>5, IdleAssumption DEF Advance, Onward

LEMMA SeeAdvances ==
    ASSUME TypeOK, NEW w \in Workers, work[w] # Idle, NEW step \in JobSteps \ {"logged"},
           NEW N \in SUBSET Node, See(w, step, N),
           step \in Early => work[w].step \in Early
    PROVE  Advance(w) /\ work'[w].step = step /\ work'[w] # Idle
<1>1. work[w] \in Job
  BY DEF TypeOK
<1> DEFINE old == work[w]
           j == [old EXCEPT !.step = step, !.seen = N]
<1>2. work' = [work EXCEPT ![w] = j]
  BY DEF See
<1>3. j \in Job /\ j.step = step /\ j.msg = work[w].msg /\ j.attempt = work[w].attempt
  <2>1. old \in Job /\ old = work[w] /\ step \in JobSteps
    BY <1>1
  <2> HIDE DEF old
  <2> QED
    BY <2>1 DEF Job
<1> HIDE DEF j
<1>4. /\ work' \in [Workers -> Job \cup {Idle}] /\ work'[w] = j
      /\ \A v \in Workers \ {w} : work'[v] = work[v]
  BY <1>2, <1>3 DEF TypeOK
<1>5. outcome' \subseteq [task : Tasks, how : Ends]
  BY DEF See, TypeOK
<1> QED
  BY <1>3, <1>4, <1>5, IdleAssumption DEF Advance, Onward

\* A retry leaves the worker idle.
LEMMA IdleAdvances ==
    ASSUME TypeOK, NEW w \in Workers, work[w] # Idle, work' = [work EXCEPT ![w] = Idle],
           UNCHANGED outcome
    PROVE  Advance(w) /\ work'[w] = Idle
  BY DEF TypeOK, Advance, Onward

-----------------------------------------------------------------------------
(* The invariant *)

LEMMA InitIInv == Init => IInv
<1> SUFFICES ASSUME Init PROVE IInv
  OBVIOUS
<1>1. TypeOK
  BY BoundsAssumption DEF Init, TypeOK
<1>2. TasksWerePushed /\ AttemptsApart
  BY DEF Init, TasksWerePushed, AttemptsApart, AtStep
<1>3. RowsAreOld /\ GraphIsSound
  BY DEF Init, RowsAreOld, GraphIsSound
<1> QED
  BY <1>1, <1>2, <1>3 DEF IInv

\* An attempt that goes on, with nothing pushed or taken: whatever it adds to
\* the queue and to the graph.
LEMMA OnwardKeepsAttempts ==
    ASSUME IInv, NEW w \in Workers, Advance(w), pushed' = pushed, attempts' = attempts,
           failed \subseteq failed',
           \A m \in queue' : m \in queue \/ m.task = work[w].msg.task
    PROVE  TasksWerePushed' /\ AttemptsApart'
<1>0. work[w] # Idle
  BY DEF Advance
<1>1. \A v \in Workers : work'[v] # Idle => /\ work[v] # Idle
                                    /\ work'[v].msg = work[v].msg
                                    /\ work'[v].attempt = work[v].attempt
  BY DEF Advance, Onward
<1>2. TasksWerePushed'
  <2>1. \A m \in queue : m.task \in 1 .. Len(pushed)
    BY DEF IInv, TasksWerePushed
  <2>2. \A v \in Workers : work[v] # Idle => work[v].msg.task \in 1 .. Len(pushed)
    BY DEF IInv, TasksWerePushed
  <2>3. \A v \in Workers : work'[v] # Idle => work'[v].msg.task \in 1 .. Len(pushed)
    BY ONLY <1>1, <2>2, pushed' = pushed
  <2> QED
    BY <1>0, <2>1, <2>2, <2>3 DEF TasksWerePushed
<1>3. \A v \in Workers : AtStep(v, "logged")' =>
          work'[v].msg.retries < MaxRetries /\ work'[v].msg.task \in failed'
  BY DEF IInv, AttemptsApart, Advance, Onward, AtStep
<1>4. AttemptsApart'
  <2>1. /\ \A v \in Workers : work[v] # Idle => work[v].attempt <= attempts
        /\ \A u, v \in Workers : work[u] # Idle /\ work[v] # Idle /\ work[u].attempt = work[v].attempt => u = v
    BY DEF IInv, AttemptsApart
  <2>2. /\ \A v \in Workers : work'[v] # Idle => work'[v].attempt <= attempts'
        /\ \A u, v \in Workers :
              work'[u] # Idle /\ work'[v] # Idle /\ work'[u].attempt = work'[v].attempt => u = v
    BY ONLY <1>1, <2>1, attempts' = attempts
  <2> QED
    BY <1>3, <2>2 DEF AttemptsApart
<1> QED
  BY <1>2, <1>4

\* Rows that were there, and rows of an attempt that has left its first steps.
LEMMA OnwardKeepsRows ==
    ASSUME IInv, NEW w \in Workers, Advance(w), attempts' = attempts,
           \A n \in nodes' :
               \/ \E r \in nodes : r.id = n.id
               \/ work'[w] # Idle /\ n.id.attempt = work[w].attempt /\ work'[w].step \notin Early
    PROVE  RowsAreOld'
<1>0. work[w] # Idle
  BY DEF Advance
<1>1. \A v \in Workers : work'[v] # Idle =>
                         work[v] # Idle /\ work'[v].attempt = work[v].attempt
  BY DEF Advance, Onward
<1>a. \A v \in Workers : work'[v] # Idle /\ work'[v].step \in Early => work[v].step \in Early
  BY DEF Advance, Onward
<1>2. \A n \in nodes :
         /\ n.id.attempt <= attempts
         /\ \A v \in Workers : work[v] # Idle /\ work[v].attempt = n.id.attempt
                                => work[v].step \notin Early
  BY DEF IInv, RowsAreOld
<1>3. \A v, u \in Workers : work[v] # Idle /\ work[u] # Idle /\ work[v].attempt = work[u].attempt => v = u
  BY DEF IInv, AttemptsApart
<1>4. work[w].attempt <= attempts
  BY <1>0 DEF IInv, AttemptsApart
<1>5. SUFFICES ASSUME NEW n \in nodes'
               PROVE  /\ n.id.attempt <= attempts'
                      /\ \A v \in Workers : work'[v] # Idle /\ work'[v].attempt = n.id.attempt
                                              => work'[v].step \notin Early
  BY DEF RowsAreOld, Early
<1>6. CASE \E r \in nodes : r.id = n.id
  <2>1. PICK r \in nodes : r.id = n.id
    BY <1>6
  <2>2. n.id.attempt <= attempts'
    BY <1>2, <2>1
  <2>3. ASSUME NEW v \in Workers, work'[v] # Idle, work'[v].attempt = n.id.attempt
        PROVE  work'[v].step \notin Early
    <3>1. work[v] # Idle /\ work[v].attempt = r.id.attempt
      BY ONLY <1>1, <2>1, <2>3
    <3> QED
      BY ONLY <1>a, <1>2, <2>3, <3>1, r \in nodes
  <2> QED
    BY <2>2, <2>3
<1>7. CASE work'[w] # Idle /\ n.id.attempt = work[w].attempt /\ work'[w].step \notin Early
  <2>1. ASSUME NEW v \in Workers, work'[v] # Idle, work'[v].attempt = n.id.attempt
        PROVE  work'[v].step \notin Early
    <3>1. work[v] # Idle /\ work[v].attempt = work[w].attempt
      BY ONLY <1>1, <1>7, <2>1
    <3> QED
      BY <1>0, <1>3, <1>7, <3>1
  <2> QED
    BY <1>4, <1>7, <2>1
<1> QED
  BY <1>6, <1>7

\* Ids are given up, never claimed.
LEMMA OnwardForgets ==
    ASSUME NEW w \in Workers, Advance(w), attempts' = attempts
    PROVE  ToCome' \subseteq ToCome
<1>1. \A v \in Workers : work'[v] # Idle =>
                         work[v] # Idle /\ work'[v].attempt = work[v].attempt
  BY DEF Advance, Onward
<1>2. \A v \in Workers : work'[v] # Idle /\ work'[v].step \in Early => work[v].step \in Early
  BY DEF Advance, Onward
<1>3. SUFFICES ASSUME NEW i \in Id, i \in ToCome' PROVE i \in ToCome
  BY DEF ToCome
<1>4. CASE i.attempt > attempts'
  BY <1>4 DEF ToCome
<1>5. CASE \E v \in Workers : work'[v] # Idle /\ work'[v].attempt = i.attempt
                             /\ work'[v].step \in Early
  <2>1. PICK v \in Workers : work'[v] # Idle /\ work'[v].attempt = i.attempt
                            /\ work'[v].step \in Early
    BY <1>5
  <2>2. work[v] # Idle /\ work[v].attempt = i.attempt /\ work[v].step \in Early
    BY ONLY <1>1, <1>2, <2>1
  <2> QED
    BY <2>2 DEF ToCome, Early
<1> QED
  BY <1>3, <1>4, <1>5 DEF ToCome, Early

\* What a step of a worker has to keep for the invariant to hold after it.
LEMMA WorkerStep ==
    ASSUME IInv, NEW w \in Workers, Advance(w), pushed' = pushed, attempts' = attempts,
           queue' \subseteq Message,
           \A m \in queue' : m \in queue \/ m.task = work[w].msg.task,
           failed \subseteq failed', failed' \subseteq Tasks, alone' \subseteq Tasks, faults' \in 0 .. MaxFaults,
           nodes' \subseteq Node, edges' \subseteq Edge, GraphIsSound',
           \A n \in nodes' :
               \/ \E r \in nodes : r.id = n.id
               \/ work'[w] # Idle /\ n.id.attempt = work[w].attempt /\ work'[w].step \notin Early
    PROVE  IInv'
<1>1. TypeOK'
  BY DEF IInv, TypeOK, Advance
<1>2. TasksWerePushed' /\ AttemptsApart'
  BY OnwardKeepsAttempts
<1>3. RowsAreOld'
  BY OnwardKeepsRows
<1> QED
  BY <1>1, <1>2, <1>3 DEF IInv

\* Steps that leave the graph alone.
LEMMA QuietStep ==
    ASSUME IInv, NEW w \in Workers, Advance(w), UNCHANGED graph,
           pushed' = pushed, attempts' = attempts, queue' \subseteq Message,
           \A m \in queue' : m \in queue \/ m.task = work[w].msg.task,
           failed \subseteq failed', failed' \subseteq Tasks, alone' \subseteq Tasks, faults' \in 0 .. MaxFaults
    PROVE  IInv' /\ Table!Forget
<1>1. nodes' = nodes /\ edges' = edges
  BY DEF graph
<1>2. GraphIsSound' /\ nodes' \subseteq Node /\ edges' \subseteq Edge
  BY <1>1 DEF IInv, TypeOK, GraphIsSound, Ids
<1>3. \A n \in nodes' : \E r \in nodes : r.id = n.id
  BY <1>1
<1>4. IInv'
  BY <1>2, <1>3, WorkerStep
<1>5. Table!Forget
  BY <1>1, OnwardForgets DEF Table!Forget, Ids
<1> QED
  BY <1>4, <1>5

-----------------------------------------------------------------------------
(* The actions *)

Kept == IInv' /\ [Table!Next]_(Table!vars)

LEMMA ForgetIsKept == ASSUME IInv', Table!Forget PROVE Kept
  BY DEF Kept, Table!Next

LEMMA PushKept == ASSUME IInv, NEW p \in Payloads, push_code_index(p) PROVE Kept
<1> DEFINE m == [task |-> Len(pushed) + 1, retries |-> 0, line |-> "first"]
<1>1. /\ pushed \in Seq(Payloads) /\ Len(pushed) < MaxPushes
      /\ pushed' = Append(pushed, p)
      /\ queue' = queue \cup {m}
      /\ UNCHANGED <<nodes, edges, attempts, failed, outcome, work, alone, faults>>
  BY DEF push_code_index, IInv, TypeOK, graph
<1>2. pushed' \in Seq(Payloads) /\ Len(pushed') = Len(pushed) + 1 /\ Len(pushed') <= MaxPushes
  BY <1>1, BoundsAssumption
<1>3. m \in Message
  BY <1>1, BoundsAssumption DEF Message, Tasks
<1>4. TypeOK'
  BY <1>1, <1>2, <1>3 DEF IInv, TypeOK
<1>5. TasksWerePushed'
  <2>1. 1 .. Len(pushed) \subseteq 1 .. Len(pushed')
    BY <1>1, <1>2
  <2>2. m.task \in 1 .. Len(pushed')
    BY <1>1, <1>2
  <2> HIDE DEF m
  <2> QED
    BY <1>1, <2>1, <2>2 DEF IInv, TasksWerePushed
<1>6. AttemptsApart' /\ RowsAreOld' /\ GraphIsSound'
  BY <1>1 DEF IInv, AttemptsApart, RowsAreOld, GraphIsSound, AtStep, Ids
<1>7. Table!Forget
  BY <1>1 DEF Table!Forget, ToCome, Ids
<1> QED
  BY <1>4, <1>5, <1>6, <1>7, ForgetIsKept DEF IInv

LEMMA TakeKept == ASSUME IInv, NEW w \in Workers, NEW m \in queue, Take(w, m) PROVE Kept
<1> DEFINE listed == {n \in nodes : n.file \in pushed[m.task].files}
           a == attempts + 1
           job == [step |-> "remove", msg |-> m, attempt |-> a, seen |-> listed]
<1>1. /\ work[w] = Idle /\ queue' = queue \ {m} /\ attempts < MaxAttempts
      /\ attempts' = a /\ work' = [work EXCEPT ![w] = job]
      /\ UNCHANGED <<nodes, edges, pushed, failed, outcome, faults>>
  BY DEF Take, graph
<1>2. attempts \in Nat /\ a \in 1 .. MaxAttempts /\ a > attempts
  BY <1>1, BoundsAssumption DEF IInv, TypeOK
<1>3. m \in Message /\ m.task \in Tasks
  BY DEF IInv, TypeOK, Message
<1>4. listed \in SUBSET Node
  BY DEF IInv, TypeOK
<1> HIDE DEF listed, a
<1>5. job \in Job /\ job.attempt = a /\ job.step = "remove" /\ job.msg = m
  BY <1>2, <1>3, <1>4 DEF Job, JobSteps
<1> HIDE DEF job
<1>6. /\ work' \in [Workers -> Job \cup {Idle}] /\ work'[w] = job
      /\ \A v \in Workers \ {w} : work'[v] = work[v]
  BY <1>1, <1>5 DEF IInv, TypeOK
<1>7. alone' \subseteq Tasks
  BY <1>3 DEF Take, IInv, TypeOK
<1>8. TypeOK'
  <2>1. attempts' \in 0 .. MaxAttempts
    BY <1>1, <1>2
  <2> QED
    BY <1>1, <1>6, <1>7, <2>1 DEF IInv, TypeOK
<1>9. TasksWerePushed'
  BY <1>1, <1>5, <1>6 DEF IInv, TasksWerePushed
<1>10. AttemptsApart'
  <2>1. \A v \in Workers \ {w} : work[v] # Idle => work[v].attempt <= attempts /\ work[v].attempt # a
    BY <1>2 DEF IInv, AttemptsApart, TypeOK, Job
  <2>2. \A v \in Workers : work'[v] # Idle => work'[v].attempt <= attempts'
    BY <1>1, <1>2, <1>5, <1>6, <2>1 DEF IInv, TypeOK, Job
  <2>3. ASSUME NEW u \in Workers, NEW v \in Workers, work'[u] # Idle, work'[v] # Idle,
               work'[u].attempt = work'[v].attempt
        PROVE  u = v
    <3>1. CASE u # w /\ v # w
      BY <1>6, <2>3, <3>1 DEF IInv, AttemptsApart
    <3>2. CASE u = w \/ v = w
      BY <1>5, <1>6, <2>1, <2>3, <3>2
    <3> QED
      BY <3>1, <3>2
  <2>4. \A v \in Workers : AtStep(v, "logged")' =>
            work'[v].msg.retries < MaxRetries /\ work'[v].msg.task \in failed'
    BY <1>1, <1>5, <1>6 DEF IInv, AttemptsApart, AtStep
  <2> QED
    BY <2>2, <2>3, <2>4 DEF AttemptsApart
<1>11. RowsAreOld'
  <2>1. \A n \in nodes : n.id.attempt \in Nat /\ n.id.attempt <= attempts
    BY DEF IInv, TypeOK, RowsAreOld, Node, Id
  <2>2. ASSUME NEW n \in nodes, NEW v \in Workers, work'[v] # Idle, work'[v].attempt = n.id.attempt
        PROVE  work'[v].step \notin Early
    <3>1. v # w
      BY <1>2, <1>5, <1>6, <2>1, <2>2
    <3>2. work'[v] = work[v]
      BY <1>6, <3>1
    <3> QED
      BY <2>2, <3>2 DEF IInv, RowsAreOld
  <2>3. \A n \in nodes : n.id.attempt <= a
    BY <1>2, <2>1
  <2> QED
    BY <1>1, <2>2, <2>3 DEF RowsAreOld, Early
<1>12. GraphIsSound'
  BY <1>1 DEF IInv, GraphIsSound, Ids
<1>13. Table!Forget
  <2>1. ASSUME NEW i \in Id, i \in ToCome' PROVE i \in ToCome
    <3>1. i.attempt \in Nat
      BY DEF Id
    <3>2. CASE i.attempt > attempts'
      BY <1>1, <1>2, <3>1, <3>2 DEF ToCome
    <3>3. CASE \E v \in Workers : work'[v] # Idle /\ work'[v].attempt = i.attempt
                                 /\ work'[v].step \in Early
      <4>1. PICK v \in Workers : work'[v] # Idle /\ work'[v].attempt = i.attempt
                                /\ work'[v].step \in Early
        BY <3>3
      <4>2. CASE v = w
        BY <1>2, <1>5, <1>6, <4>1, <4>2 DEF ToCome
      <4>3. CASE v # w
        BY <1>6, <4>1, <4>3 DEF ToCome, Early
      <4> QED
        BY <4>2, <4>3
    <3> QED
      BY <2>1, <3>2, <3>3 DEF ToCome, Early
  <2>2. ToCome' \in SUBSET ToCome
    BY <2>1 DEF ToCome
  <2> QED
    BY <1>1, <2>2 DEF Table!Forget, Ids
<1> QED
  BY <1>8, <1>9, <1>10, <1>11, <1>12, <1>13, ForgetIsKept DEF IInv

\* What a worker works on.
LEMMA WorkTypes ==
    ASSUME IInv, NEW w \in Workers, work[w] # Idle
    PROVE  /\ work[w] \in Job /\ work[w].msg \in Message /\ work[w].msg.task \in Tasks
           /\ work[w].attempt \in 1 .. MaxAttempts /\ work[w].seen \in SUBSET Node
           /\ Of(w) \in Payloads
<1>1. work[w] \in Job
  BY DEF IInv, TypeOK
<1>2. work[w].msg \in Message /\ work[w].attempt \in 1 .. MaxAttempts
      /\ work[w].seen \in SUBSET Node
  BY <1>1 DEF Job
<1>3. work[w].msg.task \in Tasks
  BY <1>2 DEF Message
<1>4. Of(w) \in Payloads
  BY DEF IInv, TypeOK, TasksWerePushed, Of
<1> QED
  BY <1>1, <1>2, <1>3, <1>4

LEMMA AgainTypes ==
    ASSUME NEW m \in Message, m.retries < MaxRetries, NEW line \in {"first", "second"}
    PROVE  Again(m, line) \in Message /\ Again(m, line).task = m.task
<1> DEFINE n == m.retries + 1
<1>1. n \in 0 .. MaxRetries
  BY BoundsAssumption DEF Message
<1> HIDE DEF n
<1>2. [m EXCEPT !.retries = n, !.line = line] \in Message
      /\ [m EXCEPT !.retries = n, !.line = line].task = m.task
  BY <1>1 DEF Message
<1> QED
  BY <1>2 DEF Again, n

LEMMA SelectKept == ASSUME IInv, NEW w \in Workers, Select(w) PROVE Kept
<1>1. work[w] # Idle /\ work[w].step = "select"
  BY DEF Select, AtStep
<1>2. RowsOf(SymbolsOf(Of(w))) \in SUBSET Node
  BY DEF RowsOf, IInv, TypeOK
<1>3. Advance(w)
  BY <1>1, <1>2, SeeAdvances DEF Select, IInv, JobSteps, Early
<1>4. IInv' /\ Table!Forget
  BY <1>3, QuietStep DEF Select, IInv, TypeOK
<1> QED
  BY <1>4, ForgetIsKept

LEMMA ResolveKept == ASSUME IInv, NEW w \in Workers, Resolve(w) PROVE Kept
<1>1. work[w] # Idle /\ work[w].step = "resolve"
  BY DEF Resolve, AtStep
<1>2. RowsOf(UNION {{e[1], e[2]} : e \in Of(w).edges}) \in SUBSET Node
  BY DEF RowsOf, IInv, TypeOK
<1>3. Advance(w)
  BY <1>1, <1>2, SeeAdvances DEF Resolve, IInv, JobSteps, Early
<1>4. IInv' /\ Table!Forget
  BY <1>3, QuietStep DEF Resolve, IInv, TypeOK
<1> QED
  BY <1>4, ForgetIsKept

\* Attempts that go wrong change the queue and the counters only.
LEMMA FailEmbeddingKept == ASSUME IInv, NEW w \in Workers, FailEmbedding(w) PROVE Kept
<1>1. work[w] # Idle /\ work[w].step = "select"
  BY DEF FailEmbedding, AtStep
<1>2. Advance(w)
  BY <1>1, GotoAdvances DEF FailEmbedding, IInv, JobSteps, Early
<1>3. \A m \in queue' : m \in Message /\ (m \in queue \/ m.task = work[w].msg.task)
  <2>1. work[w].msg \in Message /\ work[w].msg.line \in {"first", "second"}
    BY <1>1, WorkTypes DEF Message
  <2>2. work[w].msg.retries < MaxRetries =>
            /\ Again(work[w].msg, work[w].msg.line) \in Message
            /\ Again(work[w].msg, work[w].msg.line).task = work[w].msg.task
    BY <2>1, AgainTypes
  <2> QED
    BY <2>2 DEF FailEmbedding, IInv, TypeOK
<1>4. alone' \subseteq Tasks /\ faults' \in 0 .. MaxFaults
  BY BoundsAssumption DEF FailEmbedding, Disturb, IInv, TypeOK
<1>5. /\ failed' = failed /\ failed' \subseteq Tasks
      /\ pushed' = pushed /\ attempts' = attempts /\ UNCHANGED graph
  BY DEF FailEmbedding, IInv, TypeOK
<1>6. IInv' /\ Table!Forget
  BY <1>2, <1>3, <1>4, <1>5, QuietStep
<1> QED
  BY <1>6, ForgetIsKept

LEMMA FailKept == ASSUME IInv, NEW w \in Workers, Fail(w) PROVE Kept
<1>1. work[w] # Idle
  BY DEF Fail, AtStep
<1>2. Advance(w)
  BY <1>1, GotoAdvances DEF Fail, IInv, JobSteps, Early
<1>3. alone' \subseteq Tasks /\ faults' \in 0 .. MaxFaults
  BY BoundsAssumption DEF Fail, Disturb, IInv, TypeOK
<1>4. IInv' /\ Table!Forget
  BY <1>2, <1>3, QuietStep DEF Fail, IInv, TypeOK
<1> QED
  BY <1>4, ForgetIsKept

LEMMA LogFailureKept == ASSUME IInv, NEW w \in Workers, LogFailure(w) PROVE Kept
<1>1. work[w] # Idle /\ work[w].msg \in Message /\ work[w].msg.task \in Tasks
  BY WorkTypes DEF LogFailure, AtStep
<1>2. Advance(w)
  <2>1. CASE work[w].msg.task \in failed
    BY <1>1, <2>1, FinishAdvances DEF LogFailure, Ends, IInv
  <2>2. CASE work[w].msg.task \notin failed /\ work[w].msg.retries = MaxRetries
    BY <1>1, <2>2, FinishAdvances DEF LogFailure, Ends, IInv
  <2>3. CASE work[w].msg.task \notin failed /\ work[w].msg.retries # MaxRetries
    <3>1. Goto(w, "logged")
      BY <2>3 DEF LogFailure
    <3>2. work[w].msg.retries < MaxRetries /\ work[w].msg.task \in failed'
      BY <1>1, <2>3, BoundsAssumption DEF LogFailure, Message
    <3> QED
      BY <1>1, <3>1, <3>2, GotoAdvances DEF IInv, JobSteps, Early
  <2> QED
    BY <2>1, <2>2, <2>3
<1>3. failed' \subseteq Tasks
  BY <1>1 DEF LogFailure, IInv, TypeOK
<1>4. IInv' /\ Table!Forget
  BY <1>2, <1>3, QuietStep DEF LogFailure, IInv, TypeOK
<1> QED
  BY <1>4, ForgetIsKept

LEMMA RetryKept == ASSUME IInv, NEW w \in Workers, Retry(w) PROVE Kept
<1>1. work[w] # Idle /\ work[w].msg \in Message /\ work[w].msg.retries < MaxRetries
  BY WorkTypes DEF Retry, AtStep, IInv, AttemptsApart
<1>2. Advance(w)
  BY <1>1, IdleAdvances DEF Retry, IInv
<1>3. Again(work[w].msg, "second") \in Message
      /\ Again(work[w].msg, "second").task = work[w].msg.task
  BY <1>1, AgainTypes
<1>4. IInv' /\ Table!Forget
  BY <1>2, <1>3, QuietStep DEF Retry, IInv, TypeOK
<1> QED
  BY <1>4, ForgetIsKept

LEMMA OutageKept == ASSUME IInv, NEW w \in Workers, LogFail(w) \/ RetryFail(w) PROVE Kept
<1>1. Advance(w)
  BY FinishAdvances DEF LogFail, RetryFail, AtStep, Ends, IInv
<1>2. faults' \in 0 .. MaxFaults
  BY BoundsAssumption DEF LogFail, RetryFail, Outage, IInv, TypeOK
<1>3. IInv' /\ Table!Forget
  BY <1>1, <1>2, QuietStep DEF LogFail, RetryFail, IInv, TypeOK
<1> QED
  BY <1>3, ForgetIsKept

LEMMA CrashKept == ASSUME IInv, NEW w \in Workers, Crash(w) PROVE Kept
<1>1. Advance(w)
  BY FinishAdvances DEF Crash, Ends, IInv
<1>2. alone' \subseteq Tasks /\ faults' \in 0 .. MaxFaults
  BY BoundsAssumption DEF Crash, Disturb, IInv, TypeOK
<1>3. IInv' /\ Table!Forget
  BY <1>1, <1>2, QuietStep DEF Crash, IInv, TypeOK
<1> QED
  BY <1>3, ForgetIsKept

LEMMA RemoveKept == ASSUME IInv, NEW w \in Workers, Remove(w) PROVE Kept
<1> DEFINE gone == Ids(work[w].seen)
<1>1. /\ work[w] # Idle /\ work[w].step = "remove"
      /\ nodes' = {n \in nodes : n.id \notin gone}
      /\ edges' = {e \in edges : ~Incident(e, gone)}
      /\ UNCHANGED <<pushed, queue, attempts, failed, alone, faults>>
  BY DEF Remove, AtStep
<1>2. Advance(w)
  BY <1>1, FinishAdvances, GotoAdvances DEF Remove, Ends, IInv, JobSteps, Early
<1> HIDE DEF gone
<1>3. Ids(nodes)' = Ids(nodes) \ gone
  BY <1>1 DEF Ids
<1>4. GraphIsSound'
  BY <1>1, <1>3 DEF IInv, GraphIsSound, Incident
<1>5. nodes' \subseteq Node /\ edges' \subseteq Edge
  BY <1>1 DEF IInv, TypeOK
<1>6. \A n \in nodes' : \E r \in nodes : r.id = n.id
  BY <1>1
<1>7. IInv'
  BY <1>1, <1>2, <1>4, <1>5, <1>6, WorkerStep DEF IInv, TypeOK
<1>8. ToCome' \subseteq ToCome
  BY <1>1, <1>2, OnwardForgets
<1>9. edges' = {e \in edges : Table!Within(e, Ids(nodes) \ gone)}
  BY <1>1 DEF IInv, GraphIsSound, Incident, Table!Within
<1>10. Table!Remove(gone \cap Ids(nodes))
  <2>1. Ids(nodes) \ (gone \cap Ids(nodes)) = Ids(nodes) \ gone
    OBVIOUS
  <2> QED
    BY <1>3, <1>8, <1>9, <2>1 DEF Table!Remove
<1> QED
  BY <1>7, <1>10 DEF Kept, Table!Next

LEMMA JoinKept == ASSUME IInv, NEW w \in Workers, Join(w) PROVE Kept
<1> DEFINE E == Resolved(w)
<1>1. /\ work[w] # Idle /\ EndsExist(E) /\ edges' = edges \cup E /\ Finish(w, "done")
      /\ UNCHANGED <<nodes, pushed, queue, attempts, failed, alone, faults>>
  BY DEF Join, AtStep
<1>2. Advance(w)
  BY <1>1, FinishAdvances DEF Ends, IInv
<1>3. E \subseteq Edge
  <2>1. work[w].seen \in SUBSET Node
    BY <1>1, WorkTypes
  <2>2. ASSUME NEW pair \in work[w].seen \X work[w].seen
        PROVE  [source |-> pair[1].id, target |-> pair[2].id] \in Edge
    <3>1. pair[1].id \in Id /\ pair[2].id \in Id
      BY <2>1 DEF Node
    <3> QED
      BY <3>1 DEF Edge
  <2> QED
    BY <2>2 DEF Resolved
<1> HIDE DEF E
<1>4. \A e \in E : e \in Edge /\ Table!Within(e, Ids(nodes))
  BY <1>1, <1>3 DEF EndsExist, Table!Within
<1>5. nodes' \subseteq Node /\ edges' \subseteq Edge
  BY <1>1, <1>3 DEF IInv, TypeOK
<1>6. GraphIsSound'
  BY <1>1 DEF IInv, GraphIsSound, EndsExist, Ids
<1>7. IInv'
  BY <1>1, <1>2, <1>5, <1>6, WorkerStep DEF IInv, TypeOK
<1>8. Ids(nodes)' = Ids(nodes) /\ ToCome' \subseteq ToCome
  BY <1>1, <1>2, OnwardForgets DEF Ids
<1>9. Table!Join(E)
  BY <1>1, <1>4, <1>8 DEF Table!Join
<1>10. E \in SUBSET {e \in Table!Edge : Table!Within(e, Ids(nodes))}
  BY <1>4 DEF Table!Edge, Edge
<1> QED
  BY <1>7, <1>9, <1>10 DEF Kept, Table!Next

-----------------------------------------------------------------------------
(* The second commit *)

\* The row of a symbol is the one it had, or one whose id no row has had.
LEMMA RowForSymbol ==
    ASSUME IInv, NEW w \in Workers, AtStep(w, "store"), StillSo(w),
           NEW n \in Of(w).nodes
    PROVE  /\ RowFor(w, n) \in Node /\ RowFor(w, n).id.symbol = n.symbol
           /\ \/ \E r \in nodes : r.id = RowFor(w, n).id
              \/ /\ RowFor(w, n).id.attempt = work[w].attempt
                 /\ \A r \in nodes : r.id.symbol # n.symbol
<1> DEFINE seen == work[w].seen
           old == {r \in seen : r.id.symbol = n.symbol}
           task == work[w].msg.task
<1>1. /\ work[w] # Idle /\ task \in Tasks /\ seen \in SUBSET Node
      /\ work[w].attempt \in 1 .. MaxAttempts /\ Of(w) \in Payloads
  BY WorkTypes DEF AtStep
<1>2. Of(w) \in Payload
  BY <1>1, PayloadsAssumption
<1>3. n \in [symbol : Symbols, file : Files]
  BY <1>2 DEF Payload
<1>4. n.symbol \in Symbols /\ n.file \in Files
  BY <1>3
<1>5. Ids(seen) = Ids(RowsOf(SymbolsOf(Of(w))))
  BY DEF StillSo
<1>6. n.symbol \in SymbolsOf(Of(w))
  BY DEF SymbolsOf
<1>7. CASE old # {}
  <2> DEFINE o == CHOOSE r \in old : TRUE
  <2>1. o \in old
    BY <1>7
  <2>2. o \in Node /\ o.id.symbol = n.symbol /\ o.id \in Ids(seen)
    BY <1>1, <2>1 DEF Ids
  <2>3. RowFor(w, n) = [id |-> o.id, file |-> n.file, by |-> task]
    BY <1>7 DEF RowFor
  <2> HIDE DEF o, old, task, seen
  <2>4. RowFor(w, n) \in Node /\ RowFor(w, n).id = o.id
    BY <1>1, <1>4, <2>2, <2>3 DEF Node
  <2>5. \E r \in nodes : r.id = o.id
    BY <1>5, <2>2 DEF Ids, RowsOf
  <2> QED
    BY <2>2, <2>4, <2>5
<1>8. CASE old = {}
  <2> DEFINE i == [symbol |-> n.symbol, attempt |-> work[w].attempt]
  <2>1. RowFor(w, n) = [id |-> i, file |-> n.file, by |-> task]
    BY <1>8 DEF RowFor
  <2>2. i \in Id /\ i.symbol = n.symbol /\ i.attempt = work[w].attempt
    BY <1>1, <1>4 DEF Id
  <2>3. ASSUME NEW r \in nodes, r.id.symbol = n.symbol PROVE FALSE
    <3>1. r.id \in Ids(seen)
      BY <1>5, <1>6, <2>3 DEF Ids, RowsOf
    <3>2. PICK q \in seen : q.id = r.id
      BY <3>1 DEF Ids
    <3> QED
      BY <1>8, <2>3, <3>2
  <2> HIDE DEF i, old, task, seen
  <2>4. RowFor(w, n) \in Node /\ RowFor(w, n).id = i
    BY <1>1, <1>4, <2>1, <2>2 DEF Node
  <2> QED
    BY <2>2, <2>3, <2>4
<1> QED
  BY <1>7, <1>8

LEMMA StoreKept == ASSUME IInv, NEW w \in Workers, Store(w) PROVE Kept
<1> DEFINE updated == Ids(work[w].seen)
           Row(n) == RowFor(w, n)
           new == {Row(n).id : n \in Of(w).nodes} \ Ids(nodes)
<1>1. /\ AtStep(w, "store") /\ StillSo(w) /\ work[w] # Idle /\ work[w].step = "store"
      /\ nodes' = {n \in nodes : n.id \notin updated} \cup {Row(n) : n \in Of(w).nodes}
      /\ Goto(w, "resolve")
      /\ UNCHANGED <<edges, pushed, queue, attempts, failed, alone, faults>>
  BY DEF Store, AtStep
<1>2. Advance(w) /\ work'[w] # Idle /\ work'[w].step = "resolve"
  BY <1>1, GotoAdvances DEF IInv, JobSteps, Early
<1>3. \A n, m \in Of(w).nodes : n.symbol = m.symbol => n = m
  BY <1>1, WorkTypes, PayloadsAssumption
<1>4. updated = Ids(RowsOf(SymbolsOf(Of(w))))
  BY <1>1 DEF StillSo
<1>5. \A n \in Of(w).nodes :
         /\ Row(n) \in Node /\ Row(n).id.symbol = n.symbol
         /\ \/ \E r \in nodes : r.id = Row(n).id
            \/ /\ Row(n).id.attempt = work[w].attempt
               /\ \A r \in nodes : r.id.symbol # n.symbol
  BY <1>1, RowForSymbol
<1> HIDE DEF updated, Row
<1>6. nodes' \subseteq Node
  BY <1>1, <1>5 DEF IInv, TypeOK
\* A row that stays has none of the symbols, so the updates and inserts
\* are the only rows of theirs.
<1>7. ASSUME NEW r \in nodes, r.id \notin updated, NEW n \in Of(w).nodes
      PROVE  r.id.symbol # n.symbol
  BY <1>4, <1>7 DEF Ids, RowsOf, SymbolsOf
<1>8. ASSUME NEW q \in nodes', NEW r \in nodes', q.id.symbol = r.id.symbol
      PROVE  q = r
  <2>1. CASE q \in nodes /\ r \in nodes
    BY <1>8, <2>1 DEF IInv, GraphIsSound
  <2>2. CASE \E n \in Of(w).nodes : q = Row(n)
    <3>1. PICK n \in Of(w).nodes : q = Row(n)
      BY <2>2
    <3>2. \E m \in Of(w).nodes : r = Row(m)
      BY <1>1, <1>5, <1>7, <1>8, <3>1
    <3> QED
      BY <1>3, <1>5, <1>8, <3>1, <3>2
  <2>3. CASE \E m \in Of(w).nodes : r = Row(m)
    <3>1. PICK m \in Of(w).nodes : r = Row(m)
      BY <2>3
    <3>2. \E n \in Of(w).nodes : q = Row(n)
      BY <1>1, <1>5, <1>7, <1>8, <3>1
    <3> QED
      BY <1>3, <1>5, <1>8, <3>1, <3>2
  <2> QED
    BY <1>1, <2>1, <2>2, <2>3
\* A row with an old id is in the place of the row that had it.
<1>9. ASSUME NEW r \in nodes PROVE r.id \in Ids(nodes')
  <2>1. CASE r.id \notin updated
    BY <1>1, <2>1 DEF Ids
  <2>2. CASE r.id \in updated
    <3>1. PICK q \in nodes : q.id = r.id /\ q.id.symbol \in SymbolsOf(Of(w))
      BY <1>4, <2>2 DEF Ids, RowsOf
    <3>2. PICK n \in Of(w).nodes : n.symbol = r.id.symbol
      BY <3>1 DEF SymbolsOf
    <3>3. PICK o \in nodes : o.id = Row(n).id
      BY <1>5, <3>2
    <3>4. o.id.symbol = r.id.symbol
      BY <1>5, <3>2, <3>3
    <3>5. o = r
      BY <3>4 DEF IInv, GraphIsSound
    <3>6. Row(n) \in nodes' /\ Row(n).id = r.id
      BY <1>1, <3>3, <3>5
    <3> QED
      BY <3>6 DEF Ids
  <2> QED
    BY <2>1, <2>2
<1>10. GraphIsSound'
  BY <1>1, <1>8, <1>9 DEF IInv, GraphIsSound, Ids
<1>11. ASSUME NEW r \in nodes'
       PROVE  \/ \E q \in nodes : q.id = r.id
              \/ work'[w] # Idle /\ r.id.attempt = work[w].attempt /\ work'[w].step \notin Early
  BY <1>1, <1>2, <1>5 DEF Early
<1>12. IInv'
  BY <1>1, <1>2, <1>6, <1>10, <1>11, WorkerStep DEF IInv, TypeOK
<1>13. Ids(nodes)' = Ids(nodes) \cup new
  BY <1>1, <1>9 DEF Ids
<1>14. ASSUME NEW i \in new
       PROVE  i \in Id /\ i.attempt = work[w].attempt
  BY <1>5 DEF Ids, Node
<1>15. new \subseteq ToCome
  BY <1>1, <1>14 DEF ToCome
<1>16. ASSUME NEW i \in new PROVE i \notin ToCome'
  <2>1. i.attempt <= attempts /\ i.attempt \in Nat /\ attempts \in Nat
    BY <1>1, <1>14, WorkTypes DEF IInv, AttemptsApart, TypeOK
  <2>2. ASSUME NEW v \in Workers, work'[v] # Idle, work'[v].attempt = i.attempt
        PROVE  v = w
    <3>1. work[v] # Idle /\ work[v].attempt = work[w].attempt
      BY <1>2, <1>14, <2>2 DEF Advance, Onward
    <3> QED
      BY <1>1, <3>1 DEF IInv, AttemptsApart
  <2> QED
    BY <1>1, <1>2, <2>1, <2>2 DEF ToCome
<1>17. ToCome' \subseteq ToCome \ new
  BY <1>1, <1>2, <1>16, OnwardForgets
<1>18. Table!Insert(new)
  BY <1>1, <1>13, <1>15, <1>17 DEF Table!Insert
<1> QED
  BY <1>12, <1>15, <1>18 DEF Kept, Table!Next

-----------------------------------------------------------------------------
(* Theorems *)

LEMMA StepKept == ASSUME IInv, [Next]_vars PROVE Kept
<1>1. ASSUME NEW p \in Payloads, push_code_index(p) PROVE Kept
  BY <1>1, PushKept
<1>2. ASSUME NEW w \in Workers, index_code_batch(w) PROVE Kept
  <2>1. ASSUME NEW m \in queue, Take(w, m) PROVE Kept
    BY <2>1, TakeKept
  <2> QED
    BY <1>2, <2>1, RemoveKept, SelectKept, StoreKept, ResolveKept, JoinKept,
       FailEmbeddingKept, FailKept, LogFailureKept, RetryKept, OutageKept DEF index_code_batch
<1>3. ASSUME NEW w \in Workers, Crash(w) PROVE Kept
  BY <1>3, CrashKept
<1>4. CASE UNCHANGED vars
  <2>1. UNCHANGED <<nodes, edges, pushed, queue, attempts, failed, outcome, work, alone, faults>>
    BY <1>4 DEF vars, graph
  <2>2. IInv'
    BY <2>1 DEF IInv, TypeOK, TasksWerePushed, AttemptsApart, RowsAreOld, GraphIsSound, AtStep, Ids
  <2>3. UNCHANGED Table!vars
    BY <2>1 DEF Table!vars, ToCome, Ids
  <2> QED
    BY <2>2, <2>3 DEF Kept
<1> QED
  BY <1>1, <1>2, <1>3, <1>4 DEF Next

LEMMA StepIInv == IInv /\ [Next]_vars => IInv'
  BY StepKept DEF Kept

LEMMA StepTable == IInv /\ [Next]_vars => [Table!Next]_(Table!vars)
  BY StepKept DEF Kept

\* Every variable has its type.
THEOREM TypeCorrect == Spec => []TypeOK
<1>1. IInv => TypeOK
  BY DEF IInv
<1> QED
  BY <1>1, InitIInv, StepIInv, PTL DEF Spec

\* Whatever workers, failures and crashes do between the three commits of a
\* push, a symbol has one row and an edge joins two rows.
THEOREM GraphStaysSound == Spec => []GraphIsSound
<1>1. IInv => GraphIsSound
  BY DEF IInv
<1> QED
  BY <1>1, InitIInv, StepIInv, PTL DEF Spec

\* Workers do to the tables what GraphTable allows: rows go with their edges,
\* an id is given once, an edge joins rows that are there.
THEOREM PushesImplementTable == Spec => ImplementsTable
<1>1. Init => Table!Init
  BY DEF Init, Table!Init, ToCome, Ids
<1> QED
  BY <1>1, InitIInv, StepIInv, StepTable, PTL DEF Spec, ImplementsTable, Table!Spec
-----------------------------------------------------------------------------
(* Where a step leaves its worker *)

OthersRest(w) == \A v \in Workers \ {w} : work'[v] = work[v]

GoesTo(w, step, N) ==
    /\ work'[w] # Idle /\ work'[w].step = step /\ work'[w].seen = N
    /\ work'[w].msg = work[w].msg
    /\ OthersRest(w) /\ outcome' = outcome

EndsAs(w, how) ==
    /\ work'[w] = Idle /\ OthersRest(w)
    /\ outcome' = outcome \cup {[task |-> work[w].msg.task, how |-> how]}

LEMMA GotoGoes ==
    ASSUME TypeOK, NEW w \in Workers, work[w] # Idle, NEW step \in JobSteps, Goto(w, step)
    PROVE  GoesTo(w, step, work[w].seen)
<1> DEFINE old == work[w]
           j == [old EXCEPT !.step = step]
<1>1. old \in Job
  BY DEF TypeOK
<1>2. work' = [work EXCEPT ![w] = j] /\ outcome' = outcome
  BY DEF Goto
<1>3. j \in Job /\ j.step = step /\ j.msg = old.msg /\ j.seen = old.seen
  <2> HIDE DEF old
  <2> QED
    BY <1>1 DEF Job
<1> HIDE DEF j
<1> QED
  BY <1>2, <1>3, IdleAssumption DEF TypeOK, GoesTo, OthersRest

LEMMA SeeGoes ==
    ASSUME TypeOK, NEW w \in Workers, work[w] # Idle, NEW step \in JobSteps,
           NEW N \in SUBSET Node, See(w, step, N)
    PROVE  GoesTo(w, step, N)
<1> DEFINE old == work[w]
           j == [old EXCEPT !.step = step, !.seen = N]
<1>1. old \in Job
  BY DEF TypeOK
<1>2. work' = [work EXCEPT ![w] = j] /\ outcome' = outcome
  BY DEF See
<1>3. j \in Job /\ j.step = step /\ j.msg = old.msg /\ j.seen = N
  <2> HIDE DEF old
  <2> QED
    BY <1>1 DEF Job
<1> HIDE DEF j
<1> QED
  BY <1>2, <1>3, IdleAssumption DEF TypeOK, GoesTo, OthersRest

LEMMA FinishEnds ==
    ASSUME TypeOK, NEW w \in Workers, NEW how, Finish(w, how)
    PROVE  EndsAs(w, how)
  BY DEF TypeOK, Finish, EndsAs, OthersRest

-----------------------------------------------------------------------------
(* Files that are missing *)

WasPushed(x, f) == \E u \in 1 .. Len(pushed) : \E n \in pushed[u].nodes : n.symbol = x /\ n.file = f

\* Nobody has pushed the symbol in another file.
Anchored(x, f) == \A u \in 1 .. Len(pushed) : \A n \in pushed[u].nodes : n.symbol = x => n.file = f

\* What push u brought for the file is there, but for symbols that have moved.
Held(u, f) ==
    \A n \in pushed[u].nodes : n.file = f /\ Anchored(n.symbol, f) => n.symbol \in SymbolsIn(nodes)

\* The push waits, or an attempt that has not stored its symbols, or has failed,
\* is at work.
AtWorkOn(w, u) ==
    work[w] # Idle /\ work[w].msg.task = u /\ work[w].step \notin {"resolve", "join"}
ToStore(u) == (\E m \in queue : m.task = u) \/ (\E w \in Workers : AtWorkOn(w, u))

Reason(u, f) == ToStore(u) \/ u \in failed \/ Ended(u, {"lost", "unlogged"}) \/ Held(u, f)

Accounted(f) == \E u \in 1 .. Len(pushed) : f \in pushed[u].files /\ Reason(u, f)

RowsWerePushed == \A r \in nodes : WasPushed(r.id.symbol, r.file)

\* Rows to be removed had, when they were read, files of the push.
SeenWerePushed ==
    \A w \in Workers : AtStep(w, "remove") =>
        \A r \in work[w].seen : WasPushed(r.id.symbol, r.file) /\ r.file \in Of(w).files

FilesAccounted == \A t \in 1 .. Len(pushed) : \A f \in pushed[t].files : Accounted(f)

FilesInv == RowsWerePushed /\ SeenWerePushed /\ FilesAccounted

LEMMA InitFiles == Init => FilesInv
  BY DEF Init, FilesInv, RowsWerePushed, SeenWerePushed, FilesAccounted, AtStep

\* A push is a reason for its own files, and takes none away.
LEMMA PushFiles ==
    ASSUME IInv, FilesInv, NEW p \in Payloads, push_code_index(p)
    PROVE  FilesInv'
<1> DEFINE k == Len(pushed) + 1
<1>1. /\ pushed \in Seq(Payloads) /\ pushed' = Append(pushed, p)
      /\ queue' = queue \cup {[task |-> k, retries |-> 0, line |-> "first"]}
      /\ UNCHANGED <<nodes, failed, outcome, work>>
  BY DEF push_code_index, IInv, TypeOK, graph
<1>2. /\ Len(pushed) \in Nat /\ Len(pushed') = k /\ pushed'[k] = p
      /\ \A t \in 1 .. Len(pushed) : pushed'[t] = pushed[t] /\ t \in 1 .. Len(pushed')
  BY <1>1
<1>3. k \in 1 .. Len(pushed') /\ \A t \in 1 .. Len(pushed') : t = k \/ t \in 1 .. Len(pushed)
  BY <1>2
<1>4. \E m \in queue' : m.task = k
  <2> DEFINE m == [task |-> k, retries |-> 0, line |-> "first"]
  <2>1. m \in queue' /\ m.task = k
    BY <1>1
  <2> HIDE DEF m, k
  <2> QED
    BY <2>1
<1>5. queue \subseteq queue'
  BY <1>1
<1> HIDE DEF k
<1>6. \A x, f : WasPushed(x, f) => WasPushed(x, f)'
  BY <1>2 DEF WasPushed
<1>7. \A x, f : Anchored(x, f)' => Anchored(x, f)
  BY <1>2 DEF Anchored
<1>8. RowsWerePushed'
  BY <1>1, <1>6 DEF FilesInv, RowsWerePushed
<1>9. SeenWerePushed'
  <2> SUFFICES ASSUME NEW w \in Workers, AtStep(w, "remove")', NEW r \in work'[w].seen
               PROVE  WasPushed(r.id.symbol, r.file)' /\ r.file \in Of(w).files'
    BY DEF SeenWerePushed
  <2>1. AtStep(w, "remove") /\ r \in work[w].seen
    BY <1>1 DEF AtStep
  <2>2. WasPushed(r.id.symbol, r.file) /\ r.file \in Of(w).files
    BY <2>1 DEF FilesInv, SeenWerePushed
  <2>3. Of(w)' = Of(w)
    BY <1>1, <1>2, <2>1 DEF IInv, TasksWerePushed, AtStep, Of
  <2> QED
    BY <1>6, <2>2, <2>3
<1>10. FilesAccounted'
  <2> SUFFICES ASSUME NEW t \in 1 .. Len(pushed'), NEW f \in pushed'[t].files
               PROVE  Accounted(f)'
    BY DEF FilesAccounted
  <2>1. CASE t = k
    BY <1>3, <1>4, <2>1 DEF Accounted, Reason, ToStore
  <2>2. CASE t # k
    <3>1. t \in 1 .. Len(pushed) /\ f \in pushed[t].files
      BY <1>2, <1>3, <2>2
    <3>2. PICK u \in 1 .. Len(pushed) : f \in pushed[u].files /\ Reason(u, f)
      BY <3>1 DEF FilesInv, FilesAccounted, Accounted
    <3>3. f \in pushed'[u].files /\ u \in 1 .. Len(pushed')
      BY <1>2, <3>2
    <3>4. ToStore(u) => ToStore(u)'
      BY <1>1, <1>5 DEF ToStore, AtWorkOn
    <3>5. Ended(u, {"lost", "unlogged"}) => Ended(u, {"lost", "unlogged"})'
      BY <1>1 DEF Ended
    <3>6. Held(u, f) => Held(u, f)'
      BY <1>1, <1>2, <1>7, <3>2 DEF Held, SymbolsIn
    <3> QED
      BY <1>1, <3>2, <3>3, <3>4, <3>5, <3>6 DEF Accounted, Reason
  <2> QED
    BY <2>1, <2>2
<1> QED
  BY <1>8, <1>9, <1>10 DEF FilesInv

LEMMA TakeFiles ==
    ASSUME IInv, FilesInv, NEW w \in Workers, NEW m \in queue, Take(w, m)
    PROVE  FilesInv'
<1> DEFINE listed == {n \in nodes : n.file \in pushed[m.task].files}
           a == attempts + 1
           job == [step |-> "remove", msg |-> m, attempt |-> a, seen |-> listed]
<1>1. /\ work[w] = Idle /\ queue' = queue \ {m} /\ work' = [work EXCEPT ![w] = job]
      /\ UNCHANGED <<nodes, pushed, failed, outcome>> /\ attempts < MaxAttempts
  BY DEF Take, graph
<1>2. listed \in SUBSET Node /\ a \in 1 .. MaxAttempts /\ m \in Message
  BY <1>1, BoundsAssumption DEF IInv, TypeOK
<1>3. listed \subseteq nodes /\ \A r \in listed : r.file \in pushed[m.task].files
  OBVIOUS
<1> HIDE DEF listed, a
<1>4. job \in Job /\ job.step = "remove" /\ job.msg = m /\ job.seen = listed
  BY <1>2 DEF Job, JobSteps
<1> HIDE DEF job
<1>5. work'[w] = job /\ job # Idle /\ OthersRest(w)
  BY <1>1, <1>4, IdleAssumption DEF IInv, TypeOK, OthersRest
<1>6. \A x, f : WasPushed(x, f)' <=> WasPushed(x, f)
  BY <1>1 DEF WasPushed
<1>7. RowsWerePushed'
  BY <1>1, <1>6 DEF FilesInv, RowsWerePushed
<1>8. SeenWerePushed'
  <2> SUFFICES ASSUME NEW v \in Workers, AtStep(v, "remove")', NEW r \in work'[v].seen
               PROVE  WasPushed(r.id.symbol, r.file)' /\ r.file \in Of(v).files'
    BY DEF SeenWerePushed
  <2>1. CASE v = w
    <3>1. r \in listed /\ Of(v)' = pushed[m.task]
      BY <1>1, <1>4, <1>5, <2>1 DEF Of
    <3> QED
      BY <1>3, <1>6, <3>1 DEF FilesInv, RowsWerePushed
  <2>2. CASE v # w
    <3>1. AtStep(v, "remove") /\ r \in work[v].seen /\ Of(v)' = Of(v)
      BY <1>1, <1>5, <2>2 DEF AtStep, OthersRest, Of
    <3> QED
      BY <1>6, <3>1 DEF FilesInv, SeenWerePushed
  <2> QED
    BY <2>1, <2>2
<1>9. \A u : ToStore(u) => ToStore(u)'
  <2> SUFFICES ASSUME NEW u, ToStore(u) PROVE ToStore(u)'
    OBVIOUS
  <2>1. CASE m.task = u
    <3>1. AtWorkOn(w, u)'
      BY <1>4, <1>5, <2>1 DEF AtWorkOn
    <3> QED
      BY <3>1 DEF ToStore
  <2>2. CASE \E n \in queue : n.task = u /\ n # m
    BY <1>1, <2>2 DEF ToStore
  <2>3. CASE \E v \in Workers : AtWorkOn(v, u)
    <3>1. PICK v \in Workers : AtWorkOn(v, u)
      BY <2>3
    <3>2. AtWorkOn(v, u)'
      BY <1>1, <1>5, <3>1 DEF AtWorkOn, OthersRest
    <3> QED
      BY <3>2 DEF ToStore
  <2> QED
    BY <2>1, <2>2, <2>3 DEF ToStore
<1>10. \A u, f : Reason(u, f) => Reason(u, f)'
  BY <1>1, <1>9 DEF Reason, Ended, Held, Anchored, SymbolsIn
<1>11. FilesAccounted'
  BY <1>1, <1>10 DEF FilesInv, FilesAccounted, Accounted
<1> QED
  BY <1>7, <1>8, <1>11 DEF FilesInv

\* The end of a step of the worker w on its task: it gives the files of the task
\* a reason if it was still to store; and rows that kept a promise stay, but
\* those of its own files that it removes.
StepOnFiles(w) ==
    /\ \A u, f : AtWorkOn(w, u) => Reason(u, f)'
    /\ \A u, f : Held(u, f) => \/ Held(u, f)'
                               \/ f \in Of(w).files /\ AtWorkOn(w, work[w].msg.task)

Grows(w) ==
    /\ work[w] # Idle /\ OthersRest(w)
    /\ work'[w] # Idle => work'[w].msg = work[w].msg /\ work'[w].step # "remove"
    /\ pushed' = pushed /\ queue \subseteq queue' /\ failed \subseteq failed' /\ outcome \subseteq outcome'

LEMMA StepFilesAccounted ==
    ASSUME IInv, FilesInv, NEW w \in Workers, Grows(w), StepOnFiles(w)
    PROVE  FilesAccounted'
<1>0. PICK task : task = work[w].msg.task
  OBVIOUS
<1>1. task \in 1 .. Len(pushed) /\ Of(w) = pushed[task]
  BY <1>0 DEF Grows, IInv, TasksWerePushed, Of
<1> SUFFICES ASSUME NEW t \in 1 .. Len(pushed), NEW f \in pushed[t].files
             PROVE  Accounted(f)'
  BY DEF Grows, FilesAccounted
<1>2. PICK u \in 1 .. Len(pushed) : f \in pushed[u].files /\ Reason(u, f)
  BY DEF FilesInv, FilesAccounted, Accounted
<1>3. SUFFICES \E v \in 1 .. Len(pushed) : f \in pushed[v].files /\ Reason(v, f)'
  BY DEF Grows, Accounted
<1>4. CASE \E m \in queue : m.task = u
  <2>1. ToStore(u)'
    BY <1>4 DEF Grows, ToStore
  <2> QED
    BY <1>2, <2>1 DEF Reason
<1>5. ASSUME NEW v \in Workers, AtWorkOn(v, u)
      PROVE  Reason(u, f)'
  <2>1. CASE v = w
    BY <1>5, <2>1 DEF StepOnFiles
  <2>2. CASE v # w
    <3>1. AtWorkOn(v, u)'
      BY <1>5, <2>2 DEF Grows, OthersRest, AtWorkOn
    <3> QED
      BY <3>1 DEF Reason, ToStore
  <2> QED
    BY <2>1, <2>2
<1>6. CASE u \in failed \/ Ended(u, {"lost", "unlogged"})
  BY <1>2, <1>6 DEF Grows, Reason, Ended
<1>7. CASE Held(u, f)
  <2>1. CASE Held(u, f)'
    BY <1>2, <2>1 DEF Reason
  <2>2. CASE f \in Of(w).files /\ AtWorkOn(w, work[w].msg.task)
    <3>1. Reason(task, f)'
      BY <1>0, <2>2 DEF StepOnFiles
    <3> QED
      BY <1>1, <2>2, <3>1
  <2> QED
    BY <1>7, <2>1, <2>2 DEF StepOnFiles
<1> QED
  BY <1>2, <1>4, <1>5, <1>6, <1>7 DEF Reason, ToStore

LEMMA StepSeenPushed ==
    ASSUME FilesInv, NEW w \in Workers, Grows(w)
    PROVE  SeenWerePushed'
<1> SUFFICES ASSUME NEW v \in Workers, AtStep(v, "remove")', NEW r \in work'[v].seen
             PROVE  WasPushed(r.id.symbol, r.file)' /\ r.file \in Of(v).files'
  BY DEF SeenWerePushed
<1>1. v # w
  BY DEF AtStep, Grows
<1>2. work'[v] = work[v] /\ pushed' = pushed
  BY <1>1 DEF Grows, OthersRest
<1>3. AtStep(v, "remove") /\ r \in work[v].seen /\ Of(v)' = Of(v)
  BY <1>2 DEF AtStep, Of
<1>4. WasPushed(r.id.symbol, r.file) /\ r.file \in Of(v).files
  BY <1>3 DEF FilesInv, SeenWerePushed
<1> QED
  BY <1>2, <1>3, <1>4 DEF WasPushed

\* Steps that leave the rows alone.
LEMMA QuietFiles ==
    ASSUME IInv, FilesInv, NEW w \in Workers, Grows(w), nodes' = nodes,
           \A u, f : AtWorkOn(w, u) => Reason(u, f)'
    PROVE  FilesInv'
<1>1. \A x, f : (WasPushed(x, f)' <=> WasPushed(x, f)) /\ (Anchored(x, f)' <=> Anchored(x, f))
  BY DEF Grows, WasPushed, Anchored
<1>2. RowsWerePushed'
  BY <1>1 DEF FilesInv, RowsWerePushed
<1>3. \A u, f : Held(u, f) => Held(u, f)'
  BY <1>1 DEF Grows, Held, SymbolsIn
<1>4. FilesAccounted'
  BY <1>3, StepFilesAccounted DEF StepOnFiles
<1> QED
  BY <1>2, <1>4, StepSeenPushed DEF FilesInv

Rest == pushed' = pushed /\ queue' = queue /\ failed' = failed

\* What each step of a worker does, in these terms.
LEMMA RemoveDoes ==
    ASSUME IInv, NEW w \in Workers, Remove(w)
    PROVE  /\ AtStep(w, "remove") /\ Rest /\ alone' = alone
           /\ nodes' = {n \in nodes : n.id \notin Ids(work[w].seen)}
           /\ edges' = {e \in edges : ~Incident(e, Ids(work[w].seen))}
           /\ \/ Of(w).nodes = {} /\ EndsAs(w, "done")
              \/ Of(w).nodes # {} /\ GoesTo(w, "select", work[w].seen)
<1>1. TypeOK /\ work[w] # Idle /\ "select" \in JobSteps
  BY DEF IInv, Remove, AtStep, JobSteps
<1>2. CASE Of(w).nodes = {}
  BY <1>1, <1>2, FinishEnds DEF Remove, Rest
<1>3. CASE Of(w).nodes # {}
  BY <1>1, <1>3, GotoGoes DEF Remove, Rest
<1> QED
  BY <1>2, <1>3

LEMMA SelectDoes ==
    ASSUME IInv, NEW w \in Workers, Select(w)
    PROVE  /\ AtStep(w, "select") /\ Rest /\ UNCHANGED <<nodes, edges, alone>>
           /\ GoesTo(w, "store", RowsOf(SymbolsOf(Of(w))))
<1>1. TypeOK /\ work[w] # Idle /\ "store" \in JobSteps
  BY DEF IInv, Select, AtStep, JobSteps
<1>2. RowsOf(SymbolsOf(Of(w))) \in SUBSET Node
  BY DEF RowsOf, IInv, TypeOK
<1> QED
  BY <1>1, <1>2, SeeGoes DEF Select, Rest, graph

LEMMA StoreDoes ==
    ASSUME IInv, NEW w \in Workers, Store(w)
    PROVE  /\ AtStep(w, "store") /\ StillSo(w) /\ Rest /\ UNCHANGED <<edges, alone>>
           /\ nodes' = {n \in nodes : n.id \notin Ids(work[w].seen)}
                         \cup {RowFor(w, n) : n \in Of(w).nodes}
           /\ GoesTo(w, "resolve", work[w].seen)
<1>1. TypeOK /\ work[w] # Idle /\ "resolve" \in JobSteps
  BY DEF IInv, Store, AtStep, JobSteps
<1> QED
  BY <1>1, GotoGoes DEF Store, Rest

LEMMA ResolveDoes ==
    ASSUME IInv, NEW w \in Workers, Resolve(w)
    PROVE  /\ AtStep(w, "resolve") /\ Rest /\ UNCHANGED <<nodes, edges, alone>>
           /\ GoesTo(w, "join", RowsOf(UNION {{e[1], e[2]} : e \in Of(w).edges}))
<1> DEFINE N == RowsOf(UNION {{e[1], e[2]} : e \in Of(w).edges})
<1>1. TypeOK /\ work[w] # Idle /\ "join" \in JobSteps
  BY DEF IInv, Resolve, AtStep, JobSteps
<1>2. N \in SUBSET Node
  BY DEF RowsOf, IInv, TypeOK
<1>3. See(w, "join", N) /\ AtStep(w, "resolve") /\ Rest /\ UNCHANGED <<nodes, edges, alone>>
  BY DEF Resolve, Rest, graph
<1> HIDE DEF N
<1>4. GoesTo(w, "join", N)
  BY <1>1, <1>2, <1>3, SeeGoes
<1> QED
  BY <1>3, <1>4 DEF N

LEMMA JoinDoes ==
    ASSUME IInv, NEW w \in Workers, Join(w)
    PROVE  /\ AtStep(w, "join") /\ Rest /\ UNCHANGED <<nodes, alone>>
           /\ edges' = edges \cup Resolved(w) /\ EndsAs(w, "done")
  BY FinishEnds DEF IInv, Join, Rest

\* An attempt that goes wrong: its push is not alone any more.
GoesWrong(w) ==
    /\ work[w] # Idle /\ UNCHANGED <<nodes, edges, pushed>>
    /\ queue \subseteq queue' /\ failed \subseteq failed'
    /\ alone' = alone \ {work[w].msg.task}

LEMMA FailEmbeddingDoes ==
    ASSUME IInv, NEW w \in Workers, FailEmbedding(w)
    PROVE  GoesWrong(w) /\ GoesTo(w, "failed", work[w].seen)
<1>1. TypeOK /\ work[w] # Idle /\ "failed" \in JobSteps
  BY DEF IInv, FailEmbedding, AtStep, JobSteps
<1> QED
  BY <1>1, GotoGoes DEF FailEmbedding, Disturb, GoesWrong, graph

LEMMA FailDoes ==
    ASSUME IInv, NEW w \in Workers, Fail(w)
    PROVE  GoesWrong(w) /\ GoesTo(w, "failed", work[w].seen)
<1>1. TypeOK /\ work[w] # Idle /\ "failed" \in JobSteps
  BY DEF IInv, Fail, AtStep, JobSteps
<1> QED
  BY <1>1, GotoGoes DEF Fail, Disturb, GoesWrong, graph

LEMMA CrashDoes ==
    ASSUME IInv, NEW w \in Workers, Crash(w)
    PROVE  GoesWrong(w) /\ EndsAs(w, "lost")
  BY FinishEnds DEF IInv, Crash, Disturb, GoesWrong, graph

LEMMA LogFailureDoes ==
    ASSUME IInv, NEW w \in Workers, LogFailure(w)
    PROVE  /\ AtStep(w, "failed") /\ UNCHANGED <<nodes, edges, pushed, queue, alone>>
           /\ failed' = failed \cup {work[w].msg.task}
           /\ EndsAs(w, "raised") \/ EndsAs(w, "error") \/ GoesTo(w, "logged", work[w].seen)
<1>1. TypeOK /\ work[w] # Idle /\ "logged" \in JobSteps
  BY DEF IInv, LogFailure, AtStep, JobSteps
<1>2. \/ Finish(w, "raised") \/ Finish(w, "error") \/ Goto(w, "logged")
  BY DEF LogFailure
<1>3. EndsAs(w, "raised") \/ EndsAs(w, "error") \/ GoesTo(w, "logged", work[w].seen)
  BY <1>1, <1>2, GotoGoes, FinishEnds
<1> QED
  BY <1>3 DEF LogFailure, graph

LEMMA LogFailDoes ==
    ASSUME IInv, NEW w \in Workers, LogFail(w)
    PROVE  /\ AtStep(w, "failed") /\ UNCHANGED <<nodes, edges, pushed, queue, failed, alone>>
           /\ EndsAs(w, "unlogged")
  BY FinishEnds DEF IInv, LogFail, AtStep, graph

LEMMA RetryFailDoes ==
    ASSUME IInv, NEW w \in Workers, RetryFail(w)
    PROVE  /\ AtStep(w, "logged") /\ UNCHANGED <<nodes, edges, pushed, queue, failed, alone>>
           /\ work[w].msg.task \in failed
           /\ EndsAs(w, "raised")
  BY FinishEnds DEF IInv, AttemptsApart, RetryFail, AtStep, graph

LEMMA RetryDoes ==
    ASSUME IInv, NEW w \in Workers, Retry(w)
    PROVE  /\ AtStep(w, "logged") /\ UNCHANGED <<nodes, edges, pushed, failed, alone, outcome>>
           /\ queue \subseteq queue' /\ (\E m \in queue' : m.task = work[w].msg.task)
           /\ work'[w] = Idle /\ OthersRest(w)
<1>1. AtStep(w, "logged") /\ work[w] # Idle
  BY DEF Retry, AtStep
<1>2. work[w].msg \in Message /\ work[w].msg.retries < MaxRetries
  BY <1>1, WorkTypes DEF IInv, AttemptsApart
<1>3. Again(work[w].msg, "second").task = work[w].msg.task
  BY <1>2, AgainTypes
<1>4. Again(work[w].msg, "second") \in queue' /\ queue \subseteq queue'
  BY DEF Retry
<1>5. \E m \in queue' : m.task = work[w].msg.task
  BY <1>3, <1>4
<1>6. work'[w] = Idle /\ OthersRest(w)
  BY DEF Retry, OthersRest, IInv, TypeOK
<1> QED
  BY <1>1, <1>4, <1>5, <1>6 DEF Retry, graph

\* Ways of going on, for the files.
LEMMA GrowsIf ==
    ASSUME NEW w \in Workers, work[w] # Idle, pushed' = pushed, queue \subseteq queue', failed \subseteq failed',
           NEW step, NEW N, NEW how,
           \/ GoesTo(w, step, N) /\ step # "remove"
           \/ EndsAs(w, how)
           \/ work'[w] = Idle /\ OthersRest(w) /\ outcome' = outcome
    PROVE  Grows(w)
  BY DEF Grows, GoesTo, EndsAs

LEMMA StillToStore ==
    ASSUME NEW w \in Workers, NEW step, step \notin {"resolve", "join"}, NEW N, GoesTo(w, step, N),
           NEW u, AtWorkOn(w, u)
    PROVE  ToStore(u)'
<1>1. AtWorkOn(w, u)'
  BY DEF GoesTo, AtWorkOn
<1> QED
  BY <1>1 DEF ToStore

LEMMA SelectFiles == ASSUME IInv, FilesInv, NEW w \in Workers, Select(w) PROVE FilesInv'
<1>1. /\ work[w] # Idle /\ Rest /\ nodes' = nodes /\ GoesTo(w, "store", RowsOf(SymbolsOf(Of(w))))
  BY SelectDoes DEF AtStep
<1>2. Grows(w)
  BY <1>1, GrowsIf DEF Rest
<1>3. \A u, f : AtWorkOn(w, u) => Reason(u, f)'
  BY <1>1, StillToStore DEF Reason
<1> QED
  BY <1>1, <1>2, <1>3, QuietFiles

LEMMA ResolveFiles == ASSUME IInv, FilesInv, NEW w \in Workers, Resolve(w) PROVE FilesInv'
<1>1. /\ AtStep(w, "resolve") /\ Rest /\ nodes' = nodes
      /\ GoesTo(w, "join", RowsOf(UNION {{e[1], e[2]} : e \in Of(w).edges}))
  BY ResolveDoes
<1>2. Grows(w)
  BY <1>1, GrowsIf DEF Rest, AtStep
<1>3. \A u : ~AtWorkOn(w, u)
  BY <1>1 DEF AtStep, AtWorkOn
<1> QED
  BY <1>1, <1>2, <1>3, QuietFiles

LEMMA JoinFiles == ASSUME IInv, FilesInv, NEW w \in Workers, Join(w) PROVE FilesInv'
<1>1. AtStep(w, "join") /\ Rest /\ nodes' = nodes /\ EndsAs(w, "done")
  BY JoinDoes
<1>2. Grows(w)
  BY <1>1, GrowsIf DEF Rest, AtStep
<1>3. \A u : ~AtWorkOn(w, u)
  BY <1>1 DEF AtStep, AtWorkOn
<1> QED
  BY <1>1, <1>2, <1>3, QuietFiles

LEMMA FailFiles ==
    ASSUME IInv, FilesInv, NEW w \in Workers, FailEmbedding(w) \/ Fail(w)
    PROVE  FilesInv'
<1>1. GoesWrong(w) /\ GoesTo(w, "failed", work[w].seen)
  BY FailEmbeddingDoes, FailDoes
<1>2. Grows(w) /\ nodes' = nodes
  BY <1>1, GrowsIf DEF GoesWrong
<1>3. \A u, f : AtWorkOn(w, u) => Reason(u, f)'
  BY <1>1, StillToStore DEF Reason
<1> QED
  BY <1>2, <1>3, QuietFiles

LEMMA CrashFiles == ASSUME IInv, FilesInv, NEW w \in Workers, Crash(w) PROVE FilesInv'
<1>1. GoesWrong(w) /\ EndsAs(w, "lost")
  BY CrashDoes
<1>2. Grows(w) /\ nodes' = nodes
  BY <1>1, GrowsIf DEF GoesWrong
<1>3. ASSUME NEW u, NEW f, AtWorkOn(w, u) PROVE Reason(u, f)'
  <2> DEFINE o == [task |-> work[w].msg.task, how |-> "lost"]
  <2>1. o \in outcome' /\ o.task = u /\ o.how = "lost"
    BY <1>1, <1>3 DEF EndsAs, AtWorkOn
  <2> HIDE DEF o
  <2>2. Ended(u, {"lost", "unlogged"})'
    BY <2>1 DEF Ended
  <2> QED
    BY <2>2 DEF Reason
<1> QED
  BY <1>2, <1>3, QuietFiles

LEMMA LogFailFiles == ASSUME IInv, FilesInv, NEW w \in Workers, LogFail(w) PROVE FilesInv'
<1>1. /\ AtStep(w, "failed") /\ UNCHANGED <<nodes, pushed, queue, failed>> /\ EndsAs(w, "unlogged")
  BY LogFailDoes
<1>2. Grows(w)
  BY <1>1, GrowsIf DEF AtStep
<1>3. ASSUME NEW u, NEW f, AtWorkOn(w, u) PROVE Reason(u, f)'
  <2> DEFINE o == [task |-> work[w].msg.task, how |-> "unlogged"]
  <2>1. o \in outcome' /\ o.task = u /\ o.how = "unlogged"
    BY <1>1, <1>3 DEF EndsAs, AtWorkOn
  <2> HIDE DEF o
  <2>2. Ended(u, {"lost", "unlogged"})'
    BY <2>1 DEF Ended
  <2> QED
    BY <2>2 DEF Reason
<1> QED
  BY <1>1, <1>2, <1>3, QuietFiles

LEMMA RetryFailFiles == ASSUME IInv, FilesInv, NEW w \in Workers, RetryFail(w) PROVE FilesInv'
<1>1. /\ AtStep(w, "logged") /\ UNCHANGED <<nodes, pushed, queue, failed>>
      /\ work[w].msg.task \in failed /\ EndsAs(w, "raised")
  BY RetryFailDoes
<1>2. Grows(w)
  BY <1>1, GrowsIf DEF AtStep
<1>3. \A u, f : AtWorkOn(w, u) => Reason(u, f)'
  BY <1>1 DEF Reason, AtWorkOn
<1> QED
  BY <1>1, <1>2, <1>3, QuietFiles

LEMMA LogFailureFiles == ASSUME IInv, FilesInv, NEW w \in Workers, LogFailure(w) PROVE FilesInv'
<1>1. /\ AtStep(w, "failed") /\ UNCHANGED <<nodes, pushed, queue>>
      /\ failed' = failed \cup {work[w].msg.task}
      /\ EndsAs(w, "raised") \/ EndsAs(w, "error") \/ GoesTo(w, "logged", work[w].seen)
  BY LogFailureDoes
<1>2. Grows(w)
  BY <1>1, GrowsIf DEF AtStep
<1>3. \A u, f : AtWorkOn(w, u) => Reason(u, f)'
  BY <1>1 DEF Reason, AtWorkOn
<1> QED
  BY <1>1, <1>2, <1>3, QuietFiles

LEMMA RetryFiles == ASSUME IInv, FilesInv, NEW w \in Workers, Retry(w) PROVE FilesInv'
<1>1. /\ AtStep(w, "logged") /\ UNCHANGED <<nodes, pushed, failed, outcome>>
      /\ queue \subseteq queue' /\ (\E m \in queue' : m.task = work[w].msg.task)
      /\ work'[w] = Idle /\ OthersRest(w)
  BY RetryDoes
<1>2. Grows(w)
  BY <1>1 DEF AtStep, Grows
<1>3. ASSUME NEW u, NEW f, AtWorkOn(w, u) PROVE Reason(u, f)'
  <2>1. ToStore(u)'
    BY <1>1, <1>3 DEF AtWorkOn, ToStore
  <2> QED
    BY <2>1 DEF Reason
<1> QED
  BY <1>1, <1>2, <1>3, QuietFiles

\* The rows it removes were in its files, or their symbols have moved.
LEMMA RemoveFiles == ASSUME IInv, FilesInv, NEW w \in Workers, Remove(w) PROVE FilesInv'
<1>1. /\ AtStep(w, "remove") /\ Rest
      /\ nodes' = {n \in nodes : n.id \notin Ids(work[w].seen)}
      /\ \/ Of(w).nodes = {} /\ EndsAs(w, "done")
         \/ Of(w).nodes # {} /\ GoesTo(w, "select", work[w].seen)
  BY RemoveDoes
<1>2. Grows(w)
  BY <1>1, GrowsIf DEF Rest, AtStep
<1>3. pushed' = pushed /\ work[w] # Idle /\ work[w].step = "remove"
  BY <1>1 DEF Rest, AtStep
<1>4. \A x, f : (WasPushed(x, f)' <=> WasPushed(x, f)) /\ (Anchored(x, f)' <=> Anchored(x, f))
  BY <1>3 DEF WasPushed, Anchored
<1>5. RowsWerePushed'
  BY <1>1, <1>4 DEF FilesInv, RowsWerePushed
<1>6. ASSUME NEW u, NEW f, AtWorkOn(w, u) PROVE Reason(u, f)'
  <2>1. CASE Of(w).nodes = {}
    <3>1. pushed'[u].nodes = {}
      BY <1>3, <1>6, <2>1 DEF AtWorkOn, Of
    <3>2. Held(u, f)'
      BY <3>1 DEF Held
    <3> QED
      BY <3>2 DEF Reason
  <2>2. CASE GoesTo(w, "select", work[w].seen)
    BY <1>6, <2>2, StillToStore DEF Reason
  <2> QED
    BY <1>1, <2>1, <2>2
<1>7. ASSUME NEW u, NEW f, Held(u, f), ~(f \in Of(w).files) PROVE Held(u, f)'
  <2> SUFFICES ASSUME NEW n \in pushed[u].nodes, n.file = f, Anchored(n.symbol, f)
               PROVE  n.symbol \in SymbolsIn(nodes')
    BY <1>3, <1>4 DEF Held
  <2>1. PICK r \in nodes : r.id.symbol = n.symbol
    BY <1>7 DEF Held, SymbolsIn
  <2>2. r.id \notin Ids(work[w].seen)
    <3> SUFFICES ASSUME NEW s \in work[w].seen, s.id = r.id PROVE FALSE
      BY DEF Ids
    <3>1. WasPushed(n.symbol, s.file) /\ s.file \in Of(w).files
      BY <1>1, <2>1 DEF FilesInv, SeenWerePushed
    <3>2. s.file = f
      BY <3>1 DEF WasPushed, Anchored
    <3> QED
      BY <1>7, <3>1, <3>2
  <2> QED
    BY <1>1, <2>1, <2>2 DEF SymbolsIn
<1>8. AtWorkOn(w, work[w].msg.task)
  BY <1>3 DEF AtWorkOn
<1>9. StepOnFiles(w)
  BY <1>6, <1>7, <1>8 DEF StepOnFiles
<1> QED
  BY <1>2, <1>5, <1>9, StepFilesAccounted, StepSeenPushed DEF FilesInv

\* The rows of a push are there once they are stored, and no symbol loses its row.
LEMMA StoreFiles == ASSUME IInv, FilesInv, NEW w \in Workers, Store(w) PROVE FilesInv'
<1>1. /\ AtStep(w, "store") /\ StillSo(w) /\ Rest
      /\ nodes' = {n \in nodes : n.id \notin Ids(work[w].seen)}
                    \cup {RowFor(w, n) : n \in Of(w).nodes}
      /\ GoesTo(w, "resolve", work[w].seen)
  BY StoreDoes
<1>2. Grows(w)
  BY <1>1, GrowsIf DEF Rest, AtStep
<1>3. pushed' = pushed /\ work[w] # Idle
  BY <1>1 DEF Rest, AtStep
<1>4. \A x, f : (WasPushed(x, f)' <=> WasPushed(x, f)) /\ (Anchored(x, f)' <=> Anchored(x, f))
  BY <1>3 DEF WasPushed, Anchored
<1>5. \A n \in Of(w).nodes : /\ RowFor(w, n) \in nodes' /\ RowFor(w, n).id.symbol = n.symbol
                            /\ RowFor(w, n).file = n.file
  <2>1. \A n \in Of(w).nodes : RowFor(w, n) \in nodes' /\ RowFor(w, n).id.symbol = n.symbol
    BY <1>1, RowForSymbol
  <2>2. \A n \in Of(w).nodes : RowFor(w, n).file = n.file
    BY DEF RowFor
  <2> QED
    BY <2>1, <2>2
<1>6. RowsWerePushed'
  <2> SUFFICES ASSUME NEW r \in nodes' PROVE WasPushed(r.id.symbol, r.file)'
    BY DEF RowsWerePushed
  <2>1. CASE r \in nodes
    BY <1>4, <2>1 DEF FilesInv, RowsWerePushed
  <2>2. ASSUME NEW n \in Of(w).nodes, r = RowFor(w, n) PROVE WasPushed(r.id.symbol, r.file)
    <3>1. work[w].msg.task \in 1 .. Len(pushed)
      BY <1>3 DEF IInv, TasksWerePushed
    <3>2. r.id.symbol = n.symbol /\ r.file = n.file
      BY <1>5, <2>2
    <3> QED
      BY <3>1, <3>2 DEF WasPushed, Of
  <2> QED
    BY <1>1, <1>4, <2>1, <2>2
<1>7. SymbolsIn(nodes) \subseteq SymbolsIn(nodes')
  <2> SUFFICES ASSUME NEW r \in nodes PROVE r.id.symbol \in SymbolsIn(nodes')
    BY DEF SymbolsIn
  <2>1. CASE r.id \notin Ids(work[w].seen)
    BY <1>1, <2>1 DEF SymbolsIn
  <2>2. CASE r.id \in Ids(work[w].seen)
    <3>a. r.id \in Ids(RowsOf(SymbolsOf(Of(w))))
      BY <1>1, <2>2 DEF StillSo
    <3>1. r.id.symbol \in SymbolsOf(Of(w))
      BY <3>a DEF Ids, RowsOf
    <3>2. PICK n \in Of(w).nodes : n.symbol = r.id.symbol
      BY <3>1 DEF SymbolsOf
    <3> QED
      BY <1>5, <3>2 DEF SymbolsIn
  <2> QED
    BY <2>1, <2>2
<1>8. \A u, f : Held(u, f) => Held(u, f)'
  BY <1>3, <1>4, <1>7 DEF Held
<1>9. ASSUME NEW u, NEW f, AtWorkOn(w, u) PROVE Reason(u, f)'
  <2>1. pushed'[u] = Of(w)
    BY <1>3, <1>9 DEF AtWorkOn, Of
  <2>2. \A n \in Of(w).nodes : n.symbol \in SymbolsIn(nodes')
    BY <1>5 DEF SymbolsIn
  <2>3. Held(u, f)'
    BY <2>1, <2>2 DEF Held
  <2> QED
    BY <2>3 DEF Reason
<1>10. StepOnFiles(w)
  BY <1>8, <1>9 DEF StepOnFiles
<1> QED
  BY <1>2, <1>6, <1>10, StepFilesAccounted, StepSeenPushed DEF FilesInv

LEMMA StepFiles == IInv /\ FilesInv /\ [Next]_vars => FilesInv'
<1> SUFFICES ASSUME IInv, FilesInv, [Next]_vars PROVE FilesInv'
  OBVIOUS
<1>1. ASSUME NEW w \in Workers, index_code_batch(w) PROVE FilesInv'
  <2>1. ASSUME NEW m \in queue, Take(w, m) PROVE FilesInv'
    BY <2>1, TakeFiles
  <2> QED
    BY <1>1, <2>1, RemoveFiles, SelectFiles, StoreFiles, ResolveFiles, JoinFiles, FailFiles,
       LogFailureFiles, LogFailFiles, RetryFiles, RetryFailFiles DEF index_code_batch
<1>2. CASE UNCHANGED vars
  <2>1. UNCHANGED <<nodes, pushed, queue, failed, outcome, work>>
    BY <1>2 DEF vars, graph
  <2> QED
    BY <2>1 DEF FilesInv, RowsWerePushed, SeenWerePushed, FilesAccounted, WasPushed, AtStep, Of,
                Accounted, Reason, ToStore, AtWorkOn, Ended, Held, Anchored, SymbolsIn
<1> QED
  BY <1>1, <1>2, PushFiles, CrashFiles DEF Next

\* A file that was pushed and is missing from the graph is missing for one of the
\* reasons listed; the one that leaves no trace is an attempt that failed while
\* the database did not take its row either.
THEOREM MissingFilesHaveReasons == Spec => []MissingFilesAreExplained
<1>1. IInv /\ FilesInv => MissingFilesAreExplained
  <2> SUFFICES ASSUME IInv, FilesInv, NEW t \in 1 .. Len(pushed), NEW n \in pushed[t].nodes
               PROVE  \/ \E r \in nodes : r.file = n.file
                      \/ \E u \in 1 .. Len(pushed) :
                            /\ n.file \in pushed[u].files
                            /\ \/ Pending(u) \/ u \in failed \/ Ended(u, {"lost", "unlogged"})
                               \/ \A m \in pushed[u].nodes : m.file = n.file =>
                                     \E v \in 1 .. Len(pushed) : \E q \in pushed[v].nodes :
                                        q.symbol = m.symbol /\ q.file # n.file
    BY DEF MissingFilesAreExplained
  <2>1. n.file \in pushed[t].files
    BY PayloadsAssumption DEF IInv, TypeOK
  <2>2. PICK u \in 1 .. Len(pushed) : n.file \in pushed[u].files /\ Reason(u, n.file)
    BY <2>1 DEF FilesInv, FilesAccounted, Accounted
  <2>3. CASE ToStore(u)
    BY <2>2, <2>3 DEF ToStore, AtWorkOn, Pending
  <2>4. CASE Held(u, n.file)
    <3>1. CASE \E m \in pushed[u].nodes : m.file = n.file /\ Anchored(m.symbol, n.file)
      <4>1. PICK m \in pushed[u].nodes : m.file = n.file /\ Anchored(m.symbol, n.file)
        BY <3>1
      <4>2. PICK r \in nodes : r.id.symbol = m.symbol
        BY <2>4, <4>1 DEF Held, SymbolsIn
      <4>3. WasPushed(m.symbol, r.file)
        BY <4>2 DEF FilesInv, RowsWerePushed
      <4>4. r.file = n.file
        BY <4>1, <4>3 DEF WasPushed, Anchored
      <4> QED
        BY <4>4
    <3>2. CASE \A m \in pushed[u].nodes : m.file = n.file => ~Anchored(m.symbol, n.file)
      BY <2>2, <3>2 DEF Anchored
    <3> QED
      BY <3>1, <3>2
  <2> QED
    BY <2>2, <2>3, <2>4 DEF Reason
<1> QED
  BY <1>1, InitIInv, StepIInv, InitFiles, StepFiles, PTL DEF Spec

-----------------------------------------------------------------------------
(* Pushes that nobody disturbs *)

InFiles(t, r) == r.file \in pushed[t].files

\* The rows of its files are those it brought ...
Filled(t) ==
    /\ \A r \in nodes : InFiles(t, r) =>
          r.by = t /\ [symbol |-> r.id.symbol, file |-> r.file] \in pushed[t].nodes
    /\ \A n \in pushed[t].nodes : \E r \in nodes : r.id.symbol = n.symbol /\ r.file = n.file

\* ... and so are the edges between them.
Joined(t) ==
    \A r, s \in nodes :
        InFiles(t, r) /\ InFiles(t, s) /\ <<r.id.symbol, s.id.symbol>> \in pushed[t].edges =>
            [source |-> r.id, target |-> s.id] \in edges

EndsOf(t) == UNION {{e[1], e[2]} : e \in pushed[t].edges}

SeesAll(w, N) == \A r \in N : r.id \in Ids(work[w].seen)

\* How far the attempt of w has brought push t.
InHand(t, w) ==
    /\ work[w].step \in Early \cup {"resolve", "join"}
    /\ work[w].step = "remove" => SeesAll(w, {r \in nodes : InFiles(t, r)})
    /\ work[w].step \in {"select", "store"} => \A r \in nodes : ~InFiles(t, r)
    /\ work[w].step \in {"resolve", "join"} => Filled(t)
    /\ work[w].step = "join" => SeesAll(w, {r \in RowsOf(EndsOf(t)) : InFiles(t, r)})

\* An attempt of another push writes none of its files or symbols.
Apart(t, v) ==
    LET q == pushed[work[v].msg.task]
    IN  /\ pushed[t].files \cap q.files = {}
        /\ SymbolsOf(pushed[t]) \cap SymbolsOf(q) = {}
        /\ work[v].step \in Early => SymbolsIn(work[v].seen) \cap SymbolsOf(pushed[t]) = {}

OnTask(w, t) == work[w] # Idle /\ work[w].msg.task = t
OffTask(w, t) == work[w] # Idle /\ work[w].msg.task # t

Undisturbed(t) ==
    /\ t \in 1 .. Len(pushed)
    /\ \A v \in Workers : OffTask(v, t) => Apart(t, v)
    /\ \A v, w \in Workers : OnTask(v, t) /\ OnTask(w, t) => v = w
    /\ \A w \in Workers : OnTask(w, t) => InHand(t, w)
    /\ (\A w \in Workers : ~OnTask(w, t)) => Filled(t) /\ Joined(t)

AloneInv == \A t \in alone : Undisturbed(t)

LEMMA InitAlone == Init => AloneInv
  BY DEF Init, AloneInv

\* What a step of another push has to spare of push t.
Spares(t) ==
    /\ \A r \in nodes' : InFiles(t, r) => r \in nodes
    /\ \A r \in nodes : InFiles(t, r) /\ r.id.symbol \in SymbolsOf(pushed[t]) => r \in nodes'
    /\ \A e \in edges : e.source.symbol \in SymbolsOf(pushed[t])
                        /\ e.target.symbol \in SymbolsOf(pushed[t]) => e \in edges'

LEMMA FilledSymbols ==
    ASSUME NEW t, Filled(t), NEW r \in nodes, InFiles(t, r)
    PROVE  r.id.symbol \in SymbolsOf(pushed[t])
<1> DEFINE n == [symbol |-> r.id.symbol, file |-> r.file]
<1>1. n \in pushed[t].nodes /\ n.symbol = r.id.symbol
  BY DEF Filled
<1> HIDE DEF n
<1> QED
  BY <1>1 DEF SymbolsOf

LEMMA FilledSpared ==
    ASSUME NEW t, Filled(t), Spares(t), pushed' = pushed,
           \A n \in pushed[t].nodes : n.file \in pushed[t].files
    PROVE  Filled(t)'
<1>1. \A r \in nodes' : InFiles(t, r) =>
          r.by = t /\ [symbol |-> r.id.symbol, file |-> r.file] \in pushed[t].nodes
  BY DEF Filled, Spares
<1>2. ASSUME NEW n \in pushed[t].nodes
      PROVE  \E r \in nodes' : r.id.symbol = n.symbol /\ r.file = n.file
  <2>1. PICK r \in nodes : r.id.symbol = n.symbol /\ r.file = n.file
    BY DEF Filled
  <2>2. InFiles(t, r) /\ r.id.symbol \in SymbolsOf(pushed[t])
    BY <2>1 DEF InFiles, SymbolsOf
  <2>3. r \in nodes'
    BY <2>2 DEF Spares
  <2> QED
    BY <2>1, <2>3
<1> QED
  BY <1>1, <1>2 DEF Filled, InFiles

LEMMA JoinedSpared ==
    ASSUME NEW t, Filled(t), Joined(t), Spares(t), pushed' = pushed
    PROVE  Joined(t)'
<1> SUFFICES ASSUME NEW r \in nodes', NEW s \in nodes', InFiles(t, r), InFiles(t, s),
                    <<r.id.symbol, s.id.symbol>> \in pushed[t].edges
             PROVE  [source |-> r.id, target |-> s.id] \in edges'
  BY DEF Joined, InFiles
<1> DEFINE e == [source |-> r.id, target |-> s.id]
<1>1. r \in nodes /\ s \in nodes
  BY DEF Spares
<1>2. e \in edges
  BY <1>1 DEF Joined
<1>3. r.id.symbol \in SymbolsOf(pushed[t]) /\ s.id.symbol \in SymbolsOf(pushed[t])
  BY <1>1, FilledSymbols
<1>4. e.source = r.id /\ e.target = s.id
  OBVIOUS
<1> HIDE DEF e
<1>5. e \in edges'
  BY <1>2, <1>3, <1>4 DEF Spares
<1> QED
  BY <1>5 DEF e

LEMMA InHandSpared ==
    ASSUME NEW t, NEW v \in Workers, InHand(t, v), Spares(t), pushed' = pushed,
           work'[v] = work[v], \A n \in pushed[t].nodes : n.file \in pushed[t].files
    PROVE  InHand(t, v)'
<1>1. \A r \in nodes' : InFiles(t, r)' => r \in nodes /\ InFiles(t, r)
  BY DEF Spares, InFiles
<1>2. work[v].step = "remove" => SeesAll(v, {r \in nodes : InFiles(t, r)})'
  BY <1>1 DEF InHand, SeesAll
<1>3. work[v].step \in {"select", "store"} => \A r \in nodes' : ~InFiles(t, r)'
  BY <1>1 DEF InHand
<1>4. work[v].step \in {"resolve", "join"} => Filled(t)'
  BY FilledSpared DEF InHand
<1>5. work[v].step = "join" => SeesAll(v, {r \in RowsOf(EndsOf(t)) : InFiles(t, r)})'
  BY <1>1 DEF InHand, SeesAll, RowsOf, EndsOf
<1> QED
  BY <1>2, <1>3, <1>4, <1>5 DEF InHand

LEMMA PushedFiles ==
    ASSUME IInv, NEW t \in 1 .. Len(pushed)
    PROVE  /\ pushed[t] \in Payload
           /\ \A n \in pushed[t].nodes : n.file \in pushed[t].files
  BY PayloadsAssumption DEF IInv, TypeOK

\* A step on another push.
LEMMA OthersStep ==
    ASSUME IInv, NEW t, Undisturbed(t), NEW w \in Workers, OffTask(w, t), OthersRest(w),
           pushed' = pushed, Spares(t),
           work'[w] # Idle => /\ work'[w].msg = work[w].msg
                              /\ work'[w].step \in Early =>
                                    SymbolsIn(work'[w].seen) \cap SymbolsOf(pushed[t]) = {}
    PROVE  Undisturbed(t)'
<1>1. t \in 1 .. Len(pushed) /\ \A n \in pushed[t].nodes : n.file \in pushed[t].files
  BY PushedFiles DEF Undisturbed
<1>2. ~OnTask(w, t)'
  BY DEF OffTask, OnTask
<1>3. ASSUME NEW v \in Workers, OffTask(v, t)' PROVE Apart(t, v)'
  <2>1. CASE v = w
    <3>1. Apart(t, w) /\ work'[w].msg = work[w].msg
      BY <1>3, <2>1 DEF Undisturbed, OffTask
    <3> QED
      BY <1>3, <2>1, <3>1 DEF Apart, SymbolsOf, OffTask
  <2>2. CASE v # w
    <3>1. work'[v] = work[v] /\ OffTask(v, t)
      BY <1>3, <2>2 DEF OthersRest, OffTask
    <3>2. Apart(t, v)
      BY <3>1 DEF Undisturbed
    <3> QED
      BY <3>1, <3>2 DEF Apart
  <2> QED
    BY <2>1, <2>2
<1>4. \A v \in Workers : OnTask(v, t)' => OnTask(v, t) /\ v # w /\ work'[v] = work[v]
  BY <1>2 DEF OthersRest, OnTask
<1>5. \A v \in Workers : OnTask(v, t) => OnTask(v, t)'
  BY DEF OthersRest, OnTask, OffTask
<1>6. \A u, v \in Workers : OnTask(u, t)' /\ OnTask(v, t)' => u = v
  BY <1>4 DEF Undisturbed
<1>7. ASSUME NEW v \in Workers, OnTask(v, t)' PROVE InHand(t, v)'
  BY <1>1, <1>4, <1>7, InHandSpared DEF Undisturbed
<1>8. (\A v \in Workers : ~OnTask(v, t)') => (Filled(t) /\ Joined(t))'
  BY <1>1, <1>5, FilledSpared, JoinedSpared DEF Undisturbed
<1> QED
  BY <1>1, <1>3, <1>6, <1>7, <1>8 DEF Undisturbed

\* A step on the push itself.
LEMMA OwnStep ==
    ASSUME NEW t, Undisturbed(t), NEW w \in Workers, OnTask(w, t), OthersRest(w),
           pushed' = pushed,
           work'[w] # Idle => work'[w].msg = work[w].msg /\ InHand(t, w)',
           work'[w] = Idle => Filled(t)' /\ Joined(t)'
    PROVE  Undisturbed(t)'
<1>1. \A v \in Workers : v # w => work'[v] = work[v] /\ ~OnTask(v, t)
  BY DEF Undisturbed, OthersRest
<1>2. \A v \in Workers : OnTask(v, t)' => v = w
  BY <1>1 DEF OnTask
<1>3. ASSUME NEW v \in Workers, OffTask(v, t)' PROVE Apart(t, v)'
  <2>1. v # w /\ OffTask(v, t) /\ work'[v] = work[v]
    BY <1>1, <1>3 DEF OnTask, OffTask
  <2>2. Apart(t, v)
    BY <2>1 DEF Undisturbed
  <2> QED
    BY <2>1, <2>2 DEF Apart
<1>4. ASSUME NEW v \in Workers, OnTask(v, t)' PROVE InHand(t, v)'
  BY <1>2, <1>4 DEF OnTask
<1>5. (\A v \in Workers : ~OnTask(v, t)') => (Filled(t) /\ Joined(t))'
  BY DEF OnTask
<1> QED
  BY <1>2, <1>3, <1>4, <1>5 DEF Undisturbed

LEMMA PushAlone ==
    ASSUME IInv, AloneInv, NEW p \in Payloads, push_code_index(p)
    PROVE  AloneInv'
<1> SUFFICES ASSUME NEW t \in alone PROVE Undisturbed(t)'
  BY DEF AloneInv, push_code_index
<1>1. /\ pushed \in Seq(Payloads) /\ pushed' = Append(pushed, p)
      /\ UNCHANGED <<nodes, edges, work>>
  BY DEF push_code_index, IInv, TypeOK, graph
<1>2. \A u \in 1 .. Len(pushed) : pushed'[u] = pushed[u] /\ u \in 1 .. Len(pushed')
  BY <1>1
<1>3. Undisturbed(t) /\ t \in 1 .. Len(pushed)
  BY DEF AloneInv, Undisturbed
<1>4. pushed'[t] = pushed[t] /\ t \in 1 .. Len(pushed')
  BY <1>2, <1>3
<1>5. \A w \in Workers : OffTask(w, t)' => OffTask(w, t) /\ pushed'[work[w].msg.task] = pushed[work[w].msg.task]
  BY <1>1, <1>2 DEF OffTask, IInv, TasksWerePushed
<1>6. \A w \in Workers : OffTask(w, t)' => Apart(t, w)'
  BY <1>1, <1>3, <1>4, <1>5 DEF Undisturbed, Apart
<1>7. \A w \in Workers : OnTask(w, t)' <=> OnTask(w, t)
  BY <1>1 DEF OnTask
<1>8. \A r : InFiles(t, r)' <=> InFiles(t, r)
  BY <1>4 DEF InFiles
<1>9. (Filled(t)' <=> Filled(t)) /\ (Joined(t)' <=> Joined(t))
  BY <1>1, <1>4, <1>8 DEF Filled, Joined
<1>10. \A w \in Workers : InHand(t, w) => InHand(t, w)'
  <2>1. RowsOf(EndsOf(t))' = RowsOf(EndsOf(t))
    BY <1>1, <1>4 DEF RowsOf, EndsOf
  <2> QED
    BY <1>1, <1>8, <1>9, <2>1 DEF InHand, SeesAll
<1> QED
  BY <1>3, <1>4, <1>6, <1>7, <1>9, <1>10 DEF Undisturbed

\* A new attempt takes no push that it has not yet passed out of the set "alone".
LEMMA TakeAlone ==
    ASSUME IInv, AloneInv, NEW w \in Workers, NEW m \in queue, Take(w, m)
    PROVE  AloneInv'
<1> DEFINE p == pushed[m.task]
           listed == {n \in nodes : n.file \in p.files}
           Touches(q, S) == p.files \cap q.files # {} \/ S \cap SymbolsOf(q) # {}
           rivals == {u \in 1 .. Len(pushed) :
                         u = m.task \/ Touches(pushed[u], SymbolsOf(p) \cup SymbolsIn(listed))}
           busy == {v \in Workers : work[v] # Idle
                       /\ \/ work[v].msg.task \in rivals
                          \/ SymbolsIn(work[v].seen) \cap SymbolsOf(p) # {}}
           a == attempts + 1
           job == [step |-> "remove", msg |-> m, attempt |-> a, seen |-> listed]
<1>1. /\ work[w] = Idle /\ work' = [work EXCEPT ![w] = job] /\ attempts < MaxAttempts
      /\ alone' = (alone \ rivals) \cup (IF busy = {} THEN {m.task} ELSE {})
      /\ UNCHANGED <<nodes, edges, pushed>>
  BY DEF Take, graph
<1>2. /\ listed \in SUBSET Node /\ a \in 1 .. MaxAttempts /\ m \in Message
      /\ m.task \in 1 .. Len(pushed)
  BY <1>1, BoundsAssumption DEF IInv, TypeOK, TasksWerePushed
<1>3. \A u \in 1 .. Len(pushed) : u \notin rivals =>
         /\ u # m.task /\ p.files \cap pushed[u].files = {}
         /\ (SymbolsOf(p) \cup SymbolsIn(listed)) \cap SymbolsOf(pushed[u]) = {}
  OBVIOUS
<1>4. \A v \in Workers : v \notin busy /\ work[v] # Idle =>
         work[v].msg.task \notin rivals /\ SymbolsIn(work[v].seen) \cap SymbolsOf(p) = {}
  OBVIOUS
<1>5. m.task \in rivals
  BY <1>2
<1>6. \A r \in nodes : r.file \in p.files => r \in listed
  OBVIOUS
<1> HIDE DEF listed, rivals, busy, a
<1>7. job \in Job /\ job.step = "remove" /\ job.msg = m /\ job.seen = listed
  BY <1>2 DEF Job, JobSteps
<1> HIDE DEF job
<1>8. work'[w] = job /\ job # Idle /\ OthersRest(w)
  BY <1>1, <1>7, IdleAssumption DEF IInv, TypeOK, OthersRest
<1>9. OnTask(w, m.task)' /\ \A u : u # m.task => OffTask(w, u)'
  BY <1>7, <1>8 DEF OnTask, OffTask
<1>10. ASSUME NEW t \in alone, t \notin rivals PROVE Undisturbed(t)'
  <2>1. Undisturbed(t) /\ t \in 1 .. Len(pushed) /\ t # m.task
    BY <1>3, <1>10 DEF AloneInv, Undisturbed
  <2>2. /\ p.files \cap pushed[t].files = {}
        /\ (SymbolsOf(p) \cup SymbolsIn(listed)) \cap SymbolsOf(pushed[t]) = {}
    BY <1>3, <1>10, <2>1
  <2>3. Apart(t, w)'
    BY <1>1, <1>7, <1>8, <2>2 DEF Apart, SymbolsOf
  <2>4. \A v \in Workers : OnTask(v, t)' => v # w /\ OnTask(v, t) /\ work'[v] = work[v]
    BY <1>7, <1>8, <2>1 DEF OnTask, OthersRest
  <2>5. \A v \in Workers : OnTask(v, t) => OnTask(v, t)'
    BY <1>1, <1>8 DEF OnTask, OthersRest
  <2>6. ASSUME NEW v \in Workers, v # w, OffTask(v, t)' PROVE Apart(t, v)'
    <3>1. work'[v] = work[v] /\ OffTask(v, t)
      BY <1>8, <2>6 DEF OffTask, OthersRest
    <3>2. Apart(t, v)
      BY <2>1, <3>1 DEF Undisturbed
    <3> QED
      BY <1>1, <3>1, <3>2 DEF Apart
  <2>7. (Filled(t)' <=> Filled(t)) /\ (Joined(t)' <=> Joined(t))
    BY <1>1 DEF Filled, Joined, InFiles
  <2>8. ASSUME NEW v \in Workers, OnTask(v, t)' PROVE InHand(t, v)'
    <3>1. work'[v] = work[v] /\ InHand(t, v)
      BY <2>1, <2>4, <2>8 DEF Undisturbed
    <3> QED
      BY <1>1, <2>7, <3>1 DEF InHand, SeesAll, InFiles, RowsOf, EndsOf
  <2>9. t \in 1 .. Len(pushed')
    BY <1>1, <2>1
  <2>10. \A v \in Workers : OffTask(v, t)' => Apart(t, v)'
    BY <2>3, <2>6
  <2>11. \A u, v \in Workers : OnTask(u, t)' /\ OnTask(v, t)' => u = v
    BY <2>1, <2>4 DEF Undisturbed
  <2>12. (\A v \in Workers : ~OnTask(v, t)') => (Filled(t) /\ Joined(t))'
    BY <2>1, <2>5, <2>7 DEF Undisturbed
  <2> QED
    BY <2>8, <2>9, <2>10, <2>11, <2>12 DEF Undisturbed
<1>11. ASSUME busy = {}, NEW t, t = m.task PROVE Undisturbed(t)'
  <2>1. \A v \in Workers : v # w /\ work[v] # Idle =>
           work[v].msg.task \notin rivals /\ SymbolsIn(work[v].seen) \cap SymbolsOf(p) = {}
    BY <1>4, <1>11
  <2>2. \A v \in Workers : OnTask(v, t)' => v = w
    BY <1>5, <1>8, <1>11, <2>1 DEF OnTask, OthersRest
  <2>3. ASSUME NEW v \in Workers, OffTask(v, t)' PROVE Apart(t, v)'
    <3>1. v # w /\ work'[v] = work[v] /\ work[v] # Idle
      BY <1>7, <1>8, <1>11, <2>3 DEF OffTask, OthersRest
    <3>2. work[v].msg.task \in 1 .. Len(pushed)
      BY <3>1 DEF IInv, TasksWerePushed
    <3>3. /\ p.files \cap pushed[work[v].msg.task].files = {}
          /\ SymbolsOf(p) \cap SymbolsOf(pushed[work[v].msg.task]) = {}
          /\ SymbolsIn(work[v].seen) \cap SymbolsOf(p) = {}
      BY <1>3, <2>1, <3>1, <3>2
    <3> QED
      BY <1>1, <1>11, <3>1, <3>3 DEF Apart
  <2>4. InHand(t, w)'
    <3>1. work'[w].step = "remove" /\ work'[w].seen = listed
      BY <1>7, <1>8
    <3>2. SeesAll(w, {r \in nodes : InFiles(t, r)})'
      BY <1>1, <1>6, <1>11, <3>1 DEF SeesAll, InFiles, Ids
    <3> QED
      BY <3>1, <3>2 DEF InHand, Early
  <2>5. OnTask(w, t)'
    BY <1>9, <1>11
  <2> QED
    BY <1>1, <1>2, <1>11, <2>2, <2>3, <2>4, <2>5 DEF Undisturbed
<1> SUFFICES ASSUME NEW t \in alone' PROVE Undisturbed(t)'
  BY DEF AloneInv
<1>12. (t \in alone /\ t \notin rivals) \/ (busy = {} /\ t = m.task)
  BY <1>1
<1> QED
  BY <1>10, <1>11, <1>12

\* Steps of a worker, seen from a push that is alone: its own step, or that of
\* another push that spares it.
LEMMA WorkerAlone ==
    ASSUME IInv, AloneInv, NEW w \in Workers, work[w] # Idle, OthersRest(w), pushed' = pushed,
           alone' \subseteq alone,
           work'[w] # Idle => work'[w].msg = work[w].msg,
           \A t \in alone' : Undisturbed(t) /\ OffTask(w, t) =>
              /\ Spares(t)
              /\ work'[w] # Idle /\ work'[w].step \in Early =>
                    SymbolsIn(work'[w].seen) \cap SymbolsOf(pushed[t]) = {},
           \A t \in alone' : Undisturbed(t) /\ OnTask(w, t) /\ InHand(t, w) =>
              /\ work'[w] # Idle => InHand(t, w)'
              /\ work'[w] = Idle => Filled(t)' /\ Joined(t)'
    PROVE  AloneInv'
<1> SUFFICES ASSUME NEW t \in alone' PROVE Undisturbed(t)'
  BY DEF AloneInv
<1>1. Undisturbed(t)
  BY DEF AloneInv
<1>2. CASE OffTask(w, t)
  BY <1>1, <1>2, OthersStep
<1>3. CASE OnTask(w, t)
  <2>1. InHand(t, w)
    BY <1>1, <1>3 DEF Undisturbed
  <2> QED
    BY <1>1, <1>3, <2>1, OwnStep
<1> QED
  BY <1>2, <1>3 DEF OffTask, OnTask

\* Rows and edges that a step leaves alone are spared.
LEMMA UntouchedSpared ==
    ASSUME NEW t, nodes' = nodes, edges \subseteq edges' PROVE Spares(t)
  BY DEF Spares

LEMMA RemoveAlone == ASSUME IInv, AloneInv, NEW w \in Workers, Remove(w) PROVE AloneInv'
<1>1. /\ AtStep(w, "remove") /\ Rest /\ alone' = alone
      /\ nodes' = {n \in nodes : n.id \notin Ids(work[w].seen)}
      /\ edges' = {e \in edges : ~Incident(e, Ids(work[w].seen))}
      /\ \/ Of(w).nodes = {} /\ EndsAs(w, "done")
         \/ Of(w).nodes # {} /\ GoesTo(w, "select", work[w].seen)
  BY RemoveDoes
<1>2. /\ work[w] # Idle /\ work[w].step = "remove" /\ OthersRest(w) /\ pushed' = pushed
      /\ work'[w] # Idle => work'[w].msg = work[w].msg /\ work'[w].seen = work[w].seen
  BY <1>1 DEF AtStep, Rest, EndsAs, GoesTo
<1>3. ASSUME NEW t \in alone', Undisturbed(t), OffTask(w, t)
      PROVE  /\ Spares(t)
             /\ work'[w] # Idle => SymbolsIn(work'[w].seen) \cap SymbolsOf(pushed[t]) = {}
  <2>1. SymbolsIn(work[w].seen) \cap SymbolsOf(pushed[t]) = {}
    BY <1>2, <1>3 DEF Undisturbed, Apart, Early
  <2>2. \A i \in Ids(work[w].seen) : i.symbol \notin SymbolsOf(pushed[t])
    BY <2>1 DEF Ids, SymbolsIn
  <2>3. Spares(t)
    BY <1>1, <2>2 DEF Spares, Incident
  <2> QED
    BY <1>2, <2>1, <2>3
<1>4. ASSUME NEW t \in alone', Undisturbed(t), OnTask(w, t), InHand(t, w)
      PROVE  /\ work'[w] # Idle => InHand(t, w)'
             /\ work'[w] = Idle => Filled(t)' /\ Joined(t)'
  <2>1. \A r \in nodes' : ~InFiles(t, r)'
    BY <1>1, <1>2, <1>4 DEF InHand, SeesAll, InFiles
  <2>2. work'[w] # Idle => InHand(t, w)'
    BY <1>1, <2>1 DEF InHand, GoesTo, EndsAs, Early
  <2>3. work'[w] = Idle => pushed'[t].nodes = {}
    BY <1>1, <1>2, <1>4 DEF GoesTo, EndsAs, OnTask, Of
  <2> QED
    BY <2>1, <2>2, <2>3 DEF Filled, Joined
<1> QED
  BY <1>1, <1>2, <1>3, <1>4, WorkerAlone

LEMMA SelectAlone == ASSUME IInv, AloneInv, NEW w \in Workers, Select(w) PROVE AloneInv'
<1>1. /\ AtStep(w, "select") /\ Rest /\ UNCHANGED <<nodes, edges, alone>>
      /\ GoesTo(w, "store", RowsOf(SymbolsOf(Of(w))))
  BY SelectDoes
<1>2. /\ work[w] # Idle /\ work[w].step = "select" /\ OthersRest(w) /\ pushed' = pushed
      /\ work'[w] # Idle /\ work'[w].msg = work[w].msg /\ work'[w].step = "store"
      /\ work'[w].seen = RowsOf(SymbolsOf(Of(w)))
  BY <1>1 DEF AtStep, Rest, GoesTo
<1>3. ASSUME NEW t \in alone', Undisturbed(t), OffTask(w, t)
      PROVE  Spares(t) /\ SymbolsIn(work'[w].seen) \cap SymbolsOf(pushed[t]) = {}
  <2>1. SymbolsOf(pushed[t]) \cap SymbolsOf(Of(w)) = {}
    BY <1>3 DEF Undisturbed, Apart, Of
  <2>2. SymbolsIn(work'[w].seen) \subseteq SymbolsOf(Of(w))
    BY <1>2 DEF SymbolsIn, RowsOf
  <2> QED
    BY <1>1, <2>1, <2>2, UntouchedSpared
<1>4. ASSUME NEW t \in alone', InHand(t, w) PROVE InHand(t, w)'
  <2>1. \A r \in nodes : ~InFiles(t, r)
    BY <1>2, <1>4 DEF InHand
  <2> QED
    BY <1>1, <1>2, <2>1 DEF InHand, InFiles, Early
<1> QED
  BY <1>1, <1>2, <1>3, <1>4, WorkerAlone

LEMMA StoreAlone == ASSUME IInv, AloneInv, NEW w \in Workers, Store(w) PROVE AloneInv'
<1>1. /\ AtStep(w, "store") /\ StillSo(w) /\ Rest /\ UNCHANGED <<edges, alone>>
      /\ nodes' = {n \in nodes : n.id \notin Ids(work[w].seen)}
                    \cup {RowFor(w, n) : n \in Of(w).nodes}
      /\ GoesTo(w, "resolve", work[w].seen)
  BY StoreDoes
<1>2. /\ work[w] # Idle /\ work[w].step = "store" /\ OthersRest(w) /\ pushed' = pushed
      /\ work'[w] # Idle /\ work'[w].msg = work[w].msg /\ work'[w].step = "resolve"
  BY <1>1 DEF AtStep, Rest, GoesTo
<1>3. ASSUME NEW n \in Of(w).nodes
      PROVE  LET r == RowFor(w, n)
             IN  /\ r \in nodes' /\ r.id.symbol = n.symbol /\ r.file = n.file
                 /\ r.by = work[w].msg.task /\ r.file \in Of(w).files
                 /\ n = [symbol |-> n.symbol, file |-> n.file]
  <2> DEFINE r == RowFor(w, n)
  <2>1. r.id.symbol = n.symbol /\ r \in nodes'
    BY <1>1, RowForSymbol
  <2>2. r.file = n.file /\ r.by = work[w].msg.task
    BY DEF RowFor
  <2>3. Of(w) \in Payload /\ n.file \in Of(w).files
    BY <1>2, WorkTypes, PayloadsAssumption
  <2>4. n \in [symbol : Symbols, file : Files]
    BY <2>3 DEF Payload
  <2>5. n = [symbol |-> n.symbol, file |-> n.file]
    BY <2>4
  <2> QED
    BY <2>1, <2>2, <2>3, <2>5
<1>4. \A r \in nodes' : r \in nodes \/ \E n \in Of(w).nodes : r = RowFor(w, n)
  BY <1>1
<1>5. ASSUME NEW t \in alone', Undisturbed(t), OffTask(w, t) PROVE Spares(t)
  <2>1. /\ pushed[t].files \cap Of(w).files = {}
        /\ SymbolsIn(work[w].seen) \cap SymbolsOf(pushed[t]) = {}
    BY <1>2, <1>5 DEF Undisturbed, Apart, Of, Early
  <2>2. \A i \in Ids(work[w].seen) : i.symbol \notin SymbolsOf(pushed[t])
    BY <2>1 DEF Ids, SymbolsIn
  <2>3. \A r \in nodes' : InFiles(t, r) => r \in nodes
    BY <1>3, <1>4, <2>1 DEF InFiles
  <2> QED
    BY <1>1, <2>2, <2>3 DEF Spares
<1>6. ASSUME NEW t \in alone', OnTask(w, t), InHand(t, w) PROVE InHand(t, w)'
  <2>1. Of(w) = pushed[t] /\ work[w].msg.task = t /\ \A r \in nodes : ~InFiles(t, r)
    BY <1>2, <1>6 DEF OnTask, Of, InHand
  <2>2. ASSUME NEW r \in nodes', InFiles(t, r)'
        PROVE  r.by = t /\ [symbol |-> r.id.symbol, file |-> r.file] \in pushed'[t].nodes
    <3>1. ~(r \in nodes)
      BY <1>2, <2>1, <2>2 DEF InFiles
    <3>2. PICK n \in Of(w).nodes : r = RowFor(w, n)
      BY <1>4, <3>1
    <3> QED
      BY <1>2, <1>3, <2>1, <3>2
  <2>3. ASSUME NEW n \in pushed'[t].nodes
        PROVE  \E r \in nodes' : r.id.symbol = n.symbol /\ r.file = n.file
    BY <1>2, <1>3, <2>1
  <2>4. Filled(t)'
    BY <2>2, <2>3 DEF Filled
  <2> QED
    BY <1>2, <2>4 DEF InHand, Early
<1> QED
  BY <1>1, <1>2, <1>5, <1>6, WorkerAlone DEF Early

LEMMA ResolveAlone == ASSUME IInv, AloneInv, NEW w \in Workers, Resolve(w) PROVE AloneInv'
<1>1. /\ AtStep(w, "resolve") /\ Rest /\ UNCHANGED <<nodes, edges, alone>>
      /\ GoesTo(w, "join", RowsOf(UNION {{e[1], e[2]} : e \in Of(w).edges}))
  BY ResolveDoes
<1>2. /\ work[w] # Idle /\ work[w].step = "resolve" /\ OthersRest(w) /\ pushed' = pushed
      /\ work'[w] # Idle /\ work'[w].msg = work[w].msg /\ work'[w].step = "join"
      /\ work'[w].seen = RowsOf(UNION {{e[1], e[2]} : e \in Of(w).edges})
  BY <1>1 DEF AtStep, Rest, GoesTo
<1>3. ASSUME NEW t \in alone', OnTask(w, t), InHand(t, w) PROVE InHand(t, w)'
  <2>1. Filled(t)'
    BY <1>1, <1>2, <1>3 DEF InHand, Filled, InFiles
  <2>2. work'[w].seen = RowsOf(EndsOf(t))
    BY <1>2, <1>3 DEF EndsOf, Of, OnTask
  <2>3. RowsOf(EndsOf(t))' = RowsOf(EndsOf(t))
    BY <1>1, <1>2 DEF RowsOf, EndsOf
  <2>4. SeesAll(w, {r \in RowsOf(EndsOf(t)) : InFiles(t, r)})'
    BY <2>2, <2>3 DEF SeesAll, Ids
  <2> QED
    BY <1>2, <2>1, <2>4 DEF InHand, Early
<1> QED
  BY <1>1, <1>2, <1>3, WorkerAlone, UntouchedSpared DEF Early

LEMMA JoinAlone == ASSUME IInv, AloneInv, NEW w \in Workers, Join(w) PROVE AloneInv'
<1>1. /\ AtStep(w, "join") /\ Rest /\ UNCHANGED <<nodes, alone>>
      /\ edges' = edges \cup Resolved(w) /\ EndsAs(w, "done")
  BY JoinDoes
<1>2. /\ work[w] # Idle /\ work[w].step = "join" /\ OthersRest(w) /\ pushed' = pushed
      /\ work'[w] = Idle
  BY <1>1 DEF AtStep, Rest, EndsAs
<1>3. ASSUME NEW t \in alone', OnTask(w, t), InHand(t, w) PROVE Filled(t)' /\ Joined(t)'
  <2>1. Filled(t)'
    BY <1>1, <1>2, <1>3 DEF InHand, Filled, InFiles
  <2>2. ASSUME NEW r \in nodes, NEW s \in nodes, InFiles(t, r), InFiles(t, s),
               <<r.id.symbol, s.id.symbol>> \in pushed[t].edges
        PROVE  [source |-> r.id, target |-> s.id] \in Resolved(w)
    <3> DEFINE e == <<r.id.symbol, s.id.symbol>>
    <3>1. e \in pushed[t].edges /\ e[1] = r.id.symbol /\ e[2] = s.id.symbol
      BY <2>2
    <3> HIDE DEF e
    <3>2. r.id.symbol \in EndsOf(t) /\ s.id.symbol \in EndsOf(t)
      BY <3>1 DEF EndsOf
    <3>3. r.id \in Ids(work[w].seen) /\ s.id \in Ids(work[w].seen)
      BY <1>2, <1>3, <2>2, <3>2 DEF InHand, SeesAll, RowsOf
    <3>4. PICK q1 \in work[w].seen, q2 \in work[w].seen : q1.id = r.id /\ q2.id = s.id
      BY <3>3 DEF Ids
    <3> DEFINE both == <<q1, q2>>
    <3>5. both \in work[w].seen \X work[w].seen /\ both[1] = q1 /\ both[2] = q2
      OBVIOUS
    <3> HIDE DEF both
    <3>6. <<both[1].id.symbol, both[2].id.symbol>> \in Of(w).edges
      BY <1>3, <2>2, <3>4, <3>5 DEF OnTask, Of
    <3>7. [source |-> both[1].id, target |-> both[2].id] \in Resolved(w)
      BY <3>5, <3>6 DEF Resolved
    <3> QED
      BY <3>4, <3>5, <3>7
  <2>3. Joined(t)'
    BY <1>1, <1>2, <2>2 DEF Joined, InFiles
  <2> QED
    BY <2>1, <2>3
<1> QED
  BY <1>1, <1>2, <1>3, WorkerAlone, UntouchedSpared

\* An attempt that goes wrong leaves its push to itself no more.
LEMMA WrongAlone ==
    ASSUME IInv, AloneInv, NEW w \in Workers, FailEmbedding(w) \/ Fail(w) \/ Crash(w)
    PROVE  AloneInv'
<1>1. GoesWrong(w) /\ (GoesTo(w, "failed", work[w].seen) \/ EndsAs(w, "lost"))
  BY FailEmbeddingDoes, FailDoes, CrashDoes
<1>2. /\ work[w] # Idle /\ OthersRest(w) /\ pushed' = pushed /\ nodes' = nodes /\ edges' = edges
      /\ alone' = alone \ {work[w].msg.task}
      /\ work'[w] # Idle => work'[w].msg = work[w].msg /\ work'[w].step = "failed"
  BY <1>1 DEF GoesWrong, GoesTo, EndsAs
<1>3. \A t \in alone' : ~OnTask(w, t)
  BY <1>2 DEF OnTask
<1> QED
  BY <1>2, <1>3, WorkerAlone, UntouchedSpared DEF Early

\* A push whose attempt has failed is not alone.
LEMMA FailedAlone ==
    ASSUME IInv, AloneInv, NEW w \in Workers,
           LogFailure(w) \/ LogFail(w) \/ Retry(w) \/ RetryFail(w)
    PROVE  AloneInv'
<1>1. /\ work[w] # Idle /\ work[w].step \in {"failed", "logged"}
      /\ OthersRest(w) /\ UNCHANGED <<nodes, edges, pushed, alone>>
      /\ work'[w] # Idle => work'[w].msg = work[w].msg /\ work'[w].step = "logged"
  BY LogFailureDoes, LogFailDoes, RetryDoes, RetryFailDoes DEF AtStep, GoesTo, EndsAs
<1>2. \A t \in alone' : ~InHand(t, w)
  BY <1>1 DEF InHand, Early
<1> QED
  BY <1>1, <1>2, WorkerAlone, UntouchedSpared DEF Early

LEMMA StepAlone == IInv /\ AloneInv /\ [Next]_vars => AloneInv'
<1> SUFFICES ASSUME IInv, AloneInv, [Next]_vars PROVE AloneInv'
  OBVIOUS
<1>1. ASSUME NEW w \in Workers, index_code_batch(w) PROVE AloneInv'
  <2>1. ASSUME NEW m \in queue, Take(w, m) PROVE AloneInv'
    BY <2>1, TakeAlone
  <2> QED
    BY <1>1, <2>1, RemoveAlone, SelectAlone, StoreAlone, ResolveAlone, JoinAlone, WrongAlone,
       FailedAlone DEF index_code_batch
<1>2. CASE UNCHANGED vars
  <2>1. UNCHANGED <<nodes, edges, pushed, work, alone>>
    BY <1>2 DEF vars, graph
  <2> SUFFICES ASSUME NEW t \in alone PROVE Undisturbed(t)'
    BY <2>1 DEF AloneInv
  <2>2. Undisturbed(t)
    BY DEF AloneInv
  <2>3. (Filled(t)' <=> Filled(t)) /\ (Joined(t)' <=> Joined(t))
    BY <2>1 DEF Filled, Joined, InFiles
  <2>4. \A w \in Workers : InHand(t, w) => InHand(t, w)'
    BY <2>1, <2>3 DEF InHand, SeesAll, InFiles, RowsOf, EndsOf
  <2>5. \A w \in Workers : Apart(t, w) => Apart(t, w)'
    BY <2>1 DEF Apart
  <2> QED
    BY <2>1, <2>2, <2>3, <2>4, <2>5 DEF Undisturbed, OffTask, OnTask
<1> QED
  BY <1>1, <1>2, PushAlone, WrongAlone DEF Next

\* A push that came to its end undisturbed is what the graph shows of its files.
THEOREM UndisturbedPushesReplace == Spec => []PushReplacesItsFiles
<1>1. IInv /\ AloneInv => PushReplacesItsFiles
  <2> SUFFICES ASSUME IInv, AloneInv, NEW t \in alone,
                      \A w \in Workers : work[w] # Idle => work[w].msg.task # t
               PROVE  LET p == pushed[t]
                          shown == {n \in nodes : n.file \in p.files}
                      IN  /\ {[symbol |-> n.id.symbol, file |-> n.file] : n \in shown} = p.nodes
                          /\ \A n \in shown : n.by = t
                          /\ \A n, m \in shown :
                                <<n.id.symbol, m.id.symbol>> \in p.edges =>
                                    [source |-> n.id, target |-> m.id] \in edges
    BY DEF PushReplacesItsFiles
  <2> DEFINE p == pushed[t]
             shown == {n \in nodes : n.file \in p.files}
  <2>1. Filled(t) /\ Joined(t) /\ t \in 1 .. Len(pushed)
    BY DEF AloneInv, Undisturbed, OnTask
  <2>2. ASSUME NEW n \in shown
        PROVE  n.by = t /\ [symbol |-> n.id.symbol, file |-> n.file] \in p.nodes
    <3>1. n \in nodes /\ InFiles(t, n)
      BY DEF InFiles
    <3> QED
      BY <2>1, <3>1 DEF Filled
  <2>3. ASSUME NEW n \in p.nodes
        PROVE  n \in {[symbol |-> r.id.symbol, file |-> r.file] : r \in shown}
    <3>1. p \in Payload /\ n.file \in p.files
      BY <2>1, PushedFiles
    <3>2. n = [symbol |-> n.symbol, file |-> n.file]
      BY <3>1 DEF Payload
    <3>3. PICK r \in nodes : r.id.symbol = n.symbol /\ r.file = n.file
      BY <2>1 DEF Filled
    <3> QED
      BY <3>1, <3>2, <3>3
  <2>4. {[symbol |-> n.id.symbol, file |-> n.file] : n \in shown} = p.nodes
    BY <2>2, <2>3
  <2>5. \A n, m \in shown : <<n.id.symbol, m.id.symbol>> \in p.edges =>
                               [source |-> n.id, target |-> m.id] \in edges
    BY <2>1 DEF Joined, InFiles
  <2> QED
    BY <2>2, <2>4, <2>5
<1> QED
  BY <1>1, InitIInv, StepIInv, InitAlone, StepAlone, PTL DEF Spec
=============================================================================
