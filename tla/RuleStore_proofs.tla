--------------------------- MODULE RuleStore_proofs ---------------------------
(***************************************************************************)
(* Proofs about RuleStore for every set of streams, callers and texts.     *)
(***************************************************************************)
EXTENDS RuleStore, TLAPS, FiniteSetTheorems

\* A legal request stays one when a step fills in a field.
LEMMA AcceptedType ==
    ASSUME NEW patch \in BOOLEAN, NEW s \in Streams, NEW b \in Bodies
    PROVE  Accepted(patch, s, b) \in Request
BY DEF Accepted, Request

LEMMA RequestFields ==
    ASSUME NEW r \in Request
    PROVE  /\ r.stream \in Streams /\ r.body \in Bodies
           /\ r.version \in Nat /\ r.id \in Nat
           /\ r.seen \subseteq [stream : Streams, id : Nat]
           /\ r.newOption \in BOOLEAN
BY DEF Request

LEMMA ReadUpdate ==
    ASSUME NEW r \in Request, NEW n \in Nat, NEW o \in BOOLEAN
    PROVE  [r EXCEPT !.version = n, !.newOption = o] \in Request
BY DEF Request

LEMMA VersionUpdate ==
    ASSUME NEW r \in Request, NEW n \in Nat
    PROVE  [r EXCEPT !.version = n] \in Request
BY DEF Request

LEMMA IdUpdate ==
    ASSUME NEW r \in Request, NEW n \in Nat
    PROVE  [r EXCEPT !.id = n] \in Request
BY DEF Request

LEMMA SeenUpdate ==
    ASSUME NEW r \in Request, NEW C \in SUBSET [stream : Streams, id : Nat]
    PROVE  [r EXCEPT !.seen = C] \in Request
BY DEF Request

LEMMA SeedRowsType ==
    ASSUME NEW S \in SUBSET Seeds
    PROVE  SeedRows(S) \subseteq
               [id : Nat, stream : Streams, version : Nat \ {0}, body : Bodies]
BY StreamsAssumption, BoundsAssumption DEF SeedRows, Row, Bodies

LEMMA SeedsMissingType == SeedsMissing \subseteq Seeds
BY DEF SeedsMissing

\* The number a publish reads is a positive one, above every version.
LEMMA NextVersionType ==
    ASSUME TypeOK, NEW s \in Streams, NEW n \in NextVersion(s)
    PROVE  n \in Nat \ {0}
<1>1. PICK v \in {0} \cup Versions(s) : n = v + 1
    BY DEF NextVersion
<1>2. v \in Nat
    BY DEF TypeOK, Versions, RowsOf
<1> QED
    BY <1>1, <1>2

LEMMA BaseBodyType ==
    ASSUME TypeOK, NEW s \in Streams
    PROVE  BaseBody(s) \in Bodies
<1>1. PatchBase(s) \subseteq rules
    BY DEF PatchBase, Latest, RowsOf
<1> QED
    BY <1>1 DEF BaseBody, TypeOK, Bodies

-----------------------------------------------------------------------------
(* Types *)

\* How a handler moves on keeps the types of pc and req.
LEMMA GotoType ==
    ASSUME TypeOK, NEW p \in Callers, NEW step \in Steps, Goto(p, step)
    PROVE  pc' \in [Callers -> Steps]
BY DEF TypeOK, Goto

LEMMA RememberType ==
    ASSUME TypeOK, NEW p \in Callers, NEW r \in Request, NEW step \in Steps,
           step = "insert" => r.version # 0,
           Goto(p, step), Remember(p, r)
    PROVE  /\ pc' \in [Callers -> Steps]
           /\ req' \in [Callers -> Request \cup {NoRequest}]
           /\ \A q \in Callers :
                 /\ pc'[q] \in PublishSteps \cup {"delete"} => req'[q] \in Request
                 /\ pc'[q] = "insert" => req'[q].version # 0
BY DEF TypeOK, Goto, Remember

LEMMA ReturnType ==
    ASSUME TypeOK, NEW p \in Callers, Return(p)
    PROVE  /\ pc' \in [Callers -> Steps]
           /\ req' \in [Callers -> Request \cup {NoRequest}]
           /\ \A q \in Callers :
                 /\ pc'[q] \in PublishSteps \cup {"delete"} => req'[q] \in Request
                 /\ pc'[q] = "insert" => req'[q].version # 0
BY DEF TypeOK, Return, Goto, Remember, Steps, PublishSteps

LEMMA StayType ==
    ASSUME TypeOK, NEW p \in Callers, NEW step \in Steps, Goto(p, step),
           UNCHANGED req, step # "insert",
           pc[p] \in PublishSteps \/ step \notin PublishSteps \cup {"delete"}
    PROVE  /\ pc' \in [Callers -> Steps]
           /\ req' \in [Callers -> Request \cup {NoRequest}]
           /\ \A q \in Callers :
                 /\ pc'[q] \in PublishSteps \cup {"delete"} => req'[q] \in Request
                 /\ pc'[q] = "insert" => req'[q].version # 0
BY DEF TypeOK, Goto

LEMMA TypeStep == TypeOK /\ [Next]_vars => TypeOK'
<1> SUFFICES ASSUME TypeOK, [Next]_vars PROVE TypeOK'
    OBVIOUS
<1> USE DEF AtStep, Serving, Callers, starting
<1>1. CASE StartStep
  <2>1. CASE StartMigration
    BY <2>1 DEF StartMigration, RowsIn, Owners, TypeOK
  <2>2. CASE CommitMigration
    BY <2>2 DEF CommitMigration, TypeOK
  <2>3. CASE Seed
    <3>1. SeedRows(SeedsMissing) \subseteq
             [id : Nat, stream : Streams, version : Nat \ {0}, body : Bodies]
      BY SeedRowsType, SeedsMissingType
    <3> QED
      BY <2>3, <3>1 DEF Seed, TypeOK
  <2> QED
    BY <1>1, <2>1, <2>2, <2>3 DEF StartStep
<1>2. ASSUME NEW p \in Publishers, PublisherStep(p) PROVE TypeOK'
  <2>1. ASSUME NEW patch \in BOOLEAN, NEW s \in Streams, NEW b \in Bodies,
               Accept(p, patch, s, b)
        PROVE  TypeOK'
    BY <2>1, AcceptedType, RememberType DEF Accept, TypeOK, Steps, PublishSteps
  <2>2. ASSUME NEW s \in Streams, NEW b \in Bodies, RequestPublish(p, s, b)
        PROVE  TypeOK'
    BY <2>1, <2>2 DEF RequestPublish
  <2>3. ASSUME NEW s \in Streams, NEW b \in Bodies,
               RequestNewOwner(p, s, b) \/ RequestNewCategory(p, s, b)
        PROVE  TypeOK'
    BY <2>1, <2>3 DEF RequestNewOwner, RequestNewCategory, RequestPublish
  <2>4. ASSUME NEW s \in Streams, NEW t \in Texts, RequestPatch(p, s, t)
        PROVE  TypeOK'
    <3>1. BaseBody(s) \cup {t} \in Bodies
      BY BaseBodyType DEF Bodies
    <3> QED
      BY <2>1, <2>4, <3>1 DEF RequestPatch
  <2>5. ASSUME NEW s \in Streams, NEW r \in rules, RequestRollback(p, s, r)
        PROVE  TypeOK'
    <3>1. r.body \in Bodies
      BY DEF TypeOK
    <3> QED
      BY <2>1, <2>5, <3>1 DEF RequestRollback
  <2>6. CASE ReadNextVersion(p)
    <3> DEFINE o == req[p].stream.scope = "repo" /\ req[p].stream.owner \notin options
    <3>1. req[p] \in Request
      BY <2>6 DEF ReadNextVersion, TypeOK, PublishSteps
    <3>2. PICK n \in NextVersion(req[p].stream) :
             Remember(p, [req[p] EXCEPT !.version = n, !.newOption = o])
      BY <2>6 DEF ReadNextVersion
    <3>3. n \in Nat /\ n # 0
      BY <3>1, RequestFields, NextVersionType
    <3>4. o \in BOOLEAN
      OBVIOUS
    <3> DEFINE r == [req[p] EXCEPT !.version = n, !.newOption = o]
    <3>5. r \in Request
      BY <3>1, <3>3, <3>4, ReadUpdate
    <3>6. r.version = n
      BY <3>1 DEF Request
    <3>7. Goto(p, "insert") /\ Remember(p, r)
      BY <2>6, <3>2 DEF ReadNextVersion
    <3>8. /\ pc' \in [Callers -> Steps]
          /\ req' \in [Callers -> Request \cup {NoRequest}]
          /\ \A q \in Callers :
                /\ pc'[q] \in PublishSteps \cup {"delete"} => req'[q] \in Request
                /\ pc'[q] = "insert" => req'[q].version # 0
      <4> HIDE DEF r
      <4> QED
        BY <3>3, <3>5, <3>6, <3>7, RememberType DEF Steps, PublishSteps
    <3> QED
      BY <2>6, <3>8 DEF ReadNextVersion, TypeOK
  <2>7. CASE InsertConflict(p)
    BY <2>7, ReturnType DEF InsertConflict, TypeOK
  <2>8. CASE Insert(p)
    <3>1. req[p] \in Request /\ req[p].version \in Nat
      BY <2>8, RequestFields DEF Insert, TypeOK, PublishSteps
    <3>2. [req[p] EXCEPT !.id = nextId] \in Request
      BY <3>1, IdUpdate DEF TypeOK
    <3>3. req[p].version # 0 /\ req[p].stream \in Streams /\ req[p].body \in Bodies
      BY <2>8, <3>1, RequestFields DEF Insert, TypeOK
    <3>4. rules' \subseteq [id : Nat, stream : Streams, version : Nat \ {0}, body : Bodies]
      BY <2>8, <3>1, <3>3 DEF Insert, Row, TypeOK
    <3>5. options' \subseteq Owners
      BY <2>8, <3>3 DEF Insert, OptionRow, TypeOK, Owners
    <3>6. nextId' \in 1 .. MaxRows + 1
      BY <2>8, BoundsAssumption DEF Insert, TypeOK
    <3> QED
      BY <2>8, <3>2, <3>4, <3>5, <3>6, RememberType
      DEF Insert, TypeOK, Steps, PublishSteps
  <2>9. CASE RefreshFail(p)
    BY <2>9, ReturnType DEF RefreshFail, TypeOK
  <2>10. CASE IndexSkip(p)
    BY <2>10, StayType DEF IndexSkip, TypeOK, Steps, PublishSteps
  <2>11. CASE IndexDelete(p)
    <3>1. req[p] \in Request
      BY <2>11 DEF IndexDelete, TypeOK, PublishSteps
    <3>2. [req[p] EXCEPT !.seen = DeletedBy(p)] \in Request
      BY <3>1, SeenUpdate DEF DeletedBy, TypeOK
    <3> QED
      BY <2>11, <3>2, RememberType DEF IndexDelete, TypeOK, Steps, PublishSteps
  <2>12. CASE IndexCommit(p)
    <3>1. req[p] \in Request
      BY <2>12 DEF IndexCommit, TypeOK, PublishSteps
    <3>2. chunks' \subseteq [stream : Streams, id : Nat]
      BY <2>12, <3>1, RequestFields DEF IndexCommit, TypeOK
    <3> QED
      BY <2>12, <3>2, StayType DEF IndexCommit, TypeOK, Steps, PublishSteps
  <2>13. CASE IndexFail(p)
    BY <2>13, StayType DEF IndexFail, TypeOK, Steps, PublishSteps
  <2>14. CASE Invalidate(p)
    BY <2>14, ReturnType DEF Invalidate, TypeOK
  <2> QED
    BY <1>2, <2>2, <2>3, <2>4, <2>5, <2>6, <2>7, <2>8, <2>9, <2>10, <2>11,
       <2>12, <2>13, <2>14 DEF PublisherStep
<1>3. ASSUME NEW p \in Admins, AdminStep(p) PROVE TypeOK'
  <2>1. ASSUME NEW s \in Streams, NEW v \in 1 .. MaxRows + 1, CountVersions(p, s, v)
        PROVE  TypeOK'
    <3>1. {} \in Bodies /\ v \in Nat
      BY BoundsAssumption DEF Bodies
    <3>2. Accepted(FALSE, s, {}) \in Request
      BY <3>1, AcceptedType
    <3>3. [Accepted(FALSE, s, {}) EXCEPT !.version = v] \in Request
      BY <3>1, <3>2, VersionUpdate
    <3> QED
      BY <2>1, <3>3, RememberType DEF CountVersions, TypeOK, Steps, PublishSteps
  <2>2. CASE DeleteVersion(p)
    BY <2>2, ReturnType DEF DeleteVersion, TypeOK
  <2>3. ASSUME NEW s \in Streams, DeleteCategory(p, s) PROVE TypeOK'
    BY <2>3 DEF DeleteCategory, DeleteRows, TypeOK
  <2>4. ASSUME NEW scope \in Scopes, NEW owner \in Owners, DeleteOwner(p, scope, owner)
        PROVE  TypeOK'
    BY <2>4 DEF DeleteOwner, DeleteRows, TypeOK
  <2>5. ASSUME NEW owner \in Owners, ToggleOption(p, owner) PROVE TypeOK'
    BY <2>5 DEF ToggleOption, TypeOK
  <2> QED
    BY <1>3, <2>1, <2>2, <2>3, <2>4, <2>5 DEF AdminStep
<1>4. ASSUME NEW p \in Resetters, ResetterStep(p) PROVE TypeOK'
  <2>1. CASE ForceWipe(p)
    BY <2>1, StayType DEF ForceWipe, TypeOK, Steps, PublishSteps
  <2>2. CASE ForceReseed(p)
    BY <2>2, StayType, SeedRowsType DEF ForceReseed, TypeOK, Steps, PublishSteps
  <2> QED
    BY <1>4, <2>1, <2>2 DEF ResetterStep
<1>5. ASSUME NEW p \in Callers, Crash(p) PROVE TypeOK'
    BY <1>5, ReturnType DEF Crash, TypeOK
<1>6. CASE UNCHANGED vars
    BY <1>6 DEF vars, TypeOK
<1> QED
    BY <1>1, <1>2, <1>3, <1>4, <1>5, <1>6 DEF Next

LEMMA TypeInit == Init => TypeOK
BY BoundsAssumption DEF Init, TypeOK, Steps, PublishSteps

\* The variables keep their types in every behaviour: no handler leaves a
\* malformed row, request or index entry behind.
THEOREM TypeCorrect == Spec => []TypeOK
BY TypeInit, TypeStep, PTL DEF Spec

-----------------------------------------------------------------------------
(* The steps, grouped by what they touch *)

Tables == <<rules, nextId, chunks, options>>

OthersStay(p) == \A q \in Callers \ {p} : pc'[q] = pc[q] /\ req'[q] = req[q]

\* p takes a publishing request or gives one up; the tables stay.
Leaves(p) ==
    /\ UNCHANGED <<rules, nextId, chunks, options, starting>>
    /\ OthersStay(p)
    /\ \/ pc'[p] = "read" /\ boot # "never" /\ boot' = boot
       \/ pc'[p] = "idle" /\ pc[p] # "idle" /\ boot' \in {boot, "down"}

\* p leaves the indexer without having written to the index.
Passes(p) ==
    /\ UNCHANGED <<rules, nextId, chunks, options, boot, starting, req>>
    /\ pc[p] \in {"index", "indexing"}
    /\ pc' = [pc EXCEPT ![p] = "invalidate"]

PublisherCase(p) ==
    \/ ReadNextVersion(p) \/ Insert(p) \/ IndexDelete(p) \/ IndexCommit(p) \/ Passes(p)

AdminCase(p) ==
    \/ \E s \in Streams, v \in 1 .. MaxRows + 1 : CountVersions(p, s, v)
    \/ DeleteVersion(p)
    \/ \E s \in Streams : DeleteCategory(p, s)
    \/ \E scope \in Scopes, owner \in Owners : DeleteOwner(p, scope, owner)
    \/ \E owner \in Owners : ToggleOption(p, owner)

LEMMA StepCases ==
    ASSUME TypeOK, [Next]_vars
    PROVE  \/ UNCHANGED vars
           \/ StartStep
           \/ \E p \in Publishers : PublisherCase(p)
           \/ \E p \in Admins : AdminCase(p)
           \/ \E p \in Resetters : ResetterStep(p)
           \/ \E p \in Callers : Leaves(p)
<1> USE DEF AtStep, Serving, Callers
<1>1. ASSUME NEW p \in Callers, NEW patch, NEW s, NEW b, Accept(p, patch, s, b)
      PROVE  Leaves(p)
  BY <1>1 DEF Accept, Leaves, OthersStay, Goto, Remember, TypeOK
<1>2. ASSUME NEW p \in Callers, pc[p] # "idle", Return(p), boot' \in {boot, "down"},
             UNCHANGED <<rules, nextId, chunks, options, starting>>
      PROVE  Leaves(p)
  BY <1>2 DEF Return, Leaves, OthersStay, Goto, Remember, TypeOK
<1>3. ASSUME NEW p \in Publishers, PublisherStep(p)
      PROVE  PublisherCase(p) \/ Leaves(p)
  <2>1. CASE \/ \E s \in Streams, b \in Bodies : RequestPublish(p, s, b)
             \/ \E s \in Streams, b \in Bodies : RequestNewOwner(p, s, b)
             \/ \E s \in Streams, b \in Bodies : RequestNewCategory(p, s, b)
             \/ \E s \in Streams, t \in Texts : RequestPatch(p, s, t)
             \/ \E s \in Streams, r \in rules : RequestRollback(p, s, r)
    BY <1>1, <2>1 DEF RequestPublish, RequestNewOwner, RequestNewCategory, RequestPatch,
       RequestRollback
  <2>2. CASE InsertConflict(p) \/ RefreshFail(p) \/ Invalidate(p)
    BY <1>2, <2>2 DEF InsertConflict, RefreshFail, Invalidate
  <2>3. CASE IndexSkip(p) \/ IndexFail(p)
    BY <2>3 DEF IndexSkip, IndexFail, Goto, Passes, PublisherCase
  <2>4. CASE ReadNextVersion(p) \/ Insert(p) \/ IndexDelete(p) \/ IndexCommit(p)
    BY <2>4 DEF PublisherCase
  <2> QED
    BY <1>3, <2>1, <2>2, <2>3, <2>4 DEF PublisherStep
<1>4. ASSUME NEW p \in Callers, Crash(p) PROVE Leaves(p)
  BY <1>2, <1>4 DEF Crash
<1> QED
  BY <1>3, <1>4 DEF Next, AdminStep, AdminCase

-----------------------------------------------------------------------------
(* Pull-option rows *)

\* A publish about to commit for a pattern without an option row brings one.
OptionPending ==
    \A p \in Callers :
        pc[p] = "insert" /\ req[p].stream.scope = "repo" =>
            req[p].stream.owner \in options \/ req[p].newOption

OptionInv == OptionPending /\ PatternHasItsOption

LEMMA OptionStep ==
    ASSUME TypeOK, OptionInv, [Next]_vars
    PROVE  OptionInv'
<1> USE DEF AtStep, Callers
<1>1. CASE UNCHANGED vars
  BY <1>1 DEF vars, OptionInv, OptionPending, PatternHasItsOption
<1>2. CASE StartStep
  BY <1>2 DEF StartStep, StartMigration, CommitMigration, Seed, SeedRows, Row,
              OptionInv, OptionPending, PatternHasItsOption
<1>3. ASSUME NEW p \in Publishers, PublisherCase(p) PROVE OptionInv'
  <2>1. CASE ReadNextVersion(p)
    <3>1. req[p] \in Request
      BY <2>1 DEF ReadNextVersion, TypeOK, PublishSteps
    <3>2. /\ req'[p].stream = req[p].stream
          /\ req'[p].newOption = (/\ req[p].stream.scope = "repo"
                                  /\ req[p].stream.owner \notin options)
          /\ \A q \in Callers \ {p} : req'[q] = req[q] /\ pc'[q] = pc[q]
      BY <2>1, <3>1 DEF ReadNextVersion, Remember, Goto, TypeOK, Request
    <3> QED
      BY <2>1, <3>2 DEF ReadNextVersion, OptionInv, OptionPending, PatternHasItsOption
  <2>2. CASE Insert(p)
    <3>1. OptionPending'
      BY <2>2 DEF Insert, Remember, Goto, TypeOK, OptionInv, OptionPending
    <3>2. req[p].stream.scope = "repo" => req[p].stream.owner \in options'
      BY <2>2 DEF Insert, OptionRow, OptionInv, OptionPending
    <3>3. PatternHasItsOption'
      BY <2>2, <3>2 DEF Insert, Row, OptionInv, PatternHasItsOption
    <3> QED
      BY <3>1, <3>3 DEF OptionInv
  <2>3. CASE IndexDelete(p) \/ IndexCommit(p) \/ Passes(p)
    BY <2>3 DEF IndexDelete, IndexCommit, Passes, Remember, Goto, TypeOK,
                OptionInv, OptionPending, PatternHasItsOption
  <2> QED
    BY <1>3, <2>1, <2>2, <2>3 DEF PublisherCase
<1>4. ASSUME NEW p \in Admins, AdminCase(p) PROVE OptionInv'
  BY <1>4 DEF AdminCase, CountVersions, DeleteVersion, DeleteCategory, DeleteOwner,
              DeleteRows, ToggleOption, Return, Remember, Goto, TypeOK,
              OptionInv, OptionPending, PatternHasItsOption
<1>5. ASSUME NEW p \in Resetters, ResetterStep(p) PROVE OptionInv'
  BY <1>5 DEF ResetterStep, ForceWipe, ForceReseed, SeedRows, Row, Goto, TypeOK,
              OptionInv, OptionPending, PatternHasItsOption
<1>6. ASSUME NEW p \in Callers, Leaves(p) PROVE OptionInv'
  BY <1>6 DEF Leaves, OthersStay, OptionInv, OptionPending, PatternHasItsOption
<1> QED
  BY <1>1, <1>2, <1>3, <1>4, <1>5, <1>6, StepCases

\* publish_repo adds a rule and the option row of its pattern in one
\* transaction: no interleaving of publishers, admins, re-seeds, starts and
\* crashes leaves a published pattern without its option.
THEOREM PatternOptionsComplete == Spec => []PatternHasItsOption
<1>1. Init => OptionInv
  BY DEF Init, OptionInv, OptionPending, PatternHasItsOption
<1>2. TypeOK /\ OptionInv /\ [Next]_vars => OptionInv'
  BY OptionStep
<1>3. OptionInv => PatternHasItsOption
  BY DEF OptionInv
<1> QED
  BY <1>1, <1>2, <1>3, TypeCorrect, PTL DEF Spec

-----------------------------------------------------------------------------
(* The search index *)

\* The one indexer at work has met every chunk its stream still has.
IndexerSawAll ==
    \A p \in Callers : pc[p] = "indexing" =>
        p \in Publishers /\ req[p].seen = DeletedBy(p)

IndexInv == IndexerSawAll /\ ChunksComeFromOnePublish

LEMMA IndexStep ==
    ASSUME TypeOK, IndexInv, [Next]_vars, \A p, q \in Publishers : p = q
    PROVE  IndexInv'
<1> USE DEF AtStep, Callers, DeletedBy
<1>1. CASE UNCHANGED vars
  BY <1>1 DEF vars, IndexInv, IndexerSawAll, ChunksComeFromOnePublish
<1>2. CASE StartStep
  BY <1>2 DEF StartStep, StartMigration, CommitMigration, Seed,
              IndexInv, IndexerSawAll, ChunksComeFromOnePublish
<1>3. ASSUME NEW p \in Publishers, PublisherCase(p) PROVE IndexInv'
  <2>1. CASE IndexDelete(p)
    <3>1. req[p] \in Request
      BY <2>1 DEF IndexDelete, TypeOK, PublishSteps
    <3>2. req'[p].seen = DeletedBy(p) /\ req'[p].stream = req[p].stream
      BY <2>1, <3>1 DEF IndexDelete, Remember, TypeOK, Request
    <3> QED
      BY <2>1, <3>2 DEF IndexDelete, Remember, Goto, TypeOK,
                        IndexInv, IndexerSawAll, ChunksComeFromOnePublish
  <2>2. CASE IndexCommit(p)
    <3>1. \A q \in Callers : pc'[q] # "indexing"
      BY <2>2 DEF IndexCommit, Goto, TypeOK, IndexInv, IndexerSawAll
    <3>2. ChunksComeFromOnePublish'
      BY <2>2 DEF IndexCommit, TypeOK, IndexInv, IndexerSawAll, ChunksComeFromOnePublish
    <3> QED
      BY <3>1, <3>2 DEF IndexInv, IndexerSawAll
  <2>3. CASE ReadNextVersion(p) \/ Insert(p) \/ Passes(p)
    BY <2>3 DEF ReadNextVersion, Insert, Passes, Remember, Goto, TypeOK,
                IndexInv, IndexerSawAll, ChunksComeFromOnePublish
  <2> QED
    BY <1>3, <2>1, <2>2, <2>3 DEF PublisherCase
<1>4. ASSUME NEW p \in Admins, AdminCase(p) PROVE IndexInv'
  <2>1. ASSUME NEW s \in Streams, NEW v \in 1 .. MaxRows + 1, CountVersions(p, s, v)
        PROVE  IndexInv'
    BY <2>1 DEF CountVersions, Remember, Goto, TypeOK,
                IndexInv, IndexerSawAll, ChunksComeFromOnePublish
  <2>3. CASE DeleteVersion(p)
    BY <2>3 DEF DeleteVersion, Return, Remember, Goto, TypeOK,
                IndexInv, IndexerSawAll, ChunksComeFromOnePublish
  <2>2. CASE \/ \E s \in Streams : DeleteCategory(p, s)
             \/ \E scope \in Scopes, owner \in Owners : DeleteOwner(p, scope, owner)
             \/ \E owner \in Owners : ToggleOption(p, owner)
    BY <2>2 DEF DeleteCategory, DeleteOwner, DeleteRows, ToggleOption,
                IndexInv, IndexerSawAll, ChunksComeFromOnePublish
  <2> QED
    BY <1>4, <2>1, <2>2, <2>3 DEF AdminCase
<1>5. ASSUME NEW p \in Resetters, ResetterStep(p) PROVE IndexInv'
  BY <1>5 DEF ResetterStep, ForceWipe, ForceReseed, Goto, TypeOK,
              IndexInv, IndexerSawAll, ChunksComeFromOnePublish
<1>6. ASSUME NEW p \in Callers, Leaves(p) PROVE IndexInv'
  BY <1>6 DEF Leaves, OthersStay, IndexInv, IndexerSawAll, ChunksComeFromOnePublish
<1> QED
  BY <1>1, <1>2, <1>3, <1>4, <1>5, <1>6, StepCases

\* With one publisher at a time the section-wide delete of the indexer is
\* enough: whatever admins, re-seeds, failures and crashes do in between, the
\* index of a stream shows a single publication.
THEOREM OneIndexerKeepsChunksApart ==
    (\A p, q \in Publishers : p = q) /\ Spec => []ChunksComeFromOnePublish
<1> SUFFICES ASSUME \A p, q \in Publishers : p = q
             PROVE  Spec => []ChunksComeFromOnePublish
  OBVIOUS
<1>1. Init => IndexInv
  BY DEF Init, IndexInv, IndexerSawAll, ChunksComeFromOnePublish
<1>2. TypeOK /\ IndexInv /\ [Next]_vars => IndexInv'
  BY IndexStep
<1>3. IndexInv => ChunksComeFromOnePublish
  BY DEF IndexInv
<1> QED
  BY <1>1, <1>2, <1>3, TypeCorrect, PTL DEF Spec

-----------------------------------------------------------------------------
(* Rows that only accumulate *)

\* No two rows share a stream and a version.
UniqueVersions ==
    \A r, q \in rules : r.stream = q.stream /\ r.version = q.version => r = q

LEMMA SeedRowsFree ==
    ASSUME NEW S, ~ \E s \in S : Taken(s, 1), NEW r \in SeedRows(S)
    PROVE  /\ r.version = 1 /\ r.id = 0 /\ r.stream \in S
           /\ r = Row(0, r.stream, 1, {SeedText})
           /\ \A q \in rules : q.stream = r.stream => q.version # 1
BY DEF SeedRows, Row, Taken, Versions, RowsOf

LEMMA UniqueStep ==
    ASSUME TypeOK, UniqueVersions, [Next]_vars
    PROVE  UniqueVersions'
<1> USE DEF AtStep, Callers
<1>1. CASE rules' \subseteq rules
  BY <1>1 DEF UniqueVersions
<1>2. CASE Seed
  <2>1. CASE \E s \in SeedsMissing : Taken(s, 1)
    BY <1>1, <1>2, <2>1 DEF Seed
  <2>2. CASE ~ \E s \in SeedsMissing : Taken(s, 1)
    BY <1>2, <2>2, SeedRowsFree DEF Seed, UniqueVersions
  <2> QED
    BY <2>1, <2>2
<1>3. ASSUME NEW p \in Publishers, Insert(p) PROVE UniqueVersions'
  BY <1>3 DEF Insert, Row, Taken, Versions, RowsOf, UniqueVersions
<1>4. ASSUME NEW p \in Resetters, ForceReseed(p) PROVE UniqueVersions'
  <2>1. CASE \E s \in Seeds : Taken(s, 1)
    BY <1>1, <1>4, <2>1 DEF ForceReseed
  <2>2. CASE ~ \E s \in Seeds : Taken(s, 1)
    BY <1>4, <2>2, SeedRowsFree DEF ForceReseed, UniqueVersions
  <2> QED
    BY <2>1, <2>2
<1>5. \/ rules' \subseteq rules \/ Seed
      \/ \E p \in Publishers : Insert(p)
      \/ \E p \in Resetters : ForceReseed(p)
  BY StepCases DEF vars, StartStep, StartMigration, CommitMigration, PublisherCase,
     ReadNextVersion, IndexDelete, IndexCommit, Passes, AdminCase, CountVersions,
     DeleteVersion, DeleteCategory, DeleteOwner, DeleteRows, ToggleOption,
     ResetterStep, ForceWipe, Leaves
<1> QED
  BY <1>1, <1>2, <1>3, <1>4, <1>5

LEMMA VersionsUnique == Spec => []UniqueVersions
<1>1. Init => UniqueVersions
  BY DEF Init, UniqueVersions
<1>2. TypeOK /\ UniqueVersions /\ [Next]_vars => UniqueVersions'
  BY UniqueStep
<1> QED
  BY <1>1, <1>2, TypeCorrect, PTL DEF Spec

-----------------------------------------------------------------------------
(* Publishers without admins: the tables are an append-only log *)

\* Below every version of a stream all numbers are taken, and so they are
\* below the number a publisher is about to insert.
Gapless ==
    \A r \in rules : \A k \in 1 .. (r.version - 1) : Taken(r.stream, k)

LowerTaken(p) == \A k \in 1 .. (req[p].version - 1) : Taken(req[p].stream, k)

BelowTaken == \A p \in Callers : pc[p] = "insert" => LowerTaken(p)

LogInv == Gapless /\ BelowTaken

\* Without admins rows are never removed.
LEMMA RowsAccumulate ==
    ASSUME TypeOK, [Next]_vars, Admins = {}, Resetters = {}
    PROVE  \/ UNCHANGED rules
           \/ Seed /\ rules' = rules \cup SeedRows(SeedsMissing)
                   /\ ~ \E s \in SeedsMissing : Taken(s, 1)
           \/ \E p \in Publishers : Insert(p)
BY StepCases DEF vars, StartStep, StartMigration, CommitMigration, Seed, PublisherCase,
   ReadNextVersion, IndexDelete, IndexCommit, Passes, Leaves

LEMMA TakenStays ==
    ASSUME rules \subseteq rules', NEW s, NEW k, Taken(s, k)
    PROVE  Taken(s, k)'
BY DEF Taken, Versions, RowsOf

\* In a gap-free stream whose number n is free, every version is below n.
LEMMA FreeIsAbove ==
    ASSUME TypeOK, Gapless, NEW r \in rules, NEW n \in Nat \ {0}, ~Taken(r.stream, n)
    PROVE  r.version < n
<1>1. r.version \in Nat \ {0} /\ r.version # n
  BY DEF TypeOK, Taken, Versions, RowsOf
<1>2. CASE r.version > n
  <2>1. n \in 1 .. (r.version - 1)
    BY <1>1, <1>2
  <2> QED
    BY <2>1 DEF Gapless
<1> QED
  BY <1>1, <1>2

LEMMA InsertType ==
    ASSUME TypeOK, NEW p \in Publishers, Insert(p)
    PROVE  /\ req[p] \in Request /\ req[p].stream \in Streams
           /\ req[p].version \in Nat \ {0} /\ req[p].body \in Bodies
BY DEF TypeOK, Insert, AtStep, Callers, PublishSteps, Request

LEMMA GaplessStep ==
    ASSUME TypeOK, LogInv, [Next]_vars, Admins = {}, Resetters = {}
    PROVE  Gapless'
<1>1. CASE UNCHANGED rules
  BY <1>1 DEF LogInv, Gapless, Taken, Versions, RowsOf
<1>2. CASE rules' = rules \cup SeedRows(SeedsMissing)
  <2>1. \A r \in SeedRows(SeedsMissing) : r.version = 1
    BY DEF SeedRows, Row
  <2> QED
    BY <1>2, <2>1, TakenStays DEF LogInv, Gapless
<1>3. ASSUME NEW p \in Publishers, Insert(p) PROVE Gapless'
  <2> DEFINE new == Row(nextId, req[p].stream, req[p].version, req[p].body)
  <2>1. rules' = rules \cup {new}
    BY <1>3 DEF Insert
  <2>2. new.stream = req[p].stream /\ new.version = req[p].version
    BY DEF Row
  <2>3. \A k \in 1 .. (new.version - 1) : Taken(new.stream, k)
    BY <1>3, <2>2 DEF Insert, AtStep, LogInv, BelowTaken, LowerTaken, Callers
  <2> HIDE DEF new
  <2> QED
    BY <2>1, <2>3, TakenStays DEF LogInv, Gapless
<1> QED
  BY <1>1, <1>2, <1>3, RowsAccumulate

LEMMA BelowTakenStep ==
    ASSUME TypeOK, LogInv, [Next]_vars, Admins = {}, Resetters = {}
    PROVE  BelowTaken'
<1> USE DEF AtStep, Callers
<1>1. rules \subseteq rules'
  BY RowsAccumulate DEF Insert
<1>2. ASSUME NEW q \in Callers, pc'[q] = "insert",
             pc[q] = "insert", req'[q] = req[q]
      PROVE  LowerTaken(q)'
  BY <1>1, <1>2, TakenStays DEF LogInv, BelowTaken, LowerTaken
<1>3. ASSUME NEW p \in Publishers, ReadNextVersion(p)
      PROVE  LowerTaken(p)'
  <2>1. req[p] \in Request /\ req[p].stream \in Streams
    BY <1>3 DEF ReadNextVersion, TypeOK, PublishSteps, Request
  <2>2. PICK n \in NextVersion(req[p].stream) :
           req'[p].version = n /\ req'[p].stream = req[p].stream
    BY <1>3, <2>1 DEF ReadNextVersion, Remember, TypeOK, Request
  <2>3. PICK v \in {0} \cup Versions(req[p].stream) : n = v + 1
    BY DEF NextVersion
  <2>4. v \in Nat
    BY DEF TypeOK, Versions, RowsOf
  <2>5. \A k \in 1 .. (n - 1) : Taken(req[p].stream, k)
    <3>1. CASE v = 0
      <4>1. 1 .. (n - 1) = {}
        BY <2>3, <3>1
      <4> QED
        BY <4>1
    <3>2. CASE v \in Versions(req[p].stream)
      <4>1. PICK r \in rules : r.stream = req[p].stream /\ r.version = v
        BY <3>2 DEF Versions, RowsOf
      <4>2. \A k \in 1 .. (v - 1) : Taken(req[p].stream, k)
        BY <4>1 DEF LogInv, Gapless
      <4>3. Taken(req[p].stream, v)
        BY <3>2 DEF Taken
      <4>4. n - 1 = v /\ \A k \in 1 .. v : k \in 1 .. (v - 1) \/ k = v
        BY <2>3, <2>4
      <4> QED
        BY <4>2, <4>3, <4>4
    <3> QED
      BY <3>1, <3>2
  <2> QED
    BY <1>1, <2>2, <2>5, TakenStays DEF LowerTaken
<1>4. ASSUME NEW q \in Callers, pc'[q] = "insert"
      PROVE  \/ pc[q] = "insert" /\ req'[q] = req[q]
             \/ q \in Publishers /\ ReadNextVersion(q)
  <2>1. CASE UNCHANGED vars \/ StartStep
    BY <1>4, <2>1 DEF vars, StartStep, StartMigration, CommitMigration, Seed
  <2>2. ASSUME NEW p \in Publishers, PublisherCase(p)
        PROVE  \/ pc[q] = "insert" /\ req'[q] = req[q]
               \/ q \in Publishers /\ ReadNextVersion(q)
    <3>1. CASE ReadNextVersion(p)
      BY <1>4, <3>1 DEF ReadNextVersion, Goto, Remember, TypeOK
    <3>2. CASE Insert(p) \/ IndexDelete(p) \/ IndexCommit(p) \/ Passes(p)
      BY <1>4, <3>2 DEF Insert, IndexDelete, IndexCommit, Passes, Goto, Remember, TypeOK
    <3> QED
      BY <2>2, <3>1, <3>2 DEF PublisherCase
  <2>3. ASSUME NEW p \in Callers, Leaves(p)
        PROVE  pc[q] = "insert" /\ req'[q] = req[q]
    BY <1>4, <2>3 DEF Leaves, OthersStay
  <2> QED
    BY <2>1, <2>2, <2>3, StepCases
<1> QED
  BY <1>2, <1>3, <1>4 DEF BelowTaken

LEMMA LogInvariant == Admins = {} /\ Resetters = {} /\ Spec => []LogInv
<1> SUFFICES ASSUME Admins = {}, Resetters = {} PROVE Spec => []LogInv
  OBVIOUS
<1>1. Init => LogInv
  BY DEF Init, LogInv, Gapless, BelowTaken
<1>2. TypeOK /\ LogInv /\ [Next]_vars => LogInv'
  BY GaplessStep, BelowTakenStep DEF LogInv
<1> QED
  BY <1>1, <1>2, TypeCorrect, PTL DEF Spec

\* A row that takes the next free number of its stream is a next log entry.
LEMMA NextEntry ==
    ASSUME TypeOK, Gapless, NEW r,
           r.version \in Nat \ {0}, ~Taken(r.stream, r.version),
           \A k \in 1 .. (r.version - 1) : Taken(r.stream, k)
    PROVE  Log!IsNext(Entry(r))
<1>1. Entry(r).stream = r.stream /\ Entry(r).version = r.version
  BY DEF Entry
<1>2. ASSUME NEW f \in Entries(rules), f.stream = r.stream
      PROVE  f.version < r.version
  <2>1. PICK q \in rules : f = Entry(q)
    BY DEF Entries
  <2>2. q.stream = r.stream /\ q.version = f.version
    BY <1>2, <2>1 DEF Entry
  <2> QED
    BY <2>2, FreeIsAbove
<1>3. ASSUME NEW k \in 1 .. (r.version - 1)
      PROVE  \E f \in Entries(rules) : f.stream = r.stream /\ f.version = k
  <2>1. PICK q \in rules : q.stream = r.stream /\ q.version = k
    BY DEF Taken, Versions, RowsOf
  <2>2. Entry(q) \in Entries(rules) /\ Entry(q).stream = r.stream /\ Entry(q).version = k
    BY <2>1 DEF Entry, Entries
  <2> QED
    BY <2>2
<1> QED
  BY <1>1, <1>2, <1>3 DEF Log!IsNext

LEMMA EntriesTyped == TypeOK => Entries(rules) \subseteq Log!Entries
BY DEF TypeOK, Entries, Entry, Log!Entries

\* A step that adds the rows R, each next in its stream and no two of one
\* stream, appends to the log.
LEMMA RowsAppend ==
    ASSUME NEW R, rules' = rules \cup R, TypeOK',
           \A r \in R : Log!IsNext(Entry(r)),
           \A r, q \in R : r.stream = q.stream => r = q
    PROVE  Log!Append
<1>1. Entries(rules') = Entries(rules) \cup Entries(R)
  BY DEF Entries
<1>2. Entries(rules') \subseteq Log!Entries
  BY EntriesTyped DEF TypeOK, Entries, Entry, Log!Entries
<1>3. ASSUME NEW e \in Entries(rules') \ Entries(rules)
      PROVE  /\ Log!IsNext(e)
             /\ \A f \in Entries(rules') \ Entries(rules) : f.stream = e.stream => f = e
  <2>1. PICK r \in R : e = Entry(r)
    BY <1>1 DEF Entries
  <2>2. ASSUME NEW f \in Entries(rules') \ Entries(rules), f.stream = e.stream
        PROVE  f = e
    <3>1. PICK q \in R : f = Entry(q)
      BY <1>1 DEF Entries
    <3>2. q.stream = r.stream
      BY <2>1, <2>2, <3>1 DEF Entry
    <3> QED
      BY <2>1, <3>1, <3>2
  <2> QED
    BY <2>1, <2>2
<1> QED
  BY <1>1, <1>2, <1>3 DEF Log!Append

LEMMA LogStep ==
    ASSUME TypeOK, TypeOK', LogInv, [Next]_vars, Admins = {}, Resetters = {}
    PROVE  [Log!Next]_(Entries(rules))
<1>1. CASE UNCHANGED rules
  BY <1>1
<1>2. CASE /\ rules' = rules \cup SeedRows(SeedsMissing)
           /\ ~ \E s \in SeedsMissing : Taken(s, 1)
  <2>1. ASSUME NEW r \in SeedRows(SeedsMissing) PROVE Log!IsNext(Entry(r))
    <3>1. r.version = 1 /\ ~Taken(r.stream, 1)
      BY <1>2, SeedRowsFree
    <3>2. r.version \in Nat \ {0} /\ 1 .. (r.version - 1) = {}
      BY <3>1
    <3> QED
      BY <3>1, <3>2, NextEntry DEF LogInv
  <2>2. \A r, q \in SeedRows(SeedsMissing) : r.stream = q.stream => r = q
    BY DEF SeedRows, Row
  <2> QED
    BY <1>2, <2>1, <2>2, RowsAppend DEF Log!Next
<1>3. ASSUME NEW p \in Publishers, Insert(p) PROVE Log!Next
  <2> DEFINE new == Row(nextId, req[p].stream, req[p].version, req[p].body)
  <2>1. rules' = rules \cup {new}
    BY <1>3 DEF Insert
  <2>2. new.stream = req[p].stream /\ new.version = req[p].version
    BY DEF Row
  <2>3. new.version \in Nat \ {0} /\ ~Taken(new.stream, new.version)
    BY <1>3, <2>2, InsertType DEF Insert
  <2>4. \A k \in 1 .. (new.version - 1) : Taken(new.stream, k)
    BY <1>3, <2>2 DEF Insert, AtStep, LogInv, BelowTaken, LowerTaken, Callers
  <2> HIDE DEF new
  <2>5. Log!IsNext(Entry(new))
    BY <2>3, <2>4, NextEntry DEF LogInv
  <2> DEFINE R == {new}
  <2>6. /\ rules' = rules \cup R
        /\ \A r \in R : Log!IsNext(Entry(r))
        /\ \A r, q \in R : r.stream = q.stream => r = q
    BY <2>1, <2>5
  <2> HIDE DEF R
  <2> QED
    BY <2>6, RowsAppend DEF Log!Next
<1> QED
  BY <1>1, <1>2, <1>3, RowsAccumulate

\* Publishers, crashes and restarts on their own keep the promise of
\* VersionLog: the max + 1 read and the unique constraint together make every
\* stream an append-only log numbered without gaps.
THEOREM PublishersImplementVersionLog ==
    Admins = {} /\ Resetters = {} /\ Spec => AppendOnly
<1> SUFFICES ASSUME Admins = {}, Resetters = {} PROVE Spec => AppendOnly
  OBVIOUS
<1>1. Init => Log!Init
  BY DEF Init, Log!Init, Entries
<1>2. TypeOK /\ TypeOK' /\ LogInv /\ [Next]_vars => [Log!Next]_(Entries(rules))
  BY LogStep
<1>3. Spec => []LogInv
  BY LogInvariant
<1> QED
  BY <1>1, <1>2, <1>3, TypeCorrect, PTL DEF Spec, AppendOnly, Log!Spec

-----------------------------------------------------------------------------
(* A version goes to one caller *)

Holds(p) == pc[p] \in Held

RowOf(p) == Row(req[p].id, req[p].stream, req[p].version, req[p].body)

\* Keys are handed out in order, and a publisher past its commit still finds
\* the row it inserted, which is nobody else's.
KeysBelow == \A r \in rules : r.id < nextId

HeldRows == \A p \in Callers : Holds(p) => RowOf(p) \in rules /\ req[p].id # 0

HeldApart == \A p, q \in Callers : p # q /\ Holds(p) /\ Holds(q) => req[p].id # req[q].id

HolderInv == KeysBelow /\ HeldRows /\ HeldApart

\* Who holds a row after a step held the same row before, or inserted it now.
LEMMA HoldersStep ==
    ASSUME TypeOK, [Next]_vars, NEW p \in Callers, Holds(p)'
    PROVE  \/ Holds(p) /\ RowOf(p)' = RowOf(p) /\ req'[p].id = req[p].id
           \/ p \in Publishers /\ Insert(p)
<1> USE DEF AtStep, Callers, Holds, Held, RowOf
<1>1. CASE UNCHANGED vars \/ StartStep
  BY <1>1 DEF vars, StartStep, StartMigration, CommitMigration, Seed
<1>2. ASSUME NEW o \in Publishers, PublisherCase(o)
      PROVE  \/ Holds(p) /\ RowOf(p)' = RowOf(p) /\ req'[p].id = req[p].id
             \/ p \in Publishers /\ Insert(p)
  <2>1. CASE p # o
    BY <1>2, <2>1 DEF PublisherCase, ReadNextVersion, Insert, IndexDelete, IndexCommit,
                      Passes, Goto, Remember, TypeOK
  <2>2. CASE p = o /\ ReadNextVersion(o)
    BY <2>2 DEF ReadNextVersion, Goto, TypeOK
  <2>3. CASE p = o /\ IndexDelete(o)
    <3>1. req[p] \in Request
      BY <2>3 DEF IndexDelete, TypeOK, PublishSteps
    <3> QED
      BY <2>3, <3>1 DEF IndexDelete, Goto, Remember, TypeOK, Request
  <2>4. CASE p = o /\ (IndexCommit(o) \/ Passes(o))
    BY <2>4 DEF IndexCommit, Passes, Goto, TypeOK
  <2>5. CASE p = o /\ Insert(o)
    BY <2>5
  <2> QED
    BY <1>2, <2>1, <2>2, <2>3, <2>4, <2>5 DEF PublisherCase
<1>3. ASSUME NEW o \in Admins, AdminCase(o)
      PROVE  Holds(p) /\ RowOf(p)' = RowOf(p) /\ req'[p].id = req[p].id
  <2>1. ASSUME NEW s \in Streams, NEW v \in 1 .. MaxRows + 1, CountVersions(o, s, v)
        PROVE  Holds(p) /\ RowOf(p)' = RowOf(p) /\ req'[p].id = req[p].id
    BY <2>1 DEF CountVersions, Goto, Remember, TypeOK
  <2>2. CASE DeleteVersion(o)
    BY <2>2 DEF DeleteVersion, Return, Goto, Remember, TypeOK
  <2>3. CASE \/ \E s \in Streams : DeleteCategory(o, s)
             \/ \E scope \in Scopes, owner \in Owners : DeleteOwner(o, scope, owner)
             \/ \E owner \in Owners : ToggleOption(o, owner)
    BY <2>3 DEF DeleteCategory, DeleteOwner, DeleteRows, ToggleOption
  <2> QED
    BY <1>3, <2>1, <2>2, <2>3 DEF AdminCase
<1>4. ASSUME NEW o \in Resetters, ResetterStep(o)
      PROVE  Holds(p) /\ RowOf(p)' = RowOf(p) /\ req'[p].id = req[p].id
  BY <1>4 DEF ResetterStep, ForceWipe, ForceReseed, Goto, TypeOK
<1>5. ASSUME NEW o \in Callers, Leaves(o)
      PROVE  Holds(p) /\ RowOf(p)' = RowOf(p) /\ req'[p].id = req[p].id
  BY <1>5 DEF Leaves, OthersStay
<1> QED
  BY <1>1, <1>2, <1>3, <1>4, <1>5, StepCases

LEMMA HolderStep ==
    ASSUME TypeOK, HolderInv, [Next]_vars, Admins = {}, Resetters = {}
    PROVE  HolderInv'
<1>1. nextId \in Nat \ {0} /\ (nextId' = nextId \/ nextId' = nextId + 1)
  <2>1. nextId \in Nat \ {0}
    BY BoundsAssumption DEF TypeOK
  <2>2. ASSUME NEW p \in Publishers, PublisherCase(p)
        PROVE  nextId' = nextId \/ nextId' = nextId + 1
    BY <2>2 DEF PublisherCase, ReadNextVersion, Insert, IndexDelete, IndexCommit, Passes
  <2>3. CASE StartStep
    BY <2>1, <2>3 DEF StartStep, StartMigration, CommitMigration, Seed
  <2>4. CASE UNCHANGED vars
    BY <2>1, <2>4 DEF vars
  <2>5. ASSUME NEW p \in Callers, Leaves(p) PROVE nextId' = nextId
    BY <2>5 DEF Leaves
  <2> QED
    BY <2>1, <2>2, <2>3, <2>4, <2>5, StepCases
<1>2. rules \subseteq rules'
  BY RowsAccumulate DEF Insert
<1>3. KeysBelow'
  <2>1. CASE UNCHANGED rules
    BY <1>1, <2>1 DEF HolderInv, KeysBelow, TypeOK
  <2>2. CASE rules' = rules \cup SeedRows(SeedsMissing)
    BY <1>1, <2>2 DEF HolderInv, KeysBelow, TypeOK, SeedRows, Row
  <2>3. ASSUME NEW p \in Publishers, Insert(p) PROVE KeysBelow'
    BY <1>1, <2>3 DEF Insert, HolderInv, KeysBelow, TypeOK, Row
  <2> QED
    BY <2>1, <2>2, <2>3, RowsAccumulate
<1>4. ASSUME NEW p \in Publishers, Insert(p)
      PROVE  RowOf(p)' \in rules' /\ req'[p].id = nextId
  <2>1. req[p] \in Request
    BY <1>4, InsertType
  <2> QED
    BY <1>4, <2>1 DEF Insert, Remember, RowOf, Row, Callers, TypeOK, Request
<1>5. HeldRows'
  <2> SUFFICES ASSUME NEW p \in Callers, Holds(p)'
               PROVE  RowOf(p)' \in rules' /\ req'[p].id # 0
    BY DEF HeldRows
  <2>1. CASE Holds(p) /\ RowOf(p)' = RowOf(p) /\ req'[p].id = req[p].id
    BY <1>2, <2>1 DEF HolderInv, HeldRows
  <2>2. CASE p \in Publishers /\ Insert(p)
    BY <1>1, <1>4, <2>2
  <2> QED
    BY <2>1, <2>2, HoldersStep
<1>6. HeldApart'
  <2> SUFFICES ASSUME NEW p \in Callers, NEW q \in Callers, p # q, Holds(p)', Holds(q)'
               PROVE  req'[p].id # req'[q].id
    BY DEF HeldApart
  <2>1. \A o \in Callers : Holds(o) => req[o].id < nextId
    BY DEF HolderInv, HeldRows, KeysBelow, RowOf, Row
  <2>2. CASE Holds(p) /\ Holds(q) /\ req'[p].id = req[p].id /\ req'[q].id = req[q].id
    BY <2>2 DEF HolderInv, HeldApart
  <2>3. CASE Insert(p) /\ p \in Publishers
    <3>1. req'[q] = req[q] /\ Holds(q)
      BY <2>3 DEF Insert, Remember, Goto, Holds, Callers, TypeOK
    <3> QED
      BY <1>1, <1>4, <2>1, <2>3, <3>1
  <2>4. CASE Insert(q) /\ q \in Publishers
    <3>1. req'[p] = req[p] /\ Holds(p)
      BY <2>4 DEF Insert, Remember, Goto, Holds, Callers, TypeOK
    <3> QED
      BY <1>1, <1>4, <2>1, <2>4, <3>1
  <2> QED
    BY <2>2, <2>3, <2>4, HoldersStep
<1> QED
  BY <1>3, <1>5, <1>6 DEF HolderInv

\* Publishers that race for one stream are told different versions, since the
\* loser of the race meets the unique constraint before it is told anything.
THEOREM VersionsGoToOneCaller ==
    Admins = {} /\ Resetters = {} /\ Spec => []VersionGoesToOneCaller
<1> SUFFICES ASSUME Admins = {}, Resetters = {} PROVE Spec => []VersionGoesToOneCaller
  OBVIOUS
<1>1. Init => HolderInv
  BY DEF Init, HolderInv, KeysBelow, HeldRows, HeldApart, Holds, Held
<1>2. TypeOK /\ HolderInv /\ [Next]_vars => HolderInv'
  BY HolderStep
<1>3. HolderInv /\ UniqueVersions => VersionGoesToOneCaller
  <2> SUFFICES ASSUME HolderInv, UniqueVersions, NEW p \in Publishers, NEW q \in Publishers,
                      p # q, pc[p] \in Held, pc[q] \in Held,
                      req[p].stream = req[q].stream, req[p].version = req[q].version
               PROVE  FALSE
    BY DEF VersionGoesToOneCaller
  <2>1. Holds(p) /\ Holds(q) /\ p \in Callers /\ q \in Callers
    BY DEF Holds, Callers
  <2>2. RowOf(p) \in rules /\ RowOf(q) \in rules
    BY <2>1 DEF HolderInv, HeldRows
  <2>3. /\ RowOf(p).stream = req[p].stream /\ RowOf(q).stream = req[q].stream
        /\ RowOf(p).version = req[p].version /\ RowOf(q).version = req[q].version
        /\ RowOf(p).id = req[p].id /\ RowOf(q).id = req[q].id
    BY DEF RowOf, Row
  <2>4. RowOf(p) = RowOf(q)
    BY <2>2, <2>3 DEF UniqueVersions
  <2> QED
    BY <2>1, <2>3, <2>4 DEF HolderInv, HeldApart
<1> QED
  BY <1>1, <1>2, <1>3, TypeCorrect, VersionsUnique, PTL DEF Spec

-----------------------------------------------------------------------------
(* One admin: the protected streams keep a version *)

\* Nothing is published before the first start has finished, and its seed
\* then meets empty tables; later ones find nothing to insert.
FirstStart ==
    boot = "never" => rules = {} /\ missing = {} /\ \A p \in Callers : pc[p] = "idle"

\* A deletion under way leaves another version of a protected stream.
LeavesOne(p) ==
    pc[p] = "delete" =>
        /\ p \in Admins
        /\ Protected(req[p].stream) =>
              \E r \in rules : r.stream = req[p].stream /\ r.version # req[p].version

DeletionLeavesOne == \A p \in Callers : LeavesOne(p)

MainInv ==
    /\ IsFiniteSet(rules)
    /\ FirstStart
    /\ DeletionLeavesOne
    /\ ProtectedMainKeepsAVersion
    /\ SeedNeverCollides

\* Two rows of a stream have two versions, and one of them is not v.
LEMMA AnotherVersion ==
    ASSUME IsFiniteSet(rules), UniqueVersions, NEW s, NEW v, ~(Cardinality(RowsOf(s)) <= 1)
    PROVE  \E r \in RowsOf(s) : r.version # v
<1> SUFFICES ASSUME \A r \in RowsOf(s) : r.version = v PROVE FALSE
  OBVIOUS
<1>1. \A r, q \in RowsOf(s) : r = q
  BY DEF RowsOf, UniqueVersions
<1>2. CASE RowsOf(s) = {}
  BY <1>2, FS_EmptySet
<1>3. CASE RowsOf(s) # {}
  <2>1. PICK r : r \in RowsOf(s)
    BY <1>3
  <2>2. RowsOf(s) = {r}
    BY <1>1, <2>1
  <2> QED
    BY <2>2, FS_Singleton
<1> QED
  BY <1>2, <1>3

LEMMA SeedRowsFinite ==
    ASSUME NEW S \in SUBSET Seeds
    PROVE  IsFiniteSet(SeedRows(S))
<1> DEFINE seedRow == [s \in S |-> Row(0, s, 1, {SeedText})]
<1>1. IsFiniteSet(S)
  BY StreamsAssumption, FS_Subset
<1>2. seedRow \in [S -> SeedRows(S)]
  BY DEF SeedRows
<1>3. \A r \in SeedRows(S) : \E s \in S : seedRow[s] = r
  BY DEF SeedRows
<1>4. seedRow \in Surjection(S, SeedRows(S))
  BY <1>2, <1>3 DEF Surjection
<1> QED
  BY <1>1, <1>4, FS_Surjection

\* Once the protected streams have rows no seed is missing.
LEMMA NothingMissing ==
    ASSUME \A s \in Streams : Protected(s) => Versions(s) # {}
    PROVE  SeedsMissing = {}
<1> DEFINE g == [scope |-> "global", owner |-> Default, section |-> Main]
           d == [scope |-> "repo", owner |-> Default, section |-> Main]
<1>1. g \in Streams /\ Protected(g) /\ d \in Streams /\ Protected(d)
  BY StreamsAssumption DEF Protected
<1>2. RowsOf(g) # {} /\ RowsOf(d) # {}
  BY <1>1 DEF Versions
<1>3. RowsIn("global") # {} /\ RowsIn("repo") # {}
  BY <1>2 DEF RowsOf, RowsIn
<1> QED
  BY <1>3 DEF SeedsMissing

LEMMA FiniteStep ==
    ASSUME TypeOK, IsFiniteSet(rules), [Next]_vars, Resetters = {}
    PROVE  IsFiniteSet(rules')
<1>1. CASE rules' \subseteq rules
  BY <1>1, FS_Subset
<1>2. CASE rules' = rules \cup SeedRows(SeedsMissing)
  BY <1>2, SeedsMissingType, SeedRowsFinite, FS_Union
<1>3. ASSUME NEW p \in Publishers, Insert(p) PROVE IsFiniteSet(rules')
  BY <1>3, FS_AddElement DEF Insert
<1>4. \/ rules' \subseteq rules \/ rules' = rules \cup SeedRows(SeedsMissing)
      \/ \E p \in Publishers : Insert(p)
  BY StepCases DEF vars, StartStep, StartMigration, CommitMigration, Seed,
     PublisherCase, ReadNextVersion, IndexDelete, IndexCommit, Passes, AdminCase,
     CountVersions, DeleteVersion, DeleteCategory, DeleteOwner, DeleteRows,
     ToggleOption, Leaves
<1> QED
  BY <1>1, <1>2, <1>3, <1>4

LEMMA SeedStep ==
    ASSUME TypeOK, MainInv, StartStep
    PROVE  /\ FirstStart' /\ DeletionLeavesOne'
           /\ ProtectedMainKeepsAVersion' /\ SeedNeverCollides'
<1>1. CASE StartMigration
  BY <1>1 DEF StartMigration, RowsIn, MainInv, FirstStart, DeletionLeavesOne, LeavesOne,
     ProtectedMainKeepsAVersion, SeedNeverCollides, RowsOf, Versions
<1>2. CASE CommitMigration
  BY <1>2 DEF CommitMigration, MainInv, FirstStart, DeletionLeavesOne, LeavesOne,
     ProtectedMainKeepsAVersion, SeedNeverCollides, RowsOf, Versions
<1>3. CASE Seed /\ boot = "never"
  <2>1. rules = {} /\ SeedsMissing = Seeds
    BY <1>3 DEF MainInv, FirstStart, SeedsMissing, RowsIn
  <2>2. boot' = "up" /\ rules' = SeedRows(Seeds) /\ pc' = pc
    BY <1>3, <2>1 DEF Seed, Taken, Versions, RowsOf
  <2>3. ASSUME NEW s \in Streams, Protected(s) PROVE Versions(s)' # {}
    <3>1. Row(0, s, 1, {SeedText}) \in rules'
      BY <2>2, <2>3, StreamsAssumption DEF SeedRows
    <3> QED
      BY <3>1 DEF Versions, RowsOf, Row
  <2> QED
    BY <1>3, <2>2, <2>3 DEF MainInv, FirstStart, DeletionLeavesOne, LeavesOne,
       ProtectedMainKeepsAVersion, SeedNeverCollides
<1>4. CASE Seed /\ boot # "never"
  <2>1. SeedsMissing = {}
    BY <1>4, NothingMissing DEF MainInv, ProtectedMainKeepsAVersion
  <2>2. boot' = "up" /\ rules' = rules
    BY <1>4, <2>1 DEF Seed, SeedRows
  <2> QED
    BY <1>4, <2>2 DEF Seed, MainInv, FirstStart, DeletionLeavesOne, LeavesOne,
       ProtectedMainKeepsAVersion, SeedNeverCollides, RowsOf, Versions
<1> QED
  BY <1>1, <1>2, <1>3, <1>4 DEF StartStep

\* The only deletion that can reach a protected stream is the one whose
\* handler has counted; with one admin nobody deletes in between.
LEMMA AdminMainStep ==
    ASSUME TypeOK, UniqueVersions, MainInv, \A p, q \in Admins : p = q,
           NEW p \in Admins, AdminCase(p)
    PROVE  /\ FirstStart' /\ DeletionLeavesOne'
           /\ ProtectedMainKeepsAVersion' /\ SeedNeverCollides'
<1>1. boot # "never" /\ boot' = boot
  <2>1. boot' = boot
    BY DEF AdminCase, CountVersions, DeleteVersion, DeleteCategory, DeleteOwner,
       DeleteRows, ToggleOption, starting
  <2>2. p \in Callers /\ (boot = "never" => pc[p] = "idle")
    BY DEF Callers, MainInv, FirstStart
  <2> QED
    BY <2>1, <2>2 DEF AdminCase, CountVersions, DeleteVersion, DeleteCategory,
       DeleteOwner, DeleteRows, ToggleOption, Serving, AtStep
<1>2. FirstStart' /\ SeedNeverCollides'
  BY <1>1 DEF MainInv, FirstStart, SeedNeverCollides
<1>3. \A s \in Streams : Protected(s) => Versions(s) # {}
  BY <1>1 DEF MainInv, ProtectedMainKeepsAVersion
<1>4. ASSUME NEW s \in Streams, NEW v \in Nat, CountVersions(p, s, v)
      PROVE  DeletionLeavesOne' /\ ProtectedMainKeepsAVersion'
  <2>1. rules' = rules /\ pc' = [pc EXCEPT ![p] = "delete"] /\ p \in Callers
    BY <1>4 DEF CountVersions, Goto, Callers
  <2>2. req'[p].stream = s /\ req'[p].version = v
    BY <1>4, <2>1 DEF CountVersions, Remember, Accepted, TypeOK
  <2>3. \A q \in Callers \ {p} : req'[q] = req[q]
    BY <1>4 DEF CountVersions, Remember, TypeOK
  <2>4. Protected(s) => \E r \in RowsOf(s) : r.version # v
    BY <1>4, AnotherVersion DEF CountVersions, DeletionRefused, MainInv
  <2>5. DeletionLeavesOne'
    <3> SUFFICES ASSUME NEW q \in Callers PROVE LeavesOne(q)'
      BY DEF DeletionLeavesOne
    <3>1. CASE q = p
      BY <2>1, <2>2, <2>4, <3>1 DEF LeavesOne, RowsOf
    <3>2. CASE q # p
      BY <2>1, <2>3, <3>2 DEF MainInv, DeletionLeavesOne, LeavesOne, TypeOK
    <3> QED
      BY <3>1, <3>2
  <2> QED
    BY <1>1, <2>1, <2>5 DEF MainInv, ProtectedMainKeepsAVersion, Versions, RowsOf
<1>5. CASE DeleteVersion(p)
  <2>1. pc[p] = "delete" /\ p \in Callers
    BY <1>5 DEF DeleteVersion, AtStep, Callers
  <2>2. \A q \in Callers : pc'[q] # "delete"
    BY <1>5, <2>1 DEF DeleteVersion, Return, Goto, MainInv, DeletionLeavesOne, LeavesOne, TypeOK
  <2>3. ASSUME NEW s \in Streams, Protected(s) PROVE Versions(s)' # {}
    <3>1. CASE s = req[p].stream
      <4>1. PICK r \in RowsOf(s) : r.version # req[p].version
        BY <2>1, <2>3, <3>1 DEF MainInv, DeletionLeavesOne, LeavesOne, RowsOf
      <4>2. r \in rules' /\ r.stream = s
        BY <1>5, <4>1 DEF DeleteVersion, RowsOf
      <4> QED
        BY <4>2 DEF Versions, RowsOf
    <3>2. CASE s # req[p].stream
      <4>1. PICK r \in rules : r.stream = s
        BY <1>3, <2>3 DEF Versions, RowsOf
      <4>2. r \in rules'
        BY <1>5, <3>2, <4>1 DEF DeleteVersion
      <4> QED
        BY <4>1, <4>2 DEF Versions, RowsOf
    <3> QED
      BY <3>1, <3>2
  <2>4. DeletionLeavesOne'
    BY <2>2 DEF DeletionLeavesOne, LeavesOne
  <2>5. ProtectedMainKeepsAVersion'
    BY <2>3 DEF ProtectedMainKeepsAVersion
  <2> QED
    BY <1>2, <2>4, <2>5
<1>6. ASSUME NEW R, DeleteRows(p, R), \A r \in R : ~Protected(r.stream)
      PROVE  DeletionLeavesOne' /\ ProtectedMainKeepsAVersion'
  <2>1. rules' = rules \ R /\ pc' = pc /\ req' = req
    BY <1>6 DEF DeleteRows
  <2>2. \A s : Protected(s) => RowsOf(s)' = RowsOf(s)
    BY <1>6, <2>1 DEF RowsOf
  <2>3. ProtectedMainKeepsAVersion'
    BY <1>3, <2>2 DEF ProtectedMainKeepsAVersion, Versions
  <2>4. ASSUME NEW q \in Callers PROVE LeavesOne(q)'
    BY <1>6, <2>1 DEF MainInv, DeletionLeavesOne, LeavesOne
  <2> QED
    BY <2>3, <2>4 DEF DeletionLeavesOne
<1>7. ASSUME NEW s \in Streams, DeleteCategory(p, s)
      PROVE  DeletionLeavesOne' /\ ProtectedMainKeepsAVersion'
  <2>1. \A r \in RowsOf(s) : ~Protected(r.stream)
    BY <1>7 DEF DeleteCategory, RowsOf, Protected
  <2> QED
    BY <1>6, <1>7, <2>1 DEF DeleteCategory
<1>8. ASSUME NEW scope, NEW owner, DeleteOwner(p, scope, owner)
      PROVE  DeletionLeavesOne' /\ ProtectedMainKeepsAVersion'
  <2>1. \A r \in RowsOwnedBy(scope, owner) : ~Protected(r.stream)
    BY <1>8 DEF DeleteOwner, RowsOwnedBy, Protected
  <2> QED
    BY <1>6, <1>8, <2>1 DEF DeleteOwner
<1>9. ASSUME NEW owner, ToggleOption(p, owner)
      PROVE  DeletionLeavesOne' /\ ProtectedMainKeepsAVersion'
  BY <1>9 DEF ToggleOption, MainInv, DeletionLeavesOne, LeavesOne, ProtectedMainKeepsAVersion,
     RowsOf, Versions
<1>10. DeletionLeavesOne' /\ ProtectedMainKeepsAVersion'
  BY <1>4, <1>5, <1>7, <1>8, <1>9, BoundsAssumption DEF AdminCase
<1> QED
  BY <1>2, <1>10

\* The publishers only add rows, and what they hold is no deletion.
LEMMA PublisherMainStep ==
    ASSUME TypeOK, MainInv, NEW p \in Publishers, PublisherCase(p)
    PROVE  /\ FirstStart' /\ DeletionLeavesOne'
           /\ ProtectedMainKeepsAVersion' /\ SeedNeverCollides'
<1>1. p \in Callers /\ boot' = boot /\ rules \subseteq rules'
  BY DEF Callers, PublisherCase, ReadNextVersion, Insert, IndexDelete, IndexCommit,
     Passes
<1>2. pc[p] # "idle" /\ boot # "never"
  BY <1>1 DEF PublisherCase, ReadNextVersion, Insert, IndexDelete, IndexCommit,
     Passes, AtStep, MainInv, FirstStart
<1>3. FirstStart' /\ SeedNeverCollides'
  BY <1>1, <1>2 DEF MainInv, FirstStart, SeedNeverCollides
<1>4. \A q \in Callers : pc'[q] = "delete" => pc[q] = "delete" /\ req'[q] = req[q]
  BY <1>1 DEF PublisherCase, ReadNextVersion, Insert, IndexDelete, IndexCommit,
     Passes, Goto, Remember, TypeOK
<1>5. ASSUME NEW q \in Callers PROVE LeavesOne(q)'
  BY <1>1, <1>4 DEF MainInv, DeletionLeavesOne, LeavesOne
<1>6. ASSUME NEW s \in Streams, Protected(s) PROVE Versions(s)' # {}
  <2>1. PICK r \in rules : r.stream = s
    BY <1>2, <1>6 DEF MainInv, ProtectedMainKeepsAVersion, Versions, RowsOf
  <2> QED
    BY <1>1, <2>1 DEF Versions, RowsOf
<1>7. DeletionLeavesOne'
  BY <1>5 DEF DeletionLeavesOne
<1>8. ProtectedMainKeepsAVersion'
  BY <1>6 DEF ProtectedMainKeepsAVersion
<1> QED
  BY <1>3, <1>7, <1>8

\* Nor does a handler that starts or gives up touch the tables.
LEMMA LeavesMainStep ==
    ASSUME TypeOK, MainInv, NEW p \in Callers, Leaves(p)
    PROVE  /\ FirstStart' /\ DeletionLeavesOne'
           /\ ProtectedMainKeepsAVersion' /\ SeedNeverCollides'
<1>1. rules' = rules /\ boot # "never" /\ boot' \in {boot, "down"}
  BY DEF Leaves, MainInv, FirstStart
<1>2. FirstStart' /\ SeedNeverCollides'
  BY <1>1 DEF MainInv, FirstStart, SeedNeverCollides
<1>3. ASSUME NEW q \in Callers PROVE LeavesOne(q)'
  BY <1>1 DEF MainInv, DeletionLeavesOne, LeavesOne, Leaves, OthersStay
<1>4. ProtectedMainKeepsAVersion'
  BY <1>1 DEF MainInv, ProtectedMainKeepsAVersion, Versions, RowsOf
<1> QED
  BY <1>2, <1>3, <1>4 DEF DeletionLeavesOne

LEMMA MainStep ==
    ASSUME TypeOK, UniqueVersions, MainInv, [Next]_vars,
           \A p, q \in Admins : p = q, Resetters = {}
    PROVE  MainInv'
<1>1. IsFiniteSet(rules')
  BY FiniteStep DEF MainInv
<1>2. CASE UNCHANGED vars
  BY <1>2 DEF vars, MainInv, FirstStart, DeletionLeavesOne, LeavesOne, SeedNeverCollides,
     ProtectedMainKeepsAVersion, Versions, RowsOf, starting
<1>3. /\ FirstStart' /\ DeletionLeavesOne'
      /\ ProtectedMainKeepsAVersion' /\ SeedNeverCollides'
  BY <1>2, StepCases, SeedStep, AdminMainStep, PublisherMainStep, LeavesMainStep DEF MainInv
<1> QED
  BY <1>1, <1>3 DEF MainInv

LEMMA MainInvAlways ==
    (\A p, q \in Admins : p = q) /\ Resetters = {} /\ Spec => []MainInv
<1> SUFFICES ASSUME \A p, q \in Admins : p = q, Resetters = {}
             PROVE  Spec => []MainInv
  OBVIOUS
<1>1. Init => MainInv
  BY FS_EmptySet DEF Init, MainInv, FirstStart, DeletionLeavesOne, LeavesOne,
     ProtectedMainKeepsAVersion, SeedNeverCollides
<1>2. TypeOK /\ UniqueVersions /\ MainInv /\ [Next]_vars => MainInv'
  BY MainStep
<1> QED
  BY <1>1, <1>2, TypeCorrect, VersionsUnique, PTL DEF Spec

\* With one admin at a time, and nobody who forces a re-seed, the pages never
\* take the last version of a protected stream (the *_version_delete handlers
\* of admin_rules_*.py, which count before they delete).
THEOREM OneAdminKeepsMain ==
    (\A p, q \in Admins : p = q) /\ Resetters = {} /\ Spec
        => []ProtectedMainKeepsAVersion
<1> SUFFICES ASSUME \A p, q \in Admins : p = q, Resetters = {}
             PROVE  Spec => []ProtectedMainKeepsAVersion
  OBVIOUS
<1>1. MainInv => ProtectedMainKeepsAVersion
  BY DEF MainInv
<1> QED
  BY <1>1, MainInvAlways, PTL

\* Then a restart never finds tables that seed_if_empty collides with, whatever
\* agents publish and admins delete while the server is up or down.
THEOREM RestartsSucceed ==
    (\A p, q \in Admins : p = q) /\ Resetters = {} /\ Spec => []SeedNeverCollides
<1> SUFFICES ASSUME \A p, q \in Admins : p = q, Resetters = {}
             PROVE  Spec => []SeedNeverCollides
  OBVIOUS
<1>1. MainInv => SeedNeverCollides
  BY DEF MainInv
<1> QED
  BY <1>1, MainInvAlways, PTL

=============================================================================
