------------------------------ MODULE RuleStore ------------------------------
(***************************************************************************)
(* The versioned rule tables of mcper and every handler that writes them:  *)
(* the MCP publish, patch and rollback tools, the admin pages, the         *)
(* boot-time seed and the forced re-seed.                                  *)
(*                                                                         *)
(* A stream is one (table, owner, section): the global table has one owner,*)
(* the app table one per app_name, the repo table one per URL pattern.     *)
(* Every handler has its own database session; a step is one statement or  *)
(* one commit of such a session (READ COMMITTED), so the steps of          *)
(* different handlers interleave.                                          *)
(***************************************************************************)
EXTENDS Naturals, FiniteSets

CONSTANTS
    Streams,     \* the streams: [scope, owner, section] records
    Seeds,       \* the streams the boot-time seed fills
    Default,     \* owner of the global stream, "__default__" app, "" pattern
    Main,        \* the section "main"
    Texts,       \* fragments of rule text; a body is the set it is made of
    SeedText,    \* the text of the seeded rules
    Publishers,  \* sessions that publish, patch and roll back
    Admins,      \* sessions that delete
    Resetters,   \* sessions that force a re-seed
    NoRequest,   \* what an idle session holds
    MaxRows      \* bound: rows published in a behaviour

Bodies == SUBSET Texts          \* {} is a blank body
Scopes == {"global", "app", "repo"}
Owners == {s.owner : s \in Streams}
Callers == Publishers \cup Admins \cup Resetters

\* The streams an admin page refuses to empty.
Protected(s) == s.owner = Default /\ s.section = Main

\* seed_all_rows puts one global, one app and the repo rows, all into "main";
\* it and the fallback of an app to "__default__" stay inside the streams.
ASSUME StreamsAssumption ==
    /\ \A s \in Streams : /\ s.scope \in Scopes
                          /\ s = [scope |-> s.scope, owner |-> s.owner,
                                  section |-> s.section]
    /\ \A s \in Streams : s.scope = "global" => s.owner = Default
    /\ \A s \in Streams : s.scope = "app" =>
          [s EXCEPT !.owner = Default] \in Streams
    /\ Seeds \subseteq Streams /\ IsFiniteSet(Seeds)
    /\ \A s \in Seeds : s.section = Main
    /\ \A s \in Streams : Protected(s) => s \in Seeds
    /\ \A scope \in {"global", "repo"} :
          [scope |-> scope, owner |-> Default, section |-> Main] \in Streams

ASSUME BoundsAssumption == SeedText \in Texts /\ MaxRows \in Nat

VARIABLES
    rules,    \* rows of the three rule tables
    nextId,   \* next primary key
    chunks,   \* search index: which publication the chunks of a stream show
    options,  \* patterns that have a pull-option row
    boot,     \* outcome of the last start of a server process
    start,    \* where the starting process is
    missing,  \* patterns whose pull-option row it is about to add
    pc,       \* pc[p]: where p's handler is
    req       \* req[p]: the handler's local variables

starting == <<start, missing>>
vars == <<rules, nextId, chunks, options, boot, starting, pc, req>>

-----------------------------------------------------------------------------
(* Reading the tables *)

RowsOf(s) == {r \in rules : r.stream = s}
Versions(s) == {r.version : r \in RowsOf(s)}
RowsIn(scope) == {r \in rules : r.stream.scope = scope}
RowsOwnedBy(scope, owner) == {r \in RowsIn(scope) : r.stream.owner = owner}

Latest(s) == {r \in RowsOf(s) : \A q \in RowsOf(s) : q.version <= r.version}

\* Mutant: the maximum itself, without the + 1.
NextVersionNotIncremented(s) ==
    {n \in {0} \cup Versions(s) : \A v \in Versions(s) : v <= n}

\* max + 1: the one number of this set, 1 when the stream is empty.
NextVersion(s) ==
    {n \in {v + 1 : v \in {0} \cup Versions(s)} : \A v \in Versions(s) : v < n}

\* The row a patch extends: an app without rows of its own borrows the same
\* section of "__default__".
PatchBase(s) ==
    IF s.scope = "app" /\ RowsOf(s) = {}
    THEN Latest([s EXCEPT !.owner = Default])
    ELSE Latest(s)

BaseBody(s) == UNION {r.body : r \in PatchBase(s)}

\* Mutant: tables without their unique constraint.
TakenUnchecked(s, v) == v = 0

\* The unique constraint of the tables: (stream, version).
Taken(s, v) == v \in Versions(s)

\* Mutants: an off-by-one in the count, and one table without the guard.
DeletionRefusedWhenEmpty(s) == Protected(s) /\ Cardinality(RowsOf(s)) < 1
DeletionRefusedForApps(s) ==
    Protected(s) /\ s.scope = "app" /\ Cardinality(RowsOf(s)) <= 1

\* Versions an admin may not take away: the last one of a protected stream.
DeletionRefused(s) == Protected(s) /\ Cardinality(RowsOf(s)) <= 1

Row(id, s, v, b) == [id |-> id, stream |-> s, version |-> v, body |-> b]

\* Seeded rows are never handed to the indexer: their key is left at 0.
SeedRows(S) == {Row(0, s, 1, {SeedText}) : s \in S}

\* Mutants: the repo check alone, and a seed that does not look first.
SeedsMissingFromRepo ==
    IF RowsIn("repo") = {} THEN {s \in Seeds : s.scope = "repo"} ELSE {}
SeedsMissingUnchecked == Seeds

\* seed_if_empty fills everything when the global table is empty, and
\* seed_repo_if_empty the patterns when only the repo table is.
SeedsMissing ==
    IF RowsIn("global") = {} THEN Seeds
    ELSE IF RowsIn("repo") = {} THEN {s \in Seeds : s.scope = "repo"}
    ELSE {}

-----------------------------------------------------------------------------
Request == [patch : BOOLEAN, stream : Streams, body : Bodies, version : Nat,
            id : Nat, newOption : BOOLEAN,
            seen : SUBSET [stream : Streams, id : Nat]]

ASSUME NoRequestAssumption == NoRequest \notin Request

Accepted(patch, s, b) ==
    [patch |-> patch, stream |-> s, body |-> b, version |-> 0, id |-> 0,
     newOption |-> FALSE, seen |-> {}]

AtStep(p, step) == pc[p] = step
Goto(p, step) == pc' = [pc EXCEPT ![p] = step]
Remember(p, r) == req' = [req EXCEPT ![p] = r]
Return(p) == Goto(p, "idle") /\ Remember(p, NoRequest)

Serving(p) == AtStep(p, "idle") /\ boot # "never"

Init ==
    /\ rules = {} /\ nextId = 1 /\ chunks = {} /\ options = {}
    /\ boot = "never" /\ start = "none" /\ missing = {}
    /\ pc = [p \in Callers |-> "idle"]
    /\ req = [p \in Callers |-> NoRequest]

-----------------------------------------------------------------------------
(* Server start.  One process at a time: the ALTER TABLEs of the migration *)
(* make the others wait. *)

\* The migration looks for patterns without a pull-option row ...
StartMigration ==
    /\ start = "none"
    /\ start' = "migrate"
    /\ missing' = {r.stream.owner : r \in RowsIn("repo")} \ options
    /\ UNCHANGED <<rules, nextId, chunks, options, boot, pc, req>>

\* ... and adds the rows, or dies on one that has been added in between: the
\* statement has no ON CONFLICT, and init_db retries connection errors only.
CommitMigration ==
    /\ start = "migrate"
    /\ IF missing \cap options = {}
       THEN options' = options \cup missing /\ start' = "seed" /\ boot' = boot
       ELSE options' = options /\ start' = "none" /\ boot' = "raced"
    /\ missing' = {}
    /\ UNCHANGED <<rules, nextId, chunks, pc, req>>

\* Both seeds under their advisory locks; a duplicate (stream, version)
\* aborts the transaction and with it the start of the process.  The counts,
\* the inserts and the commits are one step: the locks keep other starts out,
\* and a publish or a deletion that commits in between is left out.
Seed ==
    /\ start = "seed"
    /\ start' = "none"
    /\ IF \E s \in SeedsMissing : Taken(s, 1)
       THEN boot' = "collided" /\ rules' = rules
       ELSE boot' = "up" /\ rules' = rules \cup SeedRows(SeedsMissing)
    /\ UNCHANGED <<nextId, chunks, options, missing, pc, req>>

-----------------------------------------------------------------------------
(* Publishing *)

Accept(p, patch, s, b) ==
    /\ Serving(p)
    /\ Goto(p, "read")
    /\ Remember(p, Accepted(patch, s, b))
    /\ UNCHANGED <<rules, nextId, chunks, options, boot, starting>>

RequestPublish(p, s, b) == Accept(p, FALSE, s, b)

\* The admin pages "new app" and "new pattern" publish the first "main" of an
\* owner that has no rows yet ...
RequestNewOwner(p, s, b) ==
    /\ s.section = Main /\ s.scope # "global"
    /\ RowsOwnedBy(s.scope, s.owner) = {}
    /\ RequestPublish(p, s, b)

\* ... and "new category" another section that has none.
RequestNewCategory(p, s, b) ==
    /\ s.section # Main
    /\ RowsOf(s) = {}
    /\ RequestPublish(p, s, b)

\* append_to_app_rule and the patch tools read the latest body first.
RequestPatch(p, s, t) == Accept(p, TRUE, s, BaseBody(s) \cup {t})

RequestRollback(p, s, r) == r \in RowsOf(s) /\ Accept(p, FALSE, s, r.body)

\* The next number, and for a pattern whether its pull-option row is missing:
\* two statements of one handler, read here at one moment.
ReadNextVersion(p) ==
    /\ AtStep(p, "read")
    /\ \E n \in NextVersion(req[p].stream) :
          Remember(p, [req[p] EXCEPT
              !.version = n,
              !.newOption = /\ req[p].stream.scope = "repo"
                            /\ req[p].stream.owner \notin options])
    /\ Goto(p, "insert")
    /\ UNCHANGED <<rules, nextId, chunks, options, boot, starting>>

\* Mutant: only a publish of "main" adds the pull-option row.
OptionRowOfMain(p) ==
    IF req[p].newOption /\ req[p].stream.section = Main THEN {req[p].stream.owner} ELSE {}

\* The pull-option row this publish adds beside the rule.
OptionRow(p) == IF req[p].newOption THEN {req[p].stream.owner} ELSE {}

\* The commit meets a row with the same key: IntegrityError, nothing is kept.
InsertConflict(p) ==
    /\ AtStep(p, "insert")
    /\ \/ Taken(req[p].stream, req[p].version)
       \/ OptionRow(p) \cap options # {}
    /\ Return(p)
    /\ UNCHANGED <<rules, nextId, chunks, options, boot, starting>>

\* The rule and, for a new pattern, its pull-option row in one transaction.
Insert(p) ==
    /\ AtStep(p, "insert")
    /\ nextId <= MaxRows
    /\ ~Taken(req[p].stream, req[p].version)
    /\ OptionRow(p) \cap options = {}
    /\ rules' = rules \cup {Row(nextId, req[p].stream, req[p].version, req[p].body)}
    /\ options' = options \cup OptionRow(p)
    /\ nextId' = nextId + 1
    /\ Remember(p, [req[p] EXCEPT !.id = nextId])
    /\ Goto(p, "index")
    /\ UNCHANGED <<chunks, boot, starting>>

-----------------------------------------------------------------------------
(* Indexing what was published; no error of it reaches the caller *)

Published(p) == \E r \in RowsOf(req[p].stream) : r.id = req[p].id

\* The row is read back for its key; it may be gone by now, and that error
\* does reach the caller.
RefreshFail(p) ==
    /\ AtStep(p, "index")
    /\ ~Published(p)
    /\ Return(p)
    /\ UNCHANGED <<rules, nextId, chunks, options, boot, starting>>

\* A blank body has no chunks and the index is left as it is.
IndexSkip(p) ==
    /\ AtStep(p, "index")
    /\ Published(p) /\ req[p].body = {}
    /\ Goto(p, "invalidate")
    /\ UNCHANGED <<rules, nextId, chunks, options, boot, starting, req>>

\* Mutant: the DELETE looks for the key of the new version.
DeletedByEntity(p) == {c \in chunks : c.stream = req[p].stream /\ c.id = req[p].id}

\* The chunks a DELETE of the section meets: those committed by now.
DeletedBy(p) == {c \in chunks : c.stream = req[p].stream}

IndexDelete(p) ==
    /\ AtStep(p, "index")
    /\ Published(p) /\ req[p].body # {}
    /\ Remember(p, [req[p] EXCEPT !.seen = DeletedBy(p)])
    /\ Goto(p, "indexing")
    /\ UNCHANGED <<rules, nextId, chunks, options, boot, starting>>

IndexCommit(p) ==
    /\ AtStep(p, "indexing")
    /\ chunks' = (chunks \ req[p].seen)
                     \cup {[stream |-> req[p].stream, id |-> req[p].id]}
    /\ Goto(p, "invalidate")
    /\ UNCHANGED <<rules, nextId, options, boot, starting, req>>

\* Embedding or database error in the indexer: logged, its work is lost.
IndexFail(p) ==
    /\ \/ AtStep(p, "index") /\ Published(p)
       \/ AtStep(p, "indexing")
    /\ Goto(p, "invalidate")
    /\ UNCHANGED <<rules, nextId, chunks, options, boot, starting, req>>

\* The cached responses go, and the caller is told the version.
Invalidate(p) ==
    /\ AtStep(p, "invalidate")
    /\ Return(p)
    /\ UNCHANGED <<rules, nextId, chunks, options, boot, starting>>

-----------------------------------------------------------------------------
(* Admin pages *)

\* Deleting a version: the handler counts first ...
CountVersions(p, s, v) ==
    /\ Serving(p)
    /\ ~DeletionRefused(s)
    /\ Remember(p, [Accepted(FALSE, s, {}) EXCEPT !.version = v])
    /\ Goto(p, "delete")
    /\ UNCHANGED <<rules, nextId, chunks, options, boot, starting>>

\* ... and deletes in a statement of its own.
DeleteVersion(p) ==
    /\ AtStep(p, "delete")
    /\ rules' = {r \in rules : ~ /\ r.stream = req[p].stream
                                 /\ r.version = req[p].version}
    /\ Return(p)
    /\ UNCHANGED <<nextId, chunks, options, boot, starting>>

DeleteRows(p, R) ==
    /\ Serving(p)
    /\ R # {}
    /\ rules' = rules \ R
    /\ UNCHANGED <<nextId, chunks, options, boot, starting, pc, req>>

\* A whole category, never "main".
DeleteCategory(p, s) == s.section # Main /\ DeleteRows(p, RowsOf(s))

\* A whole app or pattern, never the default one.  The pull-option row of a
\* pattern stays.
DeleteOwner(p, scope, owner) ==
    /\ scope \in {"app", "repo"} /\ owner # Default
    /\ DeleteRows(p, RowsOwnedBy(scope, owner))

\* The first toggle of a pattern's merge option adds its pull-option row.
ToggleOption(p, owner) ==
    /\ Serving(p)
    /\ RowsOwnedBy("repo", owner) # {}
    /\ options' = options \cup {owner}
    /\ UNCHANGED <<rules, nextId, chunks, boot, starting, pc, req>>

\* Forced re-seed: one transaction wipes the tables ...
ForceWipe(p) ==
    /\ Serving(p)
    /\ rules' = {}
    /\ Goto(p, "reseed")
    /\ UNCHANGED <<nextId, chunks, options, boot, starting, req>>

\* ... and a second one fills them, or fails on a row that came in between.
ForceReseed(p) ==
    /\ AtStep(p, "reseed")
    /\ rules' = IF \E s \in Seeds : Taken(s, 1) THEN rules
                ELSE rules \cup SeedRows(Seeds)
    /\ Goto(p, "idle")
    /\ UNCHANGED <<nextId, chunks, options, boot, starting, req>>

\* The process of a handler dies: its open transaction is rolled back and the
\* process has to be started again.  The other processes keep serving.
Crash(p) ==
    /\ ~AtStep(p, "idle")
    /\ Return(p)
    /\ boot' = "down"
    /\ UNCHANGED <<rules, nextId, chunks, options, starting>>

-----------------------------------------------------------------------------
PublisherStep(p) ==
    \/ \E s \in Streams, b \in Bodies : RequestPublish(p, s, b)
    \/ \E s \in Streams, b \in Bodies : RequestNewOwner(p, s, b)
    \/ \E s \in Streams, b \in Bodies : RequestNewCategory(p, s, b)
    \/ \E s \in Streams, t \in Texts : RequestPatch(p, s, t)
    \/ \E s \in Streams, r \in rules : RequestRollback(p, s, r)
    \/ ReadNextVersion(p)
    \/ InsertConflict(p)
    \/ Insert(p)
    \/ RefreshFail(p)
    \/ IndexSkip(p)
    \/ IndexDelete(p)
    \/ IndexCommit(p)
    \/ IndexFail(p)
    \/ Invalidate(p)

AdminStep(p) ==
    \/ \E s \in Streams, v \in 1 .. MaxRows + 1 : CountVersions(p, s, v)
    \/ DeleteVersion(p)
    \/ \E s \in Streams : DeleteCategory(p, s)
    \/ \E scope \in Scopes, owner \in Owners : DeleteOwner(p, scope, owner)
    \/ \E owner \in Owners : ToggleOption(p, owner)

ResetterStep(p) ==
    \/ ForceWipe(p)
    \/ ForceReseed(p)

StartStep == StartMigration \/ CommitMigration \/ Seed

Next ==
    \/ StartStep
    \/ \E p \in Publishers : PublisherStep(p)
    \/ \E p \in Admins : AdminStep(p)
    \/ \E p \in Resetters : ResetterStep(p)
    \/ \E p \in Callers : Crash(p)

Spec == Init /\ [][Next]_vars

\* A server process that went down is started again (restart policy of the
\* deployment), and a handler that is not killed runs on.
Fairness ==
    /\ WF_vars(boot # "up" /\ StartMigration)
    /\ WF_vars(CommitMigration) /\ WF_vars(Seed)
    /\ \A p \in Resetters : WF_vars(ForceReseed(p))

LiveSpec == Spec /\ Fairness

-----------------------------------------------------------------------------
(* Properties *)

PublishSteps == {"read", "insert", "index", "indexing", "invalidate"}
Steps == PublishSteps \cup {"idle", "delete", "reseed"}
Held == {"index", "indexing", "invalidate"}  \* after the commit of the rule

\* The variables keep their types, and a handler holds a request exactly
\* while it works on one.
TypeOK ==
    /\ rules \subseteq [id : Nat, stream : Streams, version : Nat \ {0}, body : Bodies]
    /\ nextId \in 1 .. MaxRows + 1
    /\ chunks \subseteq [stream : Streams, id : Nat]
    /\ options \subseteq Owners
    /\ boot \in {"never", "up", "down", "raced", "collided"}
    /\ start \in {"none", "migrate", "seed"}
    /\ missing \subseteq Owners
    /\ pc \in [Callers -> Steps]
    /\ req \in [Callers -> Request \cup {NoRequest}]
    /\ \A p \in Callers :
          /\ pc[p] \in PublishSteps \cup {"delete"} => req[p] \in Request
          /\ pc[p] = "insert" => req[p].version # 0

\* Without the admin pages the tables are the append-only, gap-free logs of
\* VersionLog, whatever the interleaving of the publishers, the crashes and
\* the restarts (the max + 1 read of next_*_version against the unique
\* constraint of the tables).
Entry(r) == [stream |-> r.stream, version |-> r.version, body |-> r.body]

Entries(R) == {Entry(r) : r \in R}

Log == INSTANCE VersionLog WITH log <- Entries(rules)

AppendOnly == Log!Spec

\* A version number is given to one caller: two publishes of one stream that
\* are both past their commit never carry the same number.
VersionGoesToOneCaller ==
    \A p, q \in Publishers :
        /\ p # q /\ pc[p] \in Held /\ pc[q] \in Held
        /\ req[p].stream = req[q].stream
        => req[p].version # req[q].version

\* publish_repo commits a rule and the pull-option row of its pattern
\* together, so no published pattern lacks its option, even when two first
\* publishes for one pattern race or one of them crashes.
PatternHasItsOption ==
    \A r \in rules : r.stream.scope = "repo" /\ r.id # 0 => r.stream.owner \in options

\* "main" of the global rules, of the "__default__" app and of the ""
\* pattern keeps a version once the server has started.
ProtectedMainKeepsAVersion ==
    boot # "never" => \A s \in Streams : Protected(s) => Versions(s) # {}

\* A start never finds rows in the tables that its seed collides with: such a
\* server would never come up again, whatever restarts it.
SeedNeverCollides == boot # "collided"

\* A server that went down, or lost the race for a pull-option row while it
\* was starting, is up again eventually.
ServerComesBack == boot # "up" ~> boot = "up"

\* The search index of a stream shows one publication, never a mixture of
\* two (delete_by_section before the new chunks).
ChunksComeFromOnePublish == \A c, d \in chunks : c.stream = d.stream => c = d

\* A forced re-seed that is cut off after its wipe is made good: an emptied
\* protected stream has a version again once the process is restarted.
MainComesBack ==
    \A s \in Streams : Protected(s) => (Versions(s) = {} ~> Versions(s) # {})
=============================================================================
