# mcper: TLA+ models, checks and proofs

mcper is a harness server for coding agents: a FastAPI application with an MCP
endpoint and admin pages, a PostgreSQL database with pgvector, Redis for a
response cache and a Celery queue, and a Celery worker. Agents pull rules,
skills, workflows, documents and specs from it and publish new versions back.
This directory models its parts in TLA+, checks small instances with TLC and
proves the properties that matter most with TLAPS.

## 1. Inventory of the system

| Part | State it keeps | Operations | What is hard |
|------|----------------|------------|--------------|
| Versioned rule store (`services/versioned_rules.py`, `tools/global_rules.py`) | three tables of `(owner, section, version, body)`, pull-option rows | publish, append, patch, rollback, export | the version number is read before it is inserted; a patch reads its base earlier still |
| Rule admin pages (`routers/admin_rules_*.py`, `services/admin_rules_service.py`) | none of their own | new owner, new category, publish, delete version / category / owner, toggle options | guards are read before the statement they guard |
| Start, migration, seed (`main.py`, `db/database.py`, `db/seed_defaults.py`) | option rows, first rows | migrate, seed, forced re-seed | runs beside serving processes, may die between commits, restarted for ever |
| Rule chunk index (`rule/`) | chunks with embeddings per section | replace the chunks of a section | best effort after the commit; concurrent indexers |
| Rule serving and cache (`get_rules_markdown`, `rule_cache.py`) | Redis entries with a TTL | resolve, fill, invalidate | stale fills, swallowed invalidations, globs made of names, reads of several statements |
| Skills, workflows, documents (`services/versioned_{skills,workflows,docs}.py`, their routers and tools) | tables and chunks like the rules | as the rules, without cache and options; pages of three scopes, search | nine near-copies of each handler; addresses made of names; an index that deletions do not touch |
| Harness upload and re-indexing (`tools/harness_tools.py`, `scripts/reindex_all_*.py`) | none | store a set of files; index every latest version again | partial failure, no rollback; rows that go while a script holds them |
| Specs and their index (`spec/`, `services/spec_*.py`) | specs, parent and child chunks | upload, edit, delete, index | edit and enqueue are two steps; workers race |
| Celery worker (`worker/`, `services/celery_*.py`) | queue, failed-task table, staged uploads | run, retry, give up, requeue by an admin | redelivery, retries, failures that cannot be recorded, expiry of staged files |
| Code graph (`tools/rag_tools.py`, `index_code_batch_task`, `services/search_hybrid.py`) | nodes and edges per app | replace the nodes of a set of files; walk from a query | replacement in three commits; a walk of many statements beside it |
| Hybrid search (`services/search_*.py`) | none | two rankings fused; from hits to texts | ranking arithmetic, an index that is behind |
| Chunking (`spec/chunking.py`, `services/chunking.py`) | none | cut a text at its headings into children and parents; cut it into windows that overlap | window arithmetic, numbers of chunks that refer to each other, text at the edges of a section |
| Authentication (`auth/`) | codes, tokens, sessions in Redis or memory | authorise, exchange, refresh, revoke | single use, rotation, expiry |
| Roles (`auth/permissions.py`) | role assignments | permission of a user | precedence of scopes |
| Host gate, statistics, health | allowed hosts, counters | check, count, probe | reload of the list |

How they interact: MCP tools and admin pages are handlers in a thread pool of
several web processes. Each handler has a database session of its own (READ
COMMITTED); the database, Redis and the queue are the only shared state.
Publishing calls the indexer and then the cache; editing a spec enqueues a task
for the worker. Starting a process migrates and seeds the shared database while
other processes serve.

What makes each part correct, in one line: rules - the version log of a stream
is gap-free, append-only for agents and never empty where the pages promise
it; index - search shows one publication of a section, the latest in the end;
serving - an agent that compares numbers ends with the current texts, and no
stale answer stays in the cache; skills, workflows, documents - pages and tools
show one state of the store, and the index keeps up with it; graph - edges join rows
that exist, a push replaces its files or leaves a trace; chunks - what a document
says is found, once, under its heading and inside the parent shown with it; specs - the chunks end up being
those of the latest content; tasks - each accepted task is done or recorded as
failed; sessions - a code or refresh token is used once.

## 2. Plan

The order is by how much of the product depends on a part and by how hard the
part is to test. All of it is written; what is left to be checked by TLC alone is named
at the end of section 7.

| Step | Modules | What they settle | State |
|------|---------|------------------|-------|
| 1 | `VersionLog`, `RuleStore` | numbering, options, seeds and index of the rules; the tables implement an abstract append-only log | checked, proved |
| 2 | `SpecTasks` | specs, their index, the queue, retries and failed tasks | checked, proved |
| 3 | `RuleServing` | readers, the response cache with its expiry and failing invalidations, agents that compare version numbers | checked, safety proved |
| 4 | `HarnessStore`, `SkillHandlers`, `WorkflowHandlers`, `DocHandlers`, `HarnessTools`, `Harness` | skills, workflows, documents with every page and tool; `upload_harness` file by file; re-indexing | checked, safety proved |
| 5 | `GraphTable`, `CodeGraph` | `index_code_batch` in three commits, two pushes of overlapping files; the tables implement an abstract graph | checked, proved |
| 6 | `CodeImpact` | rank fusion and the walks of `analyze_code_impact` over the abstract graph | checked, proved |
| 7 | `TextSplit`, `WindowSplit`, `SectionSplit` | both splitters, round by round, over texts of kinds of characters | checked, safety proved |
| 8 | proofs | every invariant of a run, and every property of its steps, as a theorem for all values of the constants | proved |

`RuleServing` publishes in one step where `RuleStore` has many: what a reader sees of a
publish is its commit. `CodeImpact` relies on `GraphTable` alone, and `CodeGraph` is
shown to implement it, so the two are composed by their common abstract
specification and not by a product of their states. `Harness` composes the three
kinds of streams, uploads and scripts over one set of tables. `SectionSplit` settles what
`SpecTasks` takes for granted: which texts have chunks (those with a word outside
their headings; the others are its `Bare` texts), and that the numbers of one
indexing never collide among themselves, so that only another indexing can.

## 3. Modules and the code

Every definition that models code is listed in `PROJECT.json` under `map` with
its lines. Definitions whose comment starts with "Mutant" are faulty variants of
the definition they precede; they show that the properties can fail.

### `RuleStore`: the rule tables and everybody who writes them

| State | In the code |
|-------|-------------|
| `rules` | rows of `global_rule_versions`, `app_rule_versions`, `repo_rule_versions`; a *stream* is one (table, owner, section) |
| `nextId` | the primary key; `0` for seeded rows, which are never indexed |
| `chunks` | which publication the chunks of a section come from |
| `options` | patterns that have a row in `mcp_repo_pattern_pull_options` |
| `boot`, `start`, `missing` | outcome of the last start of a process; where the starting process is; the patterns its migration is about to add |
| `pc`, `req` | the step and the local variables of each handler |

A step is one statement or one commit of one session, because sessions are READ
COMMITTED and what lies between two statements can be interleaved:

- *publish* is `Request*` -> `ReadNextVersion` (max + 1) -> `Insert` or
  `InsertConflict` (unique constraint) -> `IndexDelete`, `IndexCommit`,
  `IndexFail` or `IndexSkip` -> `Invalidate`. A patch reads its base in
  `RequestPatch`, a rollback its source in `RequestRollback`.
- *deletion of a version* is `CountVersions` -> `DeleteVersion`, as the pages count
  and delete in two statements; categories and owners go in one.
- *start* is `StartMigration` -> `CommitMigration` -> `Seed`; *forced re-seed* is
  `ForceWipe` -> `ForceReseed`.
- `Crash` ends a handler anywhere: its open transaction is gone, what it
  committed stays, and the process has to start again.

A body is the set of text fragments it is made of, so that "the patch contains
the latest body" is a subset relation and an append is a union.

### `VersionLog`: what the tables promise

A set of entries per stream that only grows, with numbers 1, 2, 3, ... and no
gap. `RuleStore!AppendOnly` is `VersionLog` under the mapping that forgets the
keys of the rows.

### `SpecTasks`: specs, their index and the Celery tasks

| State | In the code |
|-------|-------------|
| `content` | the text of each spec; `Unborn` before its row exists, `Gone` after (keys are not reused) |
| `chunks` | which text, indexed by which task or agent, search shows for a spec |
| `queue`, `issued` | messages in the broker; number of tasks issued |
| `staged` | uploaded files in Redis under the key their task carries |
| `stored` | history: which upload task committed which spec |
| `failed` | the table of failed tasks |
| `outcome` | history: how attempts of tasks ended |
| `work`, `session` | local state of each worker and each handler |
| `faults` | crashes and failed calls of broker and database so far (bounded by `MaxFaults`); a failing read or embedding is not counted |

- *handlers*: `WriteSpec` commits a row and `Enqueue` sends the task in a second
  step (or `EnqueueFail`, which the code logs); the URL import does it the other
  way round (`FlushImport`, `Enqueue`, `CommitImport`). `StageUpload`,
  `DeleteSpecs`, `ClearSpecs`, and `PushDelete`/`PushCommit`/`PushFail` for
  agents that bring embeddings of their own (`PushNothing`: an empty list of them).
- *workers*: `TakeSpec` reads the text once (or `TakeFail` cannot); `DeleteChunks` is
  the DELETE of the chunks it can see, `CommitChunks` the commit. A commit is possible only where
  the constraints of the chunk table allow it (`Fits`: the spec row exists, no
  foreign chunk holds the same index). `StoreUpload` commits the spec of an
  upload with its chunks, `RemoveKey` deletes the staged file.
- *failure*: `TakeFail` (the spec or the file cannot be read), `IndexFail` (embedding,
  constraint, connection) or `UploadFail` (the row is not flushed, the key not removed)
  -> `LogFailure`, `LogConflict` (the task id is unique in the table) or `LogFail` (the
  database that made the task fail does not take the row: the handler raises, with
  neither a row nor a retry) -> `Retry` with one retry more, or `RetryFail`.
  For uploads the inner handler has already sent a retry by then
  (`RetriedAtOnce`), because the outer `except` also catches the `Retry`
  exception.
- *admin*: `SendRequeue` sends a new task and `CountRequeue` counts it in a later
  commit; `RefuseRequeue`, `Resolve`.

The broker delivers in any order: a retry is delayed by a count-down and
two worker processes prefetch. Tasks are acknowledged early (Celery's default,
which `celery_app.py` leaves alone), so `WorkerCrash` loses the task.

### `RuleServing`: what agents are given

| State | In the code |
|-------|-------------|
| `rows` | the rule tables; `given` is the history of all rows there ever were |
| `option` | `mcp_repo_pattern_pull_options`, `mcp_app_pull_options`, and `mcp_rule_return_options` under `AllApps` |
| `cache` | the Redis entry of a request, without its expiry time |
| `fetch` | where a call of `get_rules_markdown` is, and what it has read |
| `saved` | the answer an agent keeps in its workspace |
| `writer` | a publish between its commit and its invalidation |
| `scene` | which streams and which request a behaviour is about, and the flag of old that stands for the option of a pattern without one |

A request is one step per statement: `CacheHit`/`CacheMiss`, `ReadGlobal`, `ResolvePattern`,
`ReadRepo`, `ReadRepoOption`, `ReadAppMeta`, `ReadRepoDefault`, `ReadAppOption`,
`ReadApp`, `ReadAppDefault`,
`Store`. An answer is the set of rows in each of its layers; the markdown around
them is left out. `get_rule_version_snapshot` is translated on its own, because
the code computes it by functions of its own; `UpToDate` compares it with the
`rule_meta` line of a copy, as the tool's text asks agents to do. A publish flushes by a
glob that is made of the app's name as it is: `Met` says which keys it matches. `InvalidateFail`
stands for a Redis error half-way and for a process that dies after its commit.

### `HarnessStore`, `*Handlers`, `HarnessTools`, `Harness`

`HarnessStore` has the tables of the three kinds (and the rules that
`upload_harness` stores beside skills), their chunks, and the steps every handler
is made of: number, insert, index for a publish, count and DELETE for a deletion.
`SkillHandlers`, `WorkflowHandlers` and `DocHandlers` have one definition for each
function of `services/versioned_*.py`, `routers/admin_*.py` and `tools/*_tools.py`,
under its name: the handlers that write as actions, those that read as the rows
and buttons a page shows. They are three modules because the code is three
copies, and the differences are where it goes wrong: chunks of skills
have no pattern, workflows carry a diagram. What a page can have in its address is
`PageApps`, `Segments` and `BoardSections`; `SkillReached` and its copies follow the
links of the pages to a row. `HarnessTools` has `upload_harness`, which stores file after
file on one session, and the re-indexing scripts.

A *scene* chooses the streams and the sessions of a behaviour; no handler reads two
scopes of the version tables, so two streams that a handler can mix up (two
sections of an owner, a section of two patterns) meet every case.

### `GraphTable`, `CodeGraph`, `CodeImpact`

| State of `CodeGraph` | In the code |
|-------|-------------|
| `nodes`, `edges` | `code_nodes`, `code_edges` of one app; an id is (symbol, attempt that inserted it), as keys are not reused |
| `pushed`, `queue`, `attempts`, `failed`, `outcome`, `faults` | tasks, as in `SpecTasks` |
| `work` | step and local variables of each worker |
| `alone` | history: pushes whose last attempt no other one disturbed |

A push is `Take` (which reads the ids of its files), `Remove` (first commit, with the
edges), `Select` after the embedding, `Store` (second commit; possible only if no
symbol got a row meanwhile and no row to update is gone), `Resolve`, `Join` (third
commit; the foreign keys). `FailEmbedding` has sent a retry before the outer handler
sees it, as for uploads. An `Outage` that fails an attempt may last: then `LogFail` writes
no row, or `RetryFail` sends no retry.

`GraphTable` is what the tables promise: rows come with fresh ids and go with their
edges, and an edge joins two rows. `CodeImpact` reads such a graph: the two rankings,
`reciprocal_rank_fusion`, a breadth-first walk down and one up with one step for
each node of the frontier, and at last the nodes and the edges among them.

### `TextSplit`, `WindowSplit`, `SectionSplit`

| State | In the code |
|-------|-------------|
| `text`, `length` | a text, as a function from positions 0, 1, ... to kinds of characters |
| `from`, `end`; `start`, `stop` | local variables of the two loops: where a window starts, where the last one ended, where the stripped section ends |
| `chunks`, `count` of `WindowSplit` | the list of pieces; a chunk is the set of its positions |
| `records`, `parentSeq`, `childSeq` of `SectionSplit` | the `ChunkRecord`s and the two counters |
| `step`, `section` | whether sections are gone through or one is cut; where it starts |

A splitter looks at a character only to see whether it is blank, a newline, a dot or
something else, so five kinds stand for all characters. `Heading` stands for one match
of the heading pattern, with the blank lines that its `\s+` swallows.
Positions tell a chunk from another one with the same characters.

`WindowSplit` is `_split_recursive`, which exists twice with the same text: in
`services/chunking.py` and for `FixedSizeChunker`. A step is one round. The code
adds two characters for each separator, also for those of one; and as the window
goes back by the overlap at the end of the text too, a long text ends with a chunk
that is the tail of the one before it. The guard `start <= 0` below the loop never
holds. `SectionSplit` is `HeadingAwareParentChildChunker`, which every
index service uses: a step is one section, or one round of `_split_text` in a section
that is too long for one child.

## 4. Runs

Each run is a `.cfg`; state counts are those TLC reports.

| Run | Instance | States | Result |
|-----|----------|--------|--------|
| `agents` | 2 publishers; global and 3 pattern streams, two of one pattern; 2 rows | 1.3 M | `TypeOK`, `VersionGoesToOneCaller`, `PatternHasItsOption`, `AppendOnly` hold |
| `admin` | 1 publisher, 1 admin; 4 streams; 2 rows | 1.8 M | `ProtectedMainKeepsAVersion`, `SeedNeverCollides`, `ChunksComeFromOnePublish` hold |
| `reset` | 2 admins, 2 sessions that re-seed (one of them an admin); 5 streams; nothing published | 3.8 k | `MainComesBack`, `ServerComesBack` hold (liveness) |
| `faults` | 2 workers, 1 session in every role, 1 spec, 2 tasks, 1 retry, 1 fault | 3.2 M | `TypeOK`, `SearchShowsOneIndexing`, `OneAttemptAtATime`, `NoTaskDisappears` hold |
| `one_worker` | 1 worker, 1 editor, 2 specs, 2 texts, 2 tasks, 1 retry, no fault | 0.5 M | `IndexCatchesUp`, `UploadStoredOnce`, `TasksEnd` (liveness) hold |
| `retries` | 1 worker, 1 task, 3 retries as in the code | - | `ErrorsUseUpRetries` violated |
| `upload_lost` | 1 worker, 1 task | - | `UploadKeptUntilStored` violated |
| `serving` | 1 agent, 1 writer, admin pages; 9 scenes of 2 streams, one of an app `shop[1]`; 3 writes | 182 k | `InvalidationReachesEveryAnswer`, `SnapshotTellsOfEveryChange`, `CacheCatchesUp`, `AgentsCatchUp` (liveness) hold |
| `harness` | 17 scenes of 1 or 2 streams, some with a section `new` or a pattern with a slash; 1 agent, 1 uploader, 1 admin, 1 script; 2 rows | 467 k | the seven properties of `Harness` hold |
| `graph` | 2 workers, 4 payloads over 2 files and 3 symbols, 2 pushes, 1 retry, 1 fault that may last | 333 k | `GraphIsSound`, `PushReplacesItsFiles`, `MissingFilesAreExplained`, `ImplementsTable`, `PushesEnd` (liveness) hold |
| `impact` | every graph of 4 rows and 5 possible edges, 1 change; rankings of 2 | 268 k | `AnswerIsClosed`, `AnswerIsNeighbourhood`, `FoundByBothComesFirst` hold |
| `chunks` | both splitters on every text of up to 5 characters of 5 kinds, and of fewer kinds up to 10; windows of 3, overlap 1 | 111 k | `PhrasesStayWhole`, `WordsAreFoundOnce`, `ParentsContainTheirChildren`, `ChunksKeepTheirHeading` hold |

The types of `RuleStore` and `SpecTasks` are also checked by runs; those of all other
modules are proved (`TypeCorrect`, section 7).

**Bounds, and why they are enough.** `MaxRows` (published rows of a behaviour): the
hazards of a stream are about one version read before another is inserted, so
two rows of two sessions meet every order of the two; the seed adds a further
row to its streams without counting. `MaxTasks`: two tasks race for one spec, or
one races its own retry. `MaxRetries` is 1 in the runs that pass (a first attempt
and a last one are the two cases the code tells apart) and 3, as in the code,
where the number matters. `MaxFaults`: one crash or failed call at any step; in `graph`
the one that made an attempt fail may go on to the handler's own statements.
`Files`: in `faults` an uploaded file has chunks or is blank; one of headings alone
(`IndexNothing`) is uploaded in `one_worker`.
`MaxWrites` (3): a publish, its deletion and the publish that takes its number
again; or two changes and the option that decides which of them shows. In `serving`
a scene has the two streams that show up in one answer: two sections, a default
and what stands for it, two layers. In `graph` the payloads are a file in two
versions, a file that calls into it, a symbol that moved there and a deleted file:
every pair shares a file or a symbol. `MaxAttempts` (6) lets both pushes be retried,
also by the doubled retries. In `impact` the chains are longer than both depths and
two nodes reach `MaxNodes`; one change comes between any two statements.
In `chunks` a window of 3 is the smallest whose third is a character; a text of 6 takes
several windows, and one of 10 has two sections with a parent each, between or
behind small ones. The sections of a text are cut first and then its windows: the two
strategies share nothing but the text.
The theorems of section 7 show which of the results do not depend on any bound.
Publishers, and workers, are symmetric where they are listed under `SYMMETRY`.

**Deadlock.** It is checked for the rule store, which can always take another
request or restart. In `SpecTasks`, `RuleServing`, `CodeGraph` and `CodeImpact` it
is not: once the bounded number of tasks, writes or pushes is used up and handled
nothing is left to do in the bounded system; `chunks` stops when
its loops are done. `Harness` is checked for it.

## 5. Fairness

- `RuleStore!LiveSpec`: a server that is not up is started again (`restart:
  unless-stopped` of the deployment), a starting process goes on with its
  migration and its seed, and the second transaction of a forced re-seed that is
  not killed is reached. Nobody is forced to send a request, and a crash is never
  forced or forbidden.
- `SpecTasks!LiveSpec`: each worker goes on with its task and takes the next one
  while there is one (`WF` of `WorkerStep(w)`). Nothing forces handlers, expiry
  of files or crashes. Fairness does not say which branch a worker takes: an
  embedding may fail every time, and `TasksEnd` holds all the same, because
  retries count up.
- `RuleServing!Fairness`: a request that is being answered goes on, an agent goes on
  comparing numbers (the tool's text asks for it), and Redis drops an entry when
  its 300 seconds are over. Nobody has to publish, and invalidations may fail
  every time.
- `CodeGraph`: each worker goes on with its task and takes the next one, as in
  `SpecTasks`. `CodeImpact`: the analysis goes on with its next statement. The splitters
  state none: each round moves the start of the window forward, which their proofs show.

## 6. What the runs found

Two runs end in a violation; each checks a sentence of the repository's own
texts (quoted in `PROJECT.json`, `findings`) against what the code does.

1. `upload_lost`: `SpecIndexingService.index` returns before its commit when a text
   has no chunks. An upload of headings alone has only flushed its row, which is
   rolled back; the staged file is deleted and the task reports a `spec_id` that
   does not exist.
2. `retries`: every failing attempt inserts a row under the id of the task, which
   is unique and which a retry keeps. The second failure raises out of the
   handler: one retry of three is made, and the error answer is never given.

The models also contain cases that the passing runs leave out by their constants,
because the code takes no measure against them. They can be seen by changing one
constant:

- `admin` with two elements in `Admins`: two deletions that count together leave a
  default stream empty (`ProtectedMainKeepsAVersion`), although the page promises a
  version in it (`routers/admin_rules_global.py:274`). If it is the global stream,
  every restart fails on the rows that are still there. `harness` with two admins
  shows the same of skills, workflows and documents (`MainKeepsAVersion`), once the
  second is in the sessions of the scenes of `MCHarness`.
- `admin` with two elements in `Publishers`: two publishes of a section that index
  together leave chunks of two versions (`ChunksComeFromOnePublish`), although the
  docstring says that none accumulate (`rule/repository.py:33`).
- `one_worker` with two elements in `Workers`, as in the deployment
  (`--concurrency=2`): two retries of one upload may store it twice
  (`UploadStoredOnce`), and an older edit may be indexed last (`IndexCatchesUp`).
- `EveryRowIsReachable` speaks of rows that are `Addressable`. The form for a repository
  skill suggests a pattern like `github.com/my-org/my-repo`, but links carry it unquoted
  and the routes take one path segment; and `.../s/new` is registered before
  `.../s/{section_name}` (`routers/admin_skills.py:85` and `:145`, and so in every scope
  and kind). So a name with a slash and a section called `new` have no page, and no
  button that deletes them; agents are given them all the same.
- `ReindexedStreamsAreFound` exempts texts without chunks: the script counts every
  `result.ok` (`scripts/reindex_all_workflows.py:100`), and the indexer answers ok with
  nothing stored for them. With `--purge-old` such a stream is counted and not found.
- `InvalidationReachesEveryAnswer` exempts names whose glob misses them (`MeetsItself`):
  an app name with `[`, `*`, `?` or a backslash in it is accepted and put into the glob as
  it is, so a publish of the app `shop[1]` deletes the keys of `shop1` and leaves its
  own, where the comment says that all keys of the app go (`versioned_rules.py:1278`).
  Until an entry expires agents of that app are given the old rules.
- `NoTaskDisappears` and `MissingFilesAreExplained` permit the outcome `unlogged`: a
  database that is away makes the task fail and then its row, so that the handler
  raises before the retry (`worker/tasks.py:50`, `:152`, `:296`), and nothing is left to be
  seen of the task but a line in the log of the worker.
- `UploadStoredOnce` with `MaxFaults = 1`: the key is removed inside the outer `try`
  (`worker/tasks.py:142`). If that fails after the commit, the task is retried and
  stores the file a second time.
- `RequestPatch` in `RuleStore`: a patch is stored without the version that was
  published between its read and its insert, and the first append to a section an
  app does not have copies the text of `__default__`, where
  `tools/global_rules.py:190-191` says otherwise of both.
- `PushReplacesItsFiles` exempts pushes that another one disturbed: a stale list of
  ids can delete a symbol that has moved to another file.
- `SearchKeepsWhatItFound` exempts skills of patterns: their chunks have no pattern
  column, so publishing a section of one pattern removes the chunks of the same
  section of the others.
- `SnapshotTellsOfEveryChange` exempts default streams merged by an option: of these
  the snapshot tells a flag and the number of one section.
- `AgentsCatchUp` exempts numbers that were given twice: an agent that kept the
  deleted text cannot tell it from the new one.

Differences between texts and code that no property here is about: `PARENT_CHARS`, said to be
the greatest length of the text of a section that search gives as context
(`spec/chunking.py:19`), is used by no line, and a parent is as long as its section; the `version`
parameter of `get_global_rule` is accepted and ignored (`versioned_rules.py:915`); a
pattern without a `main` section is never matched (`versioned_rules.py:698`); an edge
push without symbols is answered with `edges_queued` and dropped
(`worker/tasks.py:212`); edges from other files into a replaced file are gone until
those files are pushed again.

## 7. Proofs

The modules named `*_proofs` are checked by TLAPS for every value of the
constants that satisfies the assumptions of the modules. Those say: the
streams are records with the right owners and contain the fallback of each app
stream (`StreamsAssumption`), bounds are natural numbers, and the markers for
"no request", "idle", "no spec", "unborn" and "gone" differ from real values; an
agent names the files of the symbols it pushes, and a symbol once
(`PayloadsAssumption`); a window has a character, and an overlap is at most a third
of it, as in the code's 180 of 1800 (`SizeAssumption`, `OverlapAssumption`); app
names, patterns and sections contain the defaults, and there is a text
(`NamesAssumption`); a glob matches keys of apps (`Met`, any relation). TLC evaluates
them on every run.

| Theorem | Property | Further hypothesis |
|---------|----------|--------------------|
| `RuleStore_proofs!TypeCorrect` | `TypeOK` | none |
| `PatternOptionsComplete` | `PatternHasItsOption` | none |
| `OneIndexerKeepsChunksApart` | `ChunksComeFromOnePublish` | at most one publisher |
| `PublishersImplementVersionLog` | `AppendOnly` (refinement) | no admin, no re-seed |
| `VersionsGoToOneCaller` | `VersionGoesToOneCaller` | no admin, no re-seed |
| `OneAdminKeepsMain` | `ProtectedMainKeepsAVersion` | at most one admin, no re-seed |
| `RestartsSucceed` | `SeedNeverCollides` | at most one admin, no re-seed |
| `SpecTasks_proofs!TypeCorrect` | `TypeOK` | none |
| `SearchStaysConsistent` | `SearchShowsOneIndexing` | none |
| `RetriesNeverRace` | `OneAttemptAtATime` | none |
| `TasksLeaveATrace` | `NoTaskDisappears` | none |
| `UploadsStoreOnce` | `UploadStoredOnce` | one worker, no faults |
| `IndexEndsUpToDate` | `IndexCatchesUp` | one worker, no faults, no URL imports, no pushed chunks |
| `RuleServing_proofs!TypeCorrect` | `TypeOK` | none |
| `FlushesFindEveryAnswer` | `InvalidationReachesEveryAnswer` | none |
| `NumbersTellOfChanges` | `SnapshotTellsOfEveryChange` | none |
| `Harness_proofs!TypeCorrect` | `TypeOK` | none |
| `OneAdminKeepsMain` | `MainKeepsAVersion` | at most one admin |
| `AnswersAreTrue` | `UploadTellsTheTruth` | none |
| `SearchKeeps` | `SearchKeepsWhatItFound` | none |
| `OneReindexFinds` | `ReindexedStreamsAreFound` | at most one re-index |
| `OffersAreAccepted` | `DeleteOfferedWhenAccepted` | none |
| `FormsAreRight` | `FormsMatchWhatAgentsGet` | none |
| `LinksReachEveryRow` | `EveryRowIsReachable` | none |
| `CodeGraph_proofs!TypeCorrect` | `TypeOK` | none |
| `GraphStaysSound` | `GraphIsSound` | none |
| `PushesImplementTable` | `ImplementsTable` (refinement) | none |
| `MissingFilesHaveReasons` | `MissingFilesAreExplained` | none |
| `UndisturbedPushesReplace` | `PushReplacesItsFiles` | none |
| `CodeImpact_proofs!TypeCorrect` | `TypeOK` | none |
| `AnswersAreClosed` | `AnswerIsClosed` | none |
| `AnswersAreNeighbourhoods` | `AnswerIsNeighbourhood` | none |
| `BothSearchesFirst` | `FoundByBothComesFirst` | rankings of fewer than `RRF_K + 2` ids |
| `WindowSplit_proofs!TypeCorrect` | `WindowTypeOK` | none |
| `OverlapKeepsPhrases` | `PhrasesStayWhole` | none |
| `ChunksNeverOutgrow` | `ChunksFit` | none |
| `SectionSplit_proofs!TypeCorrect` | `TypeOK` | none |
| `WordsFound` | `WordsAreFoundOnce` | none |
| `NumbersFit` | `NumbersAreUnique` | none |
| `ParentsContain` | `ParentsContainTheirChildren` | none |
| `HeadingsKept` | `ChunksKeepTheirHeading` | none |
| `ChildrenNeverOutgrow` | `ChildrenFit` | none |

The hypotheses are the code's own limits: for those that speak of one actor, section 6
says what two of them do, and the others are the cases that section 8 leaves out of
the property. The rankings of the code have 25 ids and its `RRF_K` is 60.

**Arguments.** The inductive invariants add to the property what the next step
relies on.

- *Options*: `OptionPending` says that a handler about to insert a rule of a pattern
  without an option row will add that row itself.
- *Index of the rules*: `IndexerSawAll` says that the one indexer between its DELETE
  and its commit has seen all chunks of the stream that exist.
- *Logs*: `LogInv` says that no stream has a gap (`Gapless`) and that all numbers below one
  in hand are taken (`BelowTaken`); the unique constraint then makes an insert that
  succeeds the next entry. Every handler past its commit owns the row with its
  key (`HolderInv`), so two of them cannot hold one number.
- *Main*: `MainInv` says that while the one admin is between count and DELETE, a
  protected stream has another version besides the one to go
  (`DeletionLeavesOne`), and that the first start finds the tables empty
  (`FirstStart`), so it fills all protected streams.
- *Types of the tasks*: `StepsFit` is needed because `TypeOK` alone is not inductive: only
  a text with chunks reaches the index, and a worker at `logged` has a retry left.
- *Search*: a transaction that fits removes every chunk of its spec that is left when
  it commits (`FitLeavesOne`).
- *Attempts and traces*: `TaskMove` classifies every step into four: it keeps the
  attempts, issues a new task, takes a message, or turns a job into its retry.
  Both invariants follow from the classification, `OneAttemptAtATime` with the
  fact that no attempt has a number that was not issued yet (`AttemptInv`),
  `NoTaskDisappears` with `LoggedInv`: a worker past the logging of its failure has a row
  of its task, so a retry that is not sent leaves that.
- *Uploads*: `UploadInv` says that a staged file whose text is stored is about to be
  removed by the worker that stored it, so the second retry no longer finds it.
  A worker killed in between would break it, hence the hypothesis.
- *Index of the specs*: `CatchInv` says that a written text is in time. Either a task for
  the spec is still to come (announced by a session, in the queue, or failing at the
  worker) or the admin has a row for it (`Due`); or search shows the text, or will
  when the worker commits, and the worker does not hold an older one (`Fresh`). A write
  announces a task, a failure leaves a row or a retry, and the task that is taken
  reads the text of that moment; a second worker could still hold an older text.
  That a conflict of task ids leaves a row for the right spec is `AimInv`: a row and
  all attempts of its task are about the same thing.
- *Invalidation*: `AnswersFit` says that the app texts of an answer, cached or being
  put together, are of its own app or of the default one. A glob that leaves an
  answer alone is for an app that is neither, so the stream has no text in it.
- *Version numbers*: each of an answer's own layers is a function of the rows whose
  numbers are told and of the merge flag (`AnswersFromNumbers`: the owner and scope of
  a row tell its layer, and an app with the merge option is not the default app).
  `VersionsApart` says that a stream gives a number once among the rows that exist,
  and a step adds rows or deletes some: so equal numbers mean equal rows.
- *Harness*: the 57 pages and 12 tools of the three kinds are first shown to be five
  steps: a publish, a count, the DELETE that was counted, a DELETE of rows outside
  the protected streams, a new diagram (`PageCase`, `ToolCase`). The rest
  is about those five, the uploads, the scripts and the indexer. `MainInv` is the one of the
  rules without the seeds. `UploadInv` follows one file of an upload: nothing was written for
  it before its insert, one row after it, whose key is never given again; so an
  error that is reported after the insert means that the row is gone.
  `SeenInv` says that the chunks an index run is about to delete are of its own
  stream, or of the same skill section of another pattern. Two re-indexes at once would
  break `ReindexedStreamsAreFound`, because one may delete what the other has counted.
  That the rows of a stream have a highest version, which forms and bundles both
  rely on, is shown by a smallest set of rows without one: the relation "is a proper
  subset of" is well-founded on finite sets.
- *Graph*: rows are of tasks that were pushed (`TasksWerePushed`), attempts at work have
  numbers of their own (`AttemptsApart`), and a row's id is older than every attempt
  that may still insert one (`RowsAreOld`). With these an insert takes ids that are
  fresh, and the guard of `Store`, the unique constraint, keeps one row for a symbol.
- *Missing files*: `FilesInv` says that of each file pushed there is a row, or a task still
  to store it, or one of the reasons the property allows (`FilesAccounted`). The proof
  found that the reasons first given were too few: when one push replaces what a
  file has by a symbol that the next push moves to another file, the file is empty
  although no push failed. That takes three pushes, where the run makes two; the
  property now names the case.
- *Replaced files*: `AloneInv` follows one push whose files and symbols no other push
  touches while it is under way (`Apart`). Its list of ids is then all there is in its files
  until it deletes them (`InHand`), afterwards the files hold its own symbols only
  (`Filled`), and its edges, once joined, stay (`Joined`).
- *Impact*: the ids an analysis has seen are never fresh again, so a row that was
  gone when the nodes were read has no edge when the edges are read: ids only go
  from fresh to a row to gone.
- *Neighbourhoods*: `WalkInv` says which levels a walk has been through: what it has found
  is what `Reached` has in as many steps, the frontier is what of the last level is
  still to be read, and `next` the part of the level after it. `Reached` is a recursive
  function, so that it exists and is unique on `0 .. n` is shown by a least counterexample.
- *Seeds*: two shares of 1 / (`RRF_K` + rank) are more than one share, whatever the ranks,
  as long as `RRF_K` + `MaxRank` is less than twice `RRF_K` + 1 (`TwoBeatOne`). What comes before a node found
  twice was then found twice itself, and all of these come before a node found
  once: if there is room for the latter, there is for the former.
- *Windows*: `WholeBefore` says that every short phrase that ends before the last window
  did is in a chunk. The next window starts no more than the overlap before that end,
  so a phrase that ends behind it starts inside the window, or was complete.
- *Sections*: the words before `Reach`, the place the loop has got to, are in one child
  each and the others in none (`Found1`, `Behind`); child numbers are below `childSeq`, and
  parents' above `parentSeq`, or equal to it while their section is cut (`Numbers`).
  `Current` says that the parent of the section being cut is in the records. No window
  is ever empty, so a piece always leads on (`CutEnds`).

**Only model-checked**: the liveness properties (`MainComesBack`, `ServerComesBack`,
`TasksEnd`, `CacheCatchesUp`, `AgentsCatchUp`, `PushesEnd`), which are out of the prover's
reach as `ENABLED` and fairness are. Every other property of a passing run is a
theorem. The violations need no proof.

## 8. What is left out

- Authentication, roles and the host gate: what is to be said of them is about access
  and not about the state this project follows. Statistics and health are atomic
  counters and read-only probes. `PROJECT.json` names each component with its state.
- Parsers of documents call external libraries, and the merging of client
  configuration is a function on one file. Of `chunk_spec_text`, which only a deployment
  without a broker uses, the heading hints are left out: they are looked up by the
  text of a chunk behind a moving cursor, and no text says which place is meant.
- `sync_harness_docs` commits a spec and enqueues it, as `WriteSpec` and `Enqueue` of
  `SpecTasks` do, file after file; it is not modelled on its own.
- The searches of rules, skills, workflows, documents and specs only read. Those of
  workflows and documents show the latest rows of the streams that were hit, and any
  version that contains the words when none of the hits has a row any more
  (`versioned_workflows.py:829-838`); a property that held of both would say little.
  Rankings by vector and text are the database's.
- Some statements that follow each other are one step: the counts, inserts and commits of
  the seeds (`RuleStore!Seed`), the reads before the insert of a rule (`ReadNextVersion`),
  the statements of `check_rule_versions` and the two rankings of `CodeImpact!Search`.
  What commits between them is left out.
- Keys of the cache are taken to be different for different requests. They join the names
  by colons, so an app called `-`, or a name with a colon, can have the key of another.
- A blank of the splitters is a space or a newline: tabs and the others, which only
  `strip()` knows, are left out.
- Text: outside the splitters, bodies, specs and chunks are model values or sets
  of fragments; what the embedding makes of them is not modelled.
- `IndexCatchesUp` is checked without URL imports, broker failures and crashes, and
  speaks of texts that can be indexed: the import enqueues before it commits (a
  quick worker finds no spec), a failing broker is only logged, and clearing an
  app leaves its chunks. With any of these, or a failure row that cannot be written, the
  property does not hold; the hazards list says where.
- `SpecTasks` covers a deployment with a broker; the path that indexes inside the
  request without one is not modelled. Renaming an app and the
  success statistics of tasks are not modelled.
- Time: TTLs and count-downs are steps that may happen at any moment.
- Only one process starts at a time: the `ALTER TABLE`s of the migration take locks
  that make the others wait.
