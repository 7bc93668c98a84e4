---------------------------- MODULE HarnessStore ----------------------------
(***************************************************************************)
(* The version tables of skills, workflows and documents, their search     *)
(* indexes, and the steps that every handler which writes them is made of. *)
(* Rules appear here only where a tool stores them beside skills; their    *)
(* own handlers are in RuleStore.                                          *)
(*                                                                         *)
(* A stream is one (kind, scope, owner, section).  No handler reads two    *)
(* scopes of the version tables at once, so a behaviour looks at a scene:   *)
(* some streams, and the sessions that work on them.  A step is one        *)
(* statement or one commit of one session.                                 *)
(***************************************************************************)
EXTENDS Naturals, FiniteSets

CONSTANTS
    Apps,       \* app names
    Patterns,   \* repository patterns
    Default,    \* the pattern ""; also the owner of the global streams
    DefaultSegment, \* what stands for "" in the address of a page
    Categories, \* section names
    Main,       \* the section "main"
    New,        \* the section "new"
    Unaddressable, \* names that are no segment of an address, as with a "/"
    Scenes,     \* [streams, sessions] looked at together
    Bodies,     \* texts
    Bare,       \* texts the chunker finds nothing in
    Agents,     \* sessions of MCP tools
    Uploaders,  \* sessions of upload_harness
    Admins,     \* sessions of admin pages
    Scripts,    \* reindex_all_* processes
    NoCall,     \* what an idle session holds
    MaxRows,    \* bound: rows published in a behaviour
    MaxFiles    \* bound: files of one upload

Kinds == {"skill", "workflow", "doc", "rule"}
Scopes == {"global", "app", "repo"}
Publishers == Agents \cup Uploaders \cup Admins
Callers == Publishers \cup Scripts

Stream(kind, scope, owner, section) ==
    [kind |-> kind, scope |-> scope, owner |-> owner, section |-> section]

OwnersOf(scope) ==
    CASE scope = "global" -> {Default}
      [] scope = "app" -> Apps
      [] scope = "repo" -> Patterns

Streams ==
    UNION {{Stream(k, scope, o, c) : k \in Kinds, o \in OwnersOf(scope), c \in Categories} :
           scope \in Scopes}

ASSUME NamesAssumption ==
    /\ Default \in Patterns /\ Default \notin Apps /\ Main \in Categories
    /\ DefaultSegment \notin Patterns /\ New # Main
    /\ Unaddressable \subseteq Apps \cup Patterns \cup Categories
    /\ {Main, Default, DefaultSegment} \cap Unaddressable = {}
    /\ \A sc \in Scenes : sc.streams \subseteq Streams
    /\ Bodies # {} /\ Bare \subseteq Bodies

ASSUME SessionsAssumption ==
    /\ Agents \cap (Uploaders \cup Admins \cup Scripts) = {}
    /\ Uploaders \cap (Admins \cup Scripts) = {}
    /\ Admins \cap Scripts = {}

ASSUME BoundsAssumption == MaxRows \in Nat /\ MaxFiles \in Nat

VARIABLES
    scene,   \* what this behaviour is about
    rows,    \* rows of the version tables
    nextId,  \* next primary key
    chunks,  \* search index: which row the chunks of a stream come from
    call,    \* call[p]: local variables of what p is doing
    upload,  \* upload[p]: the files p is storing, and the answer so far
    script   \* script[p]: what a re-index has read and done

store == scene.streams

tables == <<rows, nextId, chunks>>
vars == <<scene, tables, call, upload, script>>

-----------------------------------------------------------------------------
(* Reading the tables *)

RowsOf(s) == {r \in rows : r.stream = s}
Versions(s) == {r.version : r \in RowsOf(s)}
RowsOwnedBy(kind, scope, owner) ==
    {r \in rows : r.stream.kind = kind /\ r.stream.scope = scope /\ r.stream.owner = owner}

Latest(s) == {r \in RowsOf(s) : \A q \in RowsOf(s) : q.version <= r.version}

\* The section names a list offers; an empty one still shows "main".
Sections(kind, scope, owner) ==
    LET found == {r.stream.section : r \in RowsOwnedBy(kind, scope, owner)}
    IN  IF found = {} THEN {Main} ELSE found

\* max + 1, 1 for an empty stream: always one number.
NextVersion(s) ==
    {n \in {v + 1 : v \in {0} \cup Versions(s)} : \A v \in Versions(s) : v < n}

\* The unique constraint (owner, section, version) of the tables.
Taken(s, v) == v \in Versions(s)

\* "main" of the global stream and of the "" pattern.
Protected(s) == s.section = Main /\ s.scope # "app" /\ s.owner = Default

\* Mutant: a page that counts one version too few.
DeletionRefusedWhenEmpty(s) == Protected(s) /\ Cardinality(RowsOf(s)) < 1

DeletionRefused(s) == Protected(s) /\ Cardinality(RowsOf(s)) <= 1

-----------------------------------------------------------------------------
(* The search index *)

SameSection(c, s) ==
    /\ c.stream.kind = s.kind
    /\ c.stream.scope = s.scope
    /\ c.stream.section = s.section

\* Skill chunks have no pattern: those of every pattern's section are one.
SkillChunksOf(s) ==
    {c \in chunks : SameSection(c, s) /\ (s.scope = "repo" \/ c.stream.owner = s.owner)}

\* Mutant: the column of the pattern forgotten here, too.
DocChunksOfSection(s) ==
    {c \in chunks : SameSection(c, s) /\ (s.scope = "repo" \/ c.stream.owner = s.owner)}

WorkflowChunksOf(s) == {c \in chunks : SameSection(c, s) /\ c.stream.owner = s.owner}
DocChunksOf(s) == {c \in chunks : SameSection(c, s) /\ c.stream.owner = s.owner}
RuleChunksOf(s) == {c \in chunks : SameSection(c, s) /\ c.stream.owner = s.owner}

\* What delete_by_section of the kind's repository deletes.
DeletedBy(s) ==
    CASE s.kind = "skill" -> SkillChunksOf(s)
      [] s.kind = "workflow" -> WorkflowChunksOf(s)
      [] s.kind = "doc" -> DocChunksOf(s)
      [] s.kind = "rule" -> RuleChunksOf(s)

IndexedStreams == {c.stream : c \in chunks}

-----------------------------------------------------------------------------
(* Sessions *)

File == [stream : Streams, body : Bodies]

Row == [id : Nat, stream : Streams, version : Nat, body : Bodies, diagram : BOOLEAN]

Chunk == [stream : Streams, id : Nat]

Call == [step : {"read", "insert", "index", "indexing", "delete"}, stream : Streams,
         body : Bodies, version : Nat, id : Nat, seen : SUBSET Chunk]

Upload == [todo : SUBSET File, stored : SUBSET File, failed : SUBSET File,
           wrote : SUBSET [file : File, id : Nat], session : {"good", "lost"}]

Script == [kind : Kinds, scopes : SUBSET Scopes, todo : SUBSET Row,
           indexed : SUBSET File]

ASSUME IdleAssumption == NoCall \notin Call \cup Upload \cup Script

Request(s, b) ==
    [step |-> "read", stream |-> s, body |-> b, version |-> 0, id |-> 0, seen |-> {}]

Idle(p) == p \in scene.sessions /\ call[p] = NoCall
AtStep(p, step) == call[p] # NoCall /\ call[p].step = step
Continue(p, c) == call' = [call EXCEPT ![p] = c]
CurrentFile(p) == [stream |-> call[p].stream, body |-> call[p].body]

Init ==
    /\ scene \in Scenes
    /\ rows = {} /\ nextId = 1 /\ chunks = {}
    /\ call = [p \in Callers |-> NoCall]
    /\ upload = [p \in Uploaders |-> NoCall]
    /\ script = [p \in Scripts |-> NoCall]

\* The answer of an upload with one more file in it.  The database session is
\* in state "after", but once it lost a transaction it stays unusable.
Reported(u, stored, failed, after) ==
    [todo |-> u.todo, wrote |-> u.wrote,
     stored |-> u.stored \cup stored, failed |-> u.failed \cup failed,
     session |-> IF u.session = "lost" THEN "lost" ELSE after]

\* A call ends well, with a session that may be unusable all the same.
Succeed(p, after) ==
    /\ Continue(p, NoCall)
    /\ upload' = [u \in Uploaders |->
                     IF u # p THEN upload[u]
                     ELSE Reported(upload[u], {CurrentFile(p)}, {}, after)]
    /\ UNCHANGED script

\* A call ends with an error, which an upload puts in its answer.
Fail(p, after) ==
    /\ Continue(p, NoCall)
    /\ upload' = [u \in Uploaders |->
                     IF u # p THEN upload[u]
                     ELSE Reported(upload[u], {}, {CurrentFile(p)}, after)]
    /\ UNCHANGED script

-----------------------------------------------------------------------------
(* publish_*: number, insert, index *)

Publish(p, s, b) ==
    /\ Idle(p)
    /\ s \in store
    /\ Continue(p, Request(s, b))
    /\ UNCHANGED <<scene, tables, upload, script>>

ReadNextVersion(p) ==
    /\ AtStep(p, "read")
    /\ \E n \in NextVersion(call[p].stream) :
          Continue(p, [call[p] EXCEPT !.step = "insert", !.version = n])
    /\ UNCHANGED <<scene, tables, upload, script>>

\* The unique constraint, or any other error of the database.
InsertFail(p) ==
    /\ AtStep(p, "insert")
    /\ Fail(p, "lost")
    /\ UNCHANGED <<scene, tables>>

NewRow(p) ==
    [id |-> nextId, stream |-> call[p].stream, version |-> call[p].version,
     body |-> call[p].body, diagram |-> FALSE]

Insert(p) ==
    /\ AtStep(p, "insert")
    /\ nextId <= MaxRows
    /\ ~Taken(call[p].stream, call[p].version)
    /\ rows' = rows \cup {NewRow(p)}
    /\ nextId' = nextId + 1
    /\ Continue(p, [call[p] EXCEPT !.step = "index", !.id = nextId])
    /\ upload' = [u \in Uploaders |->
                     IF u # p THEN upload[u]
                     ELSE [upload[u] EXCEPT
                             !.wrote = @ \cup {[file |-> CurrentFile(p), id |-> nextId]}]]
    /\ UNCHANGED <<scene, chunks, script>>

\* The key of the row is read back after the commit.
Published(p) == \E r \in rows : r.id = call[p].id

RefreshFail(p) ==
    /\ AtStep(p, "index") /\ p \in Publishers
    /\ ~Published(p)
    /\ Fail(p, "good")
    /\ UNCHANGED <<scene, tables>>

\* From here publishers and scripts run the same code; a script has read the
\* row before.
Indexable(p) == AtStep(p, "index") /\ (p \in Publishers => Published(p))

\* A script counts what it has indexed; a publisher is told nothing.
Indexed(p) ==
    IF p \in Publishers THEN Succeed(p, "good")
    ELSE /\ Continue(p, NoCall)
         /\ script' = [script EXCEPT ![p].indexed = @ \cup {CurrentFile(p)}]
         /\ UNCHANGED upload

\* A call ends, and its session works with the next one.
EndCall(p) == Continue(p, NoCall) /\ UNCHANGED <<upload, script>>

\* A text without chunks leaves the index as it is, and counts.
IndexNothing(p) ==
    /\ Indexable(p) /\ call[p].body \in Bare
    /\ Indexed(p)
    /\ UNCHANGED <<scene, tables>>

\* Mutant: the error of the indexer reaches the tool.
EmbedFailRaised(p) ==
    /\ Indexable(p) /\ call[p].body \notin Bare
    /\ IF p \in Publishers THEN Fail(p, "good") ELSE EndCall(p)
    /\ UNCHANGED <<scene, tables>>

\* No embedding: nothing has been written to the index.
EmbedFail(p) ==
    /\ Indexable(p) /\ call[p].body \notin Bare
    /\ IF p \in Publishers THEN Succeed(p, "good") ELSE EndCall(p)
    /\ UNCHANGED <<scene, tables>>

\* DELETE takes the rows that are committed; a concurrent transaction that
\* adds chunks later keeps them.
IndexDelete(p) ==
    /\ Indexable(p) /\ call[p].body \notin Bare
    /\ Continue(p, [call[p] EXCEPT !.step = "indexing", !.seen = DeletedBy(call[p].stream)])
    /\ UNCHANGED <<scene, tables, upload, script>>

IndexCommit(p) ==
    /\ AtStep(p, "indexing")
    /\ chunks' = (chunks \ call[p].seen)
                     \cup {[stream |-> call[p].stream, id |-> call[p].id]}
    /\ Indexed(p)
    /\ UNCHANGED <<scene, rows, nextId>>

\* A script ends in the middle of its rows.
ScriptDies(p) ==
    /\ Continue(p, NoCall)
    /\ script' = [script EXCEPT ![p] = NoCall]
    /\ UNCHANGED upload

\* Mutant: a script that counts it as done.
SaveChunksFailCounted(p) ==
    /\ AtStep(p, "indexing")
    /\ Indexed(p)
    /\ UNCHANGED <<scene, tables>>

\* The database refuses a chunk: the transaction is lost.  A publisher's
\* handler swallows the error and does not roll back; a script's reads the
\* row on the lost session to print its name, which raises again.
SaveChunksFail(p) ==
    /\ AtStep(p, "indexing")
    /\ IF p \in Publishers THEN Succeed(p, "lost") ELSE ScriptDies(p)
    /\ UNCHANGED <<scene, tables>>

PublishSteps(p) ==
    \/ ReadNextVersion(p)
    \/ InsertFail(p)
    \/ Insert(p)
    \/ RefreshFail(p)

\* index_skill, index_workflow and index_doc, under _try_index_*.
IndexSteps(p) ==
    \/ IndexNothing(p)
    \/ EmbedFail(p)
    \/ IndexDelete(p)
    \/ IndexCommit(p)
    \/ SaveChunksFail(p)

-----------------------------------------------------------------------------
(* What handlers delete; none of it touches the search index *)

\* The count that protects the last version ...
CountVersions(p, s, v) ==
    /\ Idle(p)
    /\ s \in store
    /\ ~DeletionRefused(s)
    /\ Continue(p, [Request(s, CHOOSE b \in Bodies : TRUE)
                       EXCEPT !.step = "delete", !.version = v])
    /\ UNCHANGED <<scene, tables, upload, script>>

\* ... and the DELETE, a statement of its own.
DeleteCounted(p, s, v) ==
    /\ AtStep(p, "delete") /\ call[p].stream = s /\ call[p].version = v
    /\ rows' = {r \in rows : ~(r.stream = s /\ r.version = v)}
    /\ Continue(p, NoCall)
    /\ UNCHANGED <<scene, nextId, chunks, upload, script>>

DeleteRows(p, R) ==
    /\ Idle(p)
    /\ R # {}
    /\ rows' = rows \ R
    /\ UNCHANGED <<scene, nextId, chunks, call, upload, script>>

\* The process of a session dies: its open transaction is rolled back.
Crash(p) ==
    /\ call[p] # NoCall
    /\ Continue(p, NoCall)
    /\ upload' = [u \in Uploaders |-> IF u = p THEN NoCall ELSE upload[u]]
    /\ script' = [u \in Scripts |-> IF u = p THEN NoCall ELSE script[u]]
    /\ UNCHANGED <<scene, tables>>

-----------------------------------------------------------------------------
(* What pages and tools read *)

\* Mutant: a page that offers what its handler refuses.
VersionPageAlways(s) == [rows |-> RowsOf(s), offersDeletion |-> RowsOf(s) # {}]

\* A category board: the rows, and whether they have a button that deletes one.
VersionPage(s) ==
    [rows |-> RowsOf(s),
     offersDeletion |-> Cardinality(RowsOf(s)) > (IF Protected(s) THEN 1 ELSE 0)]

\* The latest row of every section of an owner.
Board(kind, scope, owner) ==
    UNION {Latest(Stream(kind, scope, owner, c)) : c \in Categories}

\* The owners that have rows.
OwnersWithRows(kind, scope) == {o \in OwnersOf(scope) : RowsOwnedBy(kind, scope, o) # {}}

\* What a page can have in its address: apps, patterns, sections.
PageApps == Apps \ Unaddressable
Segments == ((Patterns \ {Default}) \cup {DefaultSegment}) \ Unaddressable
PageSections == Categories \ Unaddressable

\* The page of a section has the address .../s/<section>; .../s/new is the
\* form for a new section, which is routed before it.
BoardSections == PageSections \ {New}

\* The links of a board that lead to the page of a section.
SectionLinks(board) == {r \in board : r.stream.section \in BoardSections}
=============================================================================
