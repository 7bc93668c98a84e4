--------------------------- MODULE Harness_proofs ---------------------------
(***************************************************************************)
(* Proofs about Harness, for every set of apps, patterns, sections, scenes *)
(* and sessions.                                                           *)
(***************************************************************************)
EXTENDS Harness, FiniteSetTheorems, TLAPS

-----------------------------------------------------------------------------
(* What the handlers of the three kinds are to the tables *)

Publishes(p) == \E s \in store, b \in Bodies : Publish(p, s, b)

Counts(p) == \E s \in store, v \in 1 .. MaxRows : CountVersions(p, s, v)

DeletesCounted(p) == DeleteCounted(p, call[p].stream, call[p].version)

DeletesUnprotected(p) ==
    \E R \in SUBSET rows : DeleteRows(p, R) /\ \A r \in R : ~Protected(r.stream)

AddsDiagram(p) == \E s \in store, v \in 1 .. MaxRows : set_workflow_mermaid(p, s, v)

ToolCase(p) == Publishes(p) \/ AddsDiagram(p)

PageCase(p) == Publishes(p) \/ Counts(p) \/ DeletesCounted(p) \/ DeletesUnprotected(p)

LEMMA PublishCase ==
    ASSUME NEW p, NEW s, NEW b \in Bodies, Publish(p, s, b) PROVE Publishes(p)
  BY DEF Publishes, Publish

LEMMA CountedCase ==
    ASSUME NEW p, NEW s, NEW v \in 1 .. MaxRows,
           CountVersions(p, s, v) \/ DeleteCounted(p, s, v)
    PROVE  Counts(p) \/ DeletesCounted(p)
  BY DEF Counts, DeletesCounted, CountVersions, DeleteCounted

LEMMA UnprotectedCase ==
    ASSUME NEW p, NEW R \in SUBSET rows, DeleteRows(p, R),
           \A r \in R : r.stream.section # Main \/ r.stream.scope = "app"
                        \/ r.stream.owner # Default
    PROVE  DeletesUnprotected(p)
  BY DEF DeletesUnprotected, Protected

LEMMA SkillToolsCase ==
    ASSUME NEW p, SkillTools(p) PROVE ToolCase(p)
  BY PublishCase DEF SkillTools, publish_global_skill_tool, publish_app_skill_tool,
     publish_repo_skill_tool, publish_global_skill, publish_app_skill,
     publish_repo_skill, ToolCase

LEMMA SkillPagesCase ==
    ASSUME NEW p, SkillPages(p) PROVE PageCase(p)
<1>1. CASE \/ global_skill_category_new_submit(p) \/ global_skill_category_publish_submit(p)
          \/ global_skill_save_as_new(p) \/ new_app_skill_submit(p)
          \/ app_skill_category_new_submit(p) \/ app_skill_category_publish_submit(p)
          \/ app_skill_save_as_new(p) \/ new_repo_skill_submit(p)
          \/ repo_skill_category_new_submit(p) \/ repo_skill_category_publish_submit(p)
          \/ repo_skill_save_as_new(p)
  BY <1>1, PublishCase DEF global_skill_category_new_submit,
     global_skill_category_publish_submit, global_skill_save_as_new, new_app_skill_submit,
     app_skill_category_new_submit, app_skill_category_publish_submit,
     app_skill_save_as_new, new_repo_skill_submit, repo_skill_category_new_submit,
     repo_skill_category_publish_submit, repo_skill_save_as_new,
     publish_global_skill, publish_app_skill, publish_repo_skill, PageCase
<1>2. CASE global_skill_version_delete(p) \/ repo_skill_version_delete(p)
  BY <1>2, CountedCase DEF global_skill_version_delete, repo_skill_version_delete,
     delete_global_skill_version, delete_repo_skill_version, PageCase
<1>3. CASE global_skill_category_delete(p) \/ repo_skill_category_delete(p)
  <2>1. PICK s : s.section # Main /\ DeleteRows(p, RowsOf(s))
    BY <1>3 DEF global_skill_category_delete, repo_skill_category_delete,
       delete_global_skill_section, delete_repo_skill_section,
       GlobalSkill, RepoSkill, Stream
  <2> QED
    BY <2>1, UnprotectedCase DEF RowsOf, PageCase
<1>4. CASE app_skill_category_delete(p)
  <2>1. PICK s : s.scope = "app" /\ DeleteRows(p, RowsOf(s))
    BY <1>4 DEF app_skill_category_delete, delete_app_skill_section, AppSkill, Stream
  <2> QED
    BY <2>1, UnprotectedCase DEF RowsOf, PageCase
<1>5. CASE app_skill_version_delete(p)
  <2>1. PICK a, c, v : DeleteRows(p, {r \in RowsOf(AppSkill(a, c)) : r.version = v})
    BY <1>5 DEF app_skill_version_delete, delete_app_skill_version
  <2> QED
    BY <2>1, UnprotectedCase DEF RowsOf, AppSkill, Stream, PageCase
<1>6. CASE app_skill_delete_stream(p) \/ repo_skill_delete_stream(p)
  <2>1. PICK scope, owner : /\ scope = "app" \/ owner # Default
                            /\ DeleteRows(p, RowsOwnedBy("skill", scope, owner))
    BY <1>6 DEF app_skill_delete_stream, repo_skill_delete_stream,
       delete_app_skill_stream, delete_repo_skill_stream
  <2> QED
    BY <2>1, UnprotectedCase DEF RowsOwnedBy, PageCase
<1> QED
  BY <1>1, <1>2, <1>3, <1>4, <1>5, <1>6 DEF SkillPages

LEMMA WorkflowToolsCase ==
    ASSUME NEW p, WorkflowTools(p) PROVE ToolCase(p)
<1>1. CASE set_workflow_mermaid_tool(p)
  BY <1>1 DEF set_workflow_mermaid_tool, ToolCase, AddsDiagram
<1>2. CASE \/ publish_global_workflow_tool(p) \/ publish_app_workflow_tool(p)
          \/ publish_repo_workflow_tool(p) \/ update_workflow(p)
  BY <1>2, PublishCase DEF publish_global_workflow_tool, publish_app_workflow_tool,
     publish_repo_workflow_tool, update_workflow, publish_global_workflow, publish_app_workflow,
     publish_repo_workflow, ToolCase
<1> QED
  BY <1>1, <1>2 DEF WorkflowTools

LEMMA WorkflowPagesCase ==
    ASSUME NEW p, WorkflowPages(p) PROVE PageCase(p)
<1>1. CASE \/ global_workflow_category_new_submit(p) \/ global_workflow_category_publish_submit(p)
          \/ global_workflow_save_as_new(p) \/ new_app_workflow_submit(p)
          \/ app_workflow_category_new_submit(p) \/ app_workflow_category_publish_submit(p)
          \/ app_workflow_save_as_new(p) \/ new_repo_workflow_submit(p)
          \/ repo_workflow_category_new_submit(p) \/ repo_workflow_category_publish_submit(p)
          \/ repo_workflow_save_as_new(p)
  BY <1>1, PublishCase DEF global_workflow_category_new_submit,
     global_workflow_category_publish_submit, global_workflow_save_as_new, new_app_workflow_submit,
     app_workflow_category_new_submit, app_workflow_category_publish_submit,
     app_workflow_save_as_new, new_repo_workflow_submit, repo_workflow_category_new_submit,
     repo_workflow_category_publish_submit, repo_workflow_save_as_new,
     publish_global_workflow, publish_app_workflow, publish_repo_workflow, PageCase
<1>2. CASE global_workflow_version_delete(p) \/ repo_workflow_version_delete(p)
  BY <1>2, CountedCase DEF global_workflow_version_delete, repo_workflow_version_delete,
     delete_global_workflow_version, delete_repo_workflow_version, PageCase
<1>3. CASE global_workflow_category_delete(p) \/ repo_workflow_category_delete(p)
  <2>1. PICK s : s.section # Main /\ DeleteRows(p, RowsOf(s))
    BY <1>3 DEF global_workflow_category_delete, repo_workflow_category_delete,
       delete_global_workflow_section, delete_repo_workflow_section,
       GlobalWorkflow, RepoWorkflow, Stream
  <2> QED
    BY <2>1, UnprotectedCase DEF RowsOf, PageCase
<1>4. CASE app_workflow_category_delete(p)
  <2>1. PICK s : s.scope = "app" /\ DeleteRows(p, RowsOf(s))
    BY <1>4 DEF app_workflow_category_delete, delete_app_workflow_section, AppWorkflow, Stream
  <2> QED
    BY <2>1, UnprotectedCase DEF RowsOf, PageCase
<1>5. CASE app_workflow_version_delete(p)
  <2>1. PICK a, c, v : DeleteRows(p, {r \in RowsOf(AppWorkflow(a, c)) : r.version = v})
    BY <1>5 DEF app_workflow_version_delete, delete_app_workflow_version
  <2> QED
    BY <2>1, UnprotectedCase DEF RowsOf, AppWorkflow, Stream, PageCase
<1>6. CASE app_workflow_delete_stream(p) \/ repo_workflow_delete_stream(p)
  <2>1. PICK scope, owner : /\ scope = "app" \/ owner # Default
                            /\ DeleteRows(p, RowsOwnedBy("workflow", scope, owner))
    BY <1>6 DEF app_workflow_delete_stream, repo_workflow_delete_stream,
       delete_app_workflow_stream, delete_repo_workflow_stream
  <2> QED
    BY <2>1, UnprotectedCase DEF RowsOwnedBy, PageCase
<1> QED
  BY <1>1, <1>2, <1>3, <1>4, <1>5, <1>6 DEF WorkflowPages

LEMMA DocToolsCase ==
    ASSUME NEW p, DocTools(p) PROVE ToolCase(p)
  BY PublishCase DEF DocTools, publish_global_doc_tool, publish_app_doc_tool,
     publish_repo_doc_tool, update_doc, publish_global_doc, publish_app_doc,
     publish_repo_doc, ToolCase

LEMMA DocPagesCase ==
    ASSUME NEW p, DocPages(p) PROVE PageCase(p)
<1>1. CASE \/ global_doc_category_new_submit(p) \/ global_doc_category_publish_submit(p)
          \/ global_doc_save_as_new(p) \/ new_app_doc_submit(p)
          \/ app_doc_category_new_submit(p) \/ app_doc_category_publish_submit(p)
          \/ app_doc_save_as_new(p) \/ new_repo_doc_submit(p)
          \/ repo_doc_category_new_submit(p) \/ repo_doc_category_publish_submit(p)
          \/ repo_doc_save_as_new(p)
  BY <1>1, PublishCase DEF global_doc_category_new_submit,
     global_doc_category_publish_submit, global_doc_save_as_new, new_app_doc_submit,
     app_doc_category_new_submit, app_doc_category_publish_submit,
     app_doc_save_as_new, new_repo_doc_submit, repo_doc_category_new_submit,
     repo_doc_category_publish_submit, repo_doc_save_as_new,
     publish_global_doc, publish_app_doc, publish_repo_doc, PageCase
<1>2. CASE global_doc_version_delete(p) \/ repo_doc_version_delete(p)
  BY <1>2, CountedCase DEF global_doc_version_delete, repo_doc_version_delete,
     delete_global_doc_version, delete_repo_doc_version, PageCase
<1>3. CASE global_doc_category_delete(p) \/ repo_doc_category_delete(p)
  <2>1. PICK s : s.section # Main /\ DeleteRows(p, RowsOf(s))
    BY <1>3 DEF global_doc_category_delete, repo_doc_category_delete,
       delete_global_doc_section, delete_repo_doc_section,
       GlobalDoc, RepoDoc, Stream
  <2> QED
    BY <2>1, UnprotectedCase DEF RowsOf, PageCase
<1>4. CASE app_doc_category_delete(p)
  <2>1. PICK s : s.scope = "app" /\ DeleteRows(p, RowsOf(s))
    BY <1>4 DEF app_doc_category_delete, delete_app_doc_section, AppDoc, Stream
  <2> QED
    BY <2>1, UnprotectedCase DEF RowsOf, PageCase
<1>5. CASE app_doc_version_delete(p)
  <2>1. PICK a, c, v : DeleteRows(p, {r \in RowsOf(AppDoc(a, c)) : r.version = v})
    BY <1>5 DEF app_doc_version_delete, delete_app_doc_version
  <2> QED
    BY <2>1, UnprotectedCase DEF RowsOf, AppDoc, Stream, PageCase
<1>6. CASE app_doc_delete_stream(p) \/ repo_doc_delete_stream(p)
  <2>1. PICK scope, owner : /\ scope = "app" \/ owner # Default
                            /\ DeleteRows(p, RowsOwnedBy("doc", scope, owner))
    BY <1>6 DEF app_doc_delete_stream, repo_doc_delete_stream,
       delete_app_doc_stream, delete_repo_doc_stream
  <2> QED
    BY <2>1, UnprotectedCase DEF RowsOwnedBy, PageCase
<1> QED
  BY <1>1, <1>2, <1>3, <1>4, <1>5, <1>6 DEF DocPages

-----------------------------------------------------------------------------
(* Steps *)

\* What a step is, and of which session.
StepOf(p) ==
    \/ p \in Agents /\ ToolCase(p)
    \/ p \in Admins /\ PageCase(p)
    \/ p \in Uploaders /\ upload_harness(p)
    \/ p \in Scripts /\ Reindex(p)
    \/ p \in Publishers /\ PublishSteps(p)
    \/ call[p] # NoCall /\ IndexSteps(p)
    \/ Crash(p)

LEMMA NextIsAStep == Next => \E p \in Callers : StepOf(p)
<1> SUFFICES ASSUME Next PROVE \E p \in Callers : StepOf(p)
  OBVIOUS
<1>1. ASSUME NEW p \in Agents, Tools(p) PROVE ToolCase(p)
  BY <1>1, SkillToolsCase, WorkflowToolsCase, DocToolsCase DEF Tools
<1>2. ASSUME NEW p \in Admins, Pages(p) PROVE PageCase(p)
  BY <1>2, SkillPagesCase, WorkflowPagesCase, DocPagesCase DEF Pages
<1>3. ASSUME NEW p \in Callers, TryIndex(p) PROVE call[p] # NoCall /\ IndexSteps(p)
  BY <1>3 DEF TryIndex, try_index_skill, try_index_workflow, try_index_doc
<1> QED
  BY <1>1, <1>2, <1>3 DEF Next, StepOf, Callers, Publishers

-----------------------------------------------------------------------------
(* Types *)

\* A session in the middle of a call of an upload or of a re-index has it.
Busy ==
    /\ \A p \in Uploaders : call[p] # NoCall => Uploading(p)
    /\ \A p \in Scripts : call[p] # NoCall => Reindexing(p)

SessionsTyped ==
    /\ call \in [Callers -> Call \cup {NoCall}]
    /\ upload \in [Uploaders -> Upload \cup {NoCall}]
    /\ script \in [Scripts -> Script \cup {NoCall}]
    /\ Busy

TablesTyped ==
    /\ scene \in Scenes
    /\ rows \subseteq Row
    /\ nextId \in Nat
    /\ chunks \subseteq Chunk

TypeInv == TablesTyped /\ SessionsTyped

LEMMA CallFields ==
    ASSUME SessionsTyped, NEW p \in Callers, call[p] # NoCall
    PROVE  /\ call[p] \in Call /\ call[p].stream \in Streams /\ call[p].body \in Bodies
           /\ call[p].version \in Nat /\ call[p].id \in Nat /\ call[p].seen \subseteq Chunk
           /\ CurrentFile(p) \in File
  BY DEF SessionsTyped, Call, CurrentFile, File

LEMMA StoreIsStreams ==
    ASSUME TablesTyped PROVE store \subseteq Streams
  BY NamesAssumption DEF TablesTyped, store

LEMMA StreamFields ==
    ASSUME NEW s \in Streams
    PROVE  /\ s = Stream(s.kind, s.scope, s.owner, s.section)
           /\ s.kind \in Kinds /\ s.scope \in Scopes
  BY DEF Streams, Stream

LEMMA NotAnUploader ==
    /\ \A p \in Agents \cup Admins \cup Scripts : p \notin Uploaders
    /\ \A p \in Publishers : p \notin Scripts
    /\ \A p \in Callers \ Publishers : p \in Scripts
  BY SessionsAssumption DEF Callers, Publishers

LEMMA RequestTyped ==
    ASSUME NEW s \in Streams, NEW b \in Bodies
    PROVE  Request(s, b) \in Call
  BY DEF Request, Call

LEMMA ContinueTyped ==
    ASSUME SessionsTyped, NEW p \in Callers, NEW c \in Call \cup {NoCall}, Continue(p, c),
           UNCHANGED <<upload, script>>,
           c = NoCall \/ (p \notin Uploaders /\ p \notin Scripts) \/ call[p] # NoCall
    PROVE  SessionsTyped'
<1>1. call' \in [Callers -> Call \cup {NoCall}] /\ \A q \in Callers \ {p} : call'[q] = call[q]
  BY DEF SessionsTyped, Continue
<1>2. call'[p] = c
  BY DEF SessionsTyped, Continue
<1>3. Busy'
  BY <1>1, <1>2 DEF SessionsTyped, Busy, Uploading, Reindexing, Callers, Publishers
<1> QED
  BY <1>1, <1>3 DEF SessionsTyped

LEMMA ReportedTyped ==
    ASSUME NEW u \in Upload, NEW S \in SUBSET File, NEW F \in SUBSET File,
           NEW a \in {"good", "lost"}
    PROVE  Reported(u, S, F, a) \in Upload
  BY DEF Upload, Reported

LEMMA NoCallIsNothing == NoCall \notin Call /\ NoCall \notin Upload /\ NoCall \notin Script
  BY IdleAssumption

\* The end of a call, with or without an error.
LEMMA EndTyped ==
    ASSUME SessionsTyped, NEW p \in Callers, call[p] # NoCall, NEW a \in {"good", "lost"},
           Succeed(p, a) \/ Fail(p, a)
    PROVE  SessionsTyped'
<1>1. call' \in [Callers -> Call \cup {NoCall}] /\ call'[p] = NoCall
      /\ \A q \in Callers \ {p} : call'[q] = call[q]
  BY DEF SessionsTyped, Continue, Succeed, Fail
<1>2. ASSUME NEW u \in Uploaders
      PROVE  upload'[u] \in Upload \cup {NoCall} /\ (upload[u] # NoCall => upload'[u] # NoCall)
  <2>1. CASE u # p
    BY <2>1 DEF Succeed, Fail, SessionsTyped
  <2>2. CASE u = p
    <3>1. upload[p] \in Upload
      BY <2>2 DEF SessionsTyped, Busy, Uploading
    <3>2. CurrentFile(p) \in File
      BY CallFields
    <3>3. CASE Succeed(p, a)
      <4>1. upload'[p] = Reported(upload[p], {CurrentFile(p)}, {}, a)
        BY <2>2, <3>3 DEF Succeed
      <4> QED
        BY <3>1, <3>2, <4>1, ReportedTyped, NoCallIsNothing, <2>2
    <3>4. CASE Fail(p, a)
      <4>1. upload'[p] = Reported(upload[p], {}, {CurrentFile(p)}, a)
        BY <2>2, <3>4 DEF Fail
      <4> QED
        BY <3>1, <3>2, <4>1, ReportedTyped, NoCallIsNothing, <2>2
    <3> QED
      BY <3>3, <3>4
  <2> QED
    BY <2>1, <2>2
<1>3. upload' \in [Uploaders -> Upload \cup {NoCall}]
  BY <1>2 DEF Succeed, Fail
<1>4. Busy'
  BY <1>1, <1>2 DEF SessionsTyped, Busy, Uploading, Reindexing, Succeed, Fail, Callers, Publishers
<1> QED
  BY <1>1, <1>3, <1>4 DEF SessionsTyped, Succeed, Fail

\* How a script's look at a row ends: counted, left, or with the script.
Counted(p) ==
    /\ Continue(p, NoCall)
    /\ script' = [script EXCEPT ![p].indexed = @ \cup {CurrentFile(p)}]
    /\ UNCHANGED upload

\* How an index run ends.
IndexEnds(p) ==
    IF p \in Publishers THEN \E a \in {"good", "lost"} : Succeed(p, a)
    ELSE Counted(p) \/ EndCall(p) \/ ScriptDies(p)

LEMMA IndexRunEnds ==
    ASSUME NEW p, IndexNothing(p) \/ EmbedFail(p) \/ IndexCommit(p) \/ SaveChunksFail(p)
    PROVE  IndexEnds(p)
<1>1. ASSUME Indexed(p) PROVE IndexEnds(p)
  BY <1>1 DEF Indexed, IndexEnds, Counted
<1> QED
  BY <1>1 DEF IndexNothing, EmbedFail, IndexCommit, SaveChunksFail, IndexEnds

LEMMA IndexEndsTyped ==
    ASSUME SessionsTyped, NEW p \in Callers, call[p] # NoCall, IndexEnds(p)
    PROVE  SessionsTyped'
<1>1. CASE p \in Publishers
  BY <1>1, EndTyped DEF IndexEnds
<1>2. CASE p \notin Publishers
  <2>1. p \in Scripts /\ script[p] \in Script
    BY <1>2, NotAnUploader DEF SessionsTyped, Busy, Reindexing
  <2>2. call' \in [Callers -> Call \cup {NoCall}] /\ call'[p] = NoCall
        /\ (\A q \in Callers \ {p} : call'[q] = call[q]) /\ upload' = upload
    BY <1>2 DEF SessionsTyped, IndexEnds, Counted, EndCall, ScriptDies, Continue
  <2>3. script'[p] \in Script \cup {NoCall} /\ \A q \in Scripts \ {p} : script'[q] = script[q]
    <3>1. CASE Counted(p)
      BY <2>1, <3>1, CallFields DEF Counted, Script, SessionsTyped
    <3>2. CASE EndCall(p) \/ ScriptDies(p)
      BY <2>1, <3>2 DEF EndCall, ScriptDies, SessionsTyped
    <3> QED
      BY <1>2, <3>1, <3>2 DEF IndexEnds
  <2>4. script' \in [Scripts -> Script \cup {NoCall}]
    BY <1>2, <2>1, <2>3 DEF SessionsTyped, IndexEnds, Counted, EndCall, ScriptDies
  <2>5. Busy'
    BY <2>1, <2>2, <2>3, NoCallIsNothing
       DEF SessionsTyped, Busy, Uploading, Reindexing, Callers, Publishers
  <2> QED
    BY <2>2, <2>4, <2>5 DEF SessionsTyped
<1> QED
  BY <1>1, <1>2

LEMMA NewRowTyped ==
    ASSUME TypeInv, NEW p \in Callers, call[p] # NoCall PROVE NewRow(p) \in Row
  BY CallFields DEF TypeInv, TablesTyped, NewRow, Row

LEMMA PublishTyped ==
    ASSUME TypeInv, NEW p \in Callers, p \notin Uploaders, p \notin Scripts, Publishes(p)
    PROVE  TypeInv'
<1>1. PICK s \in store, b \in Bodies : Publish(p, s, b)
  BY DEF Publishes
<1>2. Request(s, b) \in Call
  BY <1>1, StoreIsStreams, RequestTyped DEF TypeInv
<1>3. SessionsTyped'
  BY <1>1, <1>2, ContinueTyped DEF Publish, TypeInv
<1> QED
  BY <1>1, <1>3 DEF Publish, TypeInv, TablesTyped, tables

LEMMA DiagramTyped ==
    ASSUME TypeInv, NEW p \in Callers, AddsDiagram(p)
    PROVE  TypeInv'
<1>1. PICK s \in store, v \in 1 .. MaxRows : set_workflow_mermaid(p, s, v)
  BY DEF AddsDiagram
<1>2. PICK r \in RowsOf(s) : rows' = (rows \ {r}) \cup {[r EXCEPT !.diagram = TRUE]}
  BY <1>1 DEF set_workflow_mermaid
<1>3. [r EXCEPT !.diagram = TRUE] \in Row
  BY <1>2 DEF RowsOf, TypeInv, TablesTyped, Row
<1>4. TablesTyped'
  BY <1>1, <1>2, <1>3 DEF set_workflow_mermaid, TypeInv, TablesTyped
<1>5. SessionsTyped'
  BY <1>1 DEF set_workflow_mermaid, TypeInv, SessionsTyped, Busy, Uploading, Reindexing
<1> QED
  BY <1>4, <1>5 DEF TypeInv

LEMMA PageTyped ==
    ASSUME TypeInv, NEW p \in Admins, PageCase(p)
    PROVE  TypeInv'
<1>1. p \in Callers /\ p \notin Uploaders /\ p \notin Scripts
  BY NotAnUploader, SessionsAssumption DEF Callers, Publishers
<1>2. CASE Publishes(p)
  BY <1>1, <1>2, PublishTyped
<1>3. CASE Counts(p)
  <2>1. PICK s \in store, v \in 1 .. MaxRows : CountVersions(p, s, v)
    BY <1>3 DEF Counts
  <2>2. [Request(s, CHOOSE b \in Bodies : TRUE) EXCEPT !.step = "delete", !.version = v] \in Call
    <3>1. Request(s, CHOOSE b \in Bodies : TRUE) \in Call
      BY StoreIsStreams, RequestTyped, NamesAssumption DEF TypeInv
    <3>2. v \in Nat
      BY BoundsAssumption
    <3> QED
      BY <3>1, <3>2 DEF Call
  <2>3. SessionsTyped'
    BY <1>1, <2>1, <2>2, ContinueTyped DEF CountVersions, TypeInv
  <2> QED
    BY <2>1, <2>3 DEF CountVersions, TypeInv, TablesTyped, tables
<1>4. CASE DeletesCounted(p)
  <2>1. SessionsTyped'
    BY <1>1, <1>4, ContinueTyped DEF DeletesCounted, DeleteCounted, TypeInv
  <2> QED
    BY <1>4, <2>1 DEF DeletesCounted, DeleteCounted, TypeInv, TablesTyped
<1>5. CASE DeletesUnprotected(p)
  BY <1>5 DEF DeletesUnprotected, DeleteRows, TypeInv, TablesTyped, SessionsTyped, Busy,
     Uploading, Reindexing
<1> QED
  BY <1>2, <1>3, <1>4, <1>5 DEF PageCase

LEMMA UploadTyped ==
    ASSUME TypeInv, NEW p \in Uploaders, upload_harness(p)
    PROVE  TypeInv'
<1>1. p \in Callers /\ p \notin Scripts
  BY SessionsAssumption DEF Callers, Publishers
<1>2. TablesTyped' /\ script' = script
  BY DEF upload_harness, StartUpload, UploadFile, UploadFileRefused, EndUpload, tables,
     TypeInv, TablesTyped
<1>3. CASE StartUpload(p)
  <2>1. PICK files \in SUBSET File :
          upload' = [upload EXCEPT ![p] = [todo |-> files, stored |-> {}, failed |-> {},
                                           wrote |-> {}, session |-> "good"]]
    BY <1>3 DEF StartUpload, Uploadable
  <2>2. [todo |-> files, stored |-> {}, failed |-> {}, wrote |-> {}, session |-> "good"] \in Upload
    BY DEF Upload
  <2> QED
    BY <1>2, <1>3, <2>1, <2>2, NoCallIsNothing
       DEF StartUpload, TypeInv, SessionsTyped, Busy, Uploading, Reindexing
<1>4. CASE UploadFile(p)
  <2>1. PICK f \in upload[p].todo :
          /\ upload' = [upload EXCEPT ![p].todo = @ \ {f}]
          /\ Continue(p, Request(f.stream, f.body))
    BY <1>4 DEF UploadFile
  <2>2. upload[p] \in Upload /\ f \in File
    BY <1>4, <2>1 DEF UploadFile, Uploading, TypeInv, SessionsTyped, Upload
  <2>3. Request(f.stream, f.body) \in Call
    BY <2>2, RequestTyped DEF File
  <2>4. upload'[p] \in Upload /\ \A q \in Uploaders \ {p} : upload'[q] = upload[q]
    BY <2>1, <2>2 DEF TypeInv, SessionsTyped, Upload
  <2>5. upload' \in [Uploaders -> Upload \cup {NoCall}]
    BY <2>1, <2>4 DEF TypeInv, SessionsTyped
  <2>6. /\ call' \in [Callers -> Call \cup {NoCall}]
        /\ \A q \in Callers \ {p} : call'[q] = call[q]
    BY <1>1, <2>1, <2>3 DEF Continue, TypeInv, SessionsTyped
  <2>7. Busy'
    BY <1>1, <1>2, <2>4, <2>6, NoCallIsNothing
       DEF TypeInv, SessionsTyped, Busy, Uploading, Reindexing, Callers, Publishers
  <2> QED
    BY <1>2, <2>5, <2>6, <2>7 DEF TypeInv, SessionsTyped
<1>5. CASE UploadFileRefused(p)
  <2>1. PICK f \in upload[p].todo :
          upload' = [upload EXCEPT ![p].todo = @ \ {f}, ![p].failed = @ \cup {f}]
    BY <1>5 DEF UploadFileRefused
  <2>2. upload[p] \in Upload
    BY <1>5 DEF UploadFileRefused, Uploading, TypeInv, SessionsTyped
  <2>3. upload'[p] \in Upload /\ \A q \in Uploaders \ {p} : upload'[q] = upload[q]
    BY <2>1, <2>2 DEF TypeInv, SessionsTyped, Upload
  <2>4. upload' \in [Uploaders -> Upload \cup {NoCall}]
    BY <2>1, <2>3 DEF TypeInv, SessionsTyped
  <2> QED
    BY <1>2, <1>5, <2>3, <2>4, NoCallIsNothing
       DEF UploadFileRefused, TypeInv, SessionsTyped, Busy, Uploading, Reindexing
<1>6. CASE EndUpload(p)
  BY <1>1, <1>2, <1>6 DEF EndUpload, Idle, TypeInv, SessionsTyped, Busy, Uploading, Reindexing
<1> QED
  BY <1>3, <1>4, <1>5, <1>6 DEF upload_harness

LEMMA ReindexTyped ==
    ASSUME TypeInv, NEW p \in Scripts, Reindex(p)
    PROVE  TypeInv'
<1>1. p \in Callers /\ p \notin Uploaders
  BY SessionsAssumption DEF Callers, Publishers
<1>2. ASSUME NEW kind \in Kinds, StartReindex(p, kind) PROVE TypeInv'
  <2>1. [kind |-> kind, scopes |-> Scopes, todo |-> {}, indexed |-> {}] \in Script
    BY DEF Script
  <2>2. TablesTyped' /\ upload' = upload /\ call' = call
    BY <1>2 DEF StartReindex, TypeInv, TablesTyped
  <2> QED
    BY <1>2, <2>1, <2>2, NoCallIsNothing
       DEF StartReindex, TypeInv, SessionsTyped, Busy, Uploading, Reindexing
<1>3. CASE ReadLatestVersions(p)
  <2>1. PICK scope, T :
          /\ T = UNION {Latest(s) : s \in {t \in store : /\ t.kind = script[p].kind
                                                         /\ t.scope = scope}}
          /\ script' = [script EXCEPT ![p].scopes = @ \ {scope}, ![p].todo = T]
    BY <1>3 DEF ReadLatestVersions
  <2>2. T \in SUBSET Row
    BY <2>1 DEF Latest, RowsOf, TypeInv, TablesTyped
  <2>3. script[p] \in Script
    BY <1>3 DEF ReadLatestVersions, Reindexing, TypeInv, SessionsTyped
  <2>4. script'[p] \in Script /\ \A q \in Scripts \ {p} : script'[q] = script[q]
    BY <2>1, <2>2, <2>3 DEF TypeInv, SessionsTyped, Script
  <2>5. script' \in [Scripts -> Script \cup {NoCall}]
    BY <2>1, <2>4 DEF TypeInv, SessionsTyped
  <2>6. TablesTyped' /\ upload' = upload /\ call' = call
    BY <1>3 DEF ReadLatestVersions, TypeInv, TablesTyped, tables
  <2> QED
    BY <2>4, <2>5, <2>6, NoCallIsNothing
       DEF TypeInv, SessionsTyped, Busy, Uploading, Reindexing
<1>4. CASE ReindexRow(p)
  <2>1. PICK r \in script[p].todo :
          /\ script' = [script EXCEPT ![p].todo = @ \ {r}]
          /\ Continue(p, [Request(r.stream, r.body) EXCEPT !.step = "index", !.id = r.id])
    BY <1>4 DEF ReindexRow
  <2>2. script[p] \in Script /\ r \in Row
    BY <1>4, <2>1 DEF ReindexRow, Reindexing, TypeInv, SessionsTyped, Script
  <2>3. [Request(r.stream, r.body) EXCEPT !.step = "index", !.id = r.id] \in Call
    BY <2>2 DEF Row, Request, Call
  <2>4. script'[p] \in Script /\ \A q \in Scripts \ {p} : script'[q] = script[q]
    BY <2>1, <2>2 DEF TypeInv, SessionsTyped, Script
  <2>5. script' \in [Scripts -> Script \cup {NoCall}]
    BY <2>1, <2>4 DEF TypeInv, SessionsTyped
  <2>6. /\ call' \in [Callers -> Call \cup {NoCall}]
        /\ \A q \in Callers \ {p} : call'[q] = call[q]
    BY <1>1, <2>1, <2>3 DEF Continue, TypeInv, SessionsTyped
  <2>7. TablesTyped' /\ upload' = upload
    BY <1>4 DEF ReindexRow, TypeInv, TablesTyped, tables
  <2>8. Busy'
    BY <1>1, <2>4, <2>6, <2>7, NoCallIsNothing
       DEF TypeInv, SessionsTyped, Busy, Uploading, Reindexing, Callers, Publishers
  <2> QED
    BY <2>5, <2>6, <2>7, <2>8 DEF TypeInv, SessionsTyped
<1>5. CASE ReindexRowGone(p) \/ EndReindex(p)
  BY <1>5 DEF ReindexRowGone, EndReindex, Idle, tables, TypeInv, TablesTyped, SessionsTyped,
     Busy, Uploading, Reindexing
<1> QED
  BY <1>2, <1>3, <1>4, <1>5 DEF Reindex, reindex_all_skills, reindex_all_workflows,
     reindex_all_docs, Kinds

LEMMA PublishStepsTyped ==
    ASSUME TypeInv, NEW p \in Publishers, PublishSteps(p)
    PROVE  TypeInv'
<1>1. p \in Callers /\ p \notin Scripts /\ call[p] # NoCall
  BY NotAnUploader DEF Callers, PublishSteps, ReadNextVersion, InsertFail, Insert, RefreshFail,
     AtStep
<1>2. call[p] \in Call
  BY <1>1, CallFields DEF TypeInv
<1>3. CASE ReadNextVersion(p)
  <2>1. PICK n \in NextVersion(call[p].stream) :
          Continue(p, [call[p] EXCEPT !.step = "insert", !.version = n])
    BY <1>3 DEF ReadNextVersion
  <2>2. n \in Nat
    BY <2>1 DEF NextVersion, Versions, RowsOf, TypeInv, TablesTyped, Row
  <2>3. [call[p] EXCEPT !.step = "insert", !.version = n] \in Call
    BY <1>2, <2>2 DEF Call
  <2>4. SessionsTyped'
    BY <1>1, <1>3, <2>1, <2>3, ContinueTyped DEF ReadNextVersion, TypeInv
  <2> QED
    BY <1>3, <2>4 DEF ReadNextVersion, TypeInv, TablesTyped, tables
<1>4. CASE InsertFail(p) \/ RefreshFail(p)
  <2>1. PICK a \in {"good", "lost"} : Fail(p, a)
    BY <1>4 DEF InsertFail, RefreshFail
  <2>2. SessionsTyped'
    BY <1>1, <2>1, EndTyped DEF TypeInv
  <2> QED
    BY <1>4, <2>2 DEF InsertFail, RefreshFail, TypeInv, TablesTyped, tables
<1>5. CASE Insert(p)
  <2>1. TablesTyped'
    BY <1>1, <1>5, NewRowTyped DEF Insert, TypeInv, TablesTyped
  <2>2. [call[p] EXCEPT !.step = "index", !.id = nextId] \in Call
    BY <1>2 DEF Call, TypeInv, TablesTyped
  <2>3. /\ call' \in [Callers -> Call \cup {NoCall}]
        /\ \A q \in Callers \ {p} : call'[q] = call[q]
    BY <1>1, <1>5, <2>2 DEF Insert, Continue, TypeInv, SessionsTyped
  <2>4. ASSUME NEW u \in Uploaders
        PROVE  upload'[u] \in Upload \cup {NoCall} /\ (upload[u] # NoCall => upload'[u] # NoCall)
    <3>1. CASE u # p
      BY <1>5, <3>1 DEF Insert, TypeInv, SessionsTyped
    <3>2. CASE u = p
      <4>1. upload[p] \in Upload
        BY <1>1, <3>2 DEF TypeInv, SessionsTyped, Busy, Uploading
      <4>2. CurrentFile(p) \in File /\ nextId \in Nat
        BY <1>1, CallFields DEF TypeInv, TablesTyped
      <4>3. upload'[p] = [upload[p] EXCEPT
                            !.wrote = @ \cup {[file |-> CurrentFile(p), id |-> nextId]}]
        BY <1>5, <3>2 DEF Insert
      <4>4. upload'[p] \in Upload
        BY <4>1, <4>2, <4>3 DEF Upload
      <4> QED
        BY <3>2, <4>4, NoCallIsNothing
    <3> QED
      BY <3>1, <3>2
  <2>5. upload' \in [Uploaders -> Upload \cup {NoCall}]
    BY <1>5, <2>4 DEF Insert
  <2>6. Busy' /\ script' = script
    BY <1>1, <1>5, <2>3, <2>4
       DEF Insert, TypeInv, SessionsTyped, Busy, Uploading, Reindexing, Callers, Publishers
  <2> QED
    BY <2>1, <2>3, <2>5, <2>6 DEF TypeInv, SessionsTyped
<1> QED
  BY <1>3, <1>4, <1>5 DEF PublishSteps

LEMMA SeenTyped ==
    ASSUME NEW s \in Streams PROVE DeletedBy(s) \subseteq chunks
<1>1. /\ SkillChunksOf(s) \subseteq chunks /\ WorkflowChunksOf(s) \subseteq chunks
      /\ DocChunksOf(s) \subseteq chunks /\ RuleChunksOf(s) \subseteq chunks
  BY DEF SkillChunksOf, WorkflowChunksOf, DocChunksOf, RuleChunksOf
<1> QED
  BY <1>1, StreamFields DEF DeletedBy, Kinds

LEMMA IndexStepsTyped ==
    ASSUME TypeInv, NEW p \in Callers, call[p] # NoCall, IndexSteps(p)
    PROVE  TypeInv'
<1>1. call[p] \in Call /\ call[p].stream \in Streams /\ call[p].id \in Nat
  BY CallFields DEF TypeInv
<1>2. CASE IndexNothing(p) \/ EmbedFail(p) \/ SaveChunksFail(p)
  <2>2. SessionsTyped'
    BY <1>2, IndexRunEnds, IndexEndsTyped DEF TypeInv
  <2> QED
    BY <1>2, <2>2 DEF IndexNothing, EmbedFail, SaveChunksFail, TypeInv, TablesTyped, tables
<1>3. CASE IndexDelete(p)
  <2>1. [call[p] EXCEPT !.step = "indexing", !.seen = DeletedBy(call[p].stream)] \in Call
    <3>1. DeletedBy(call[p].stream) \in SUBSET Chunk
      BY <1>1, SeenTyped DEF TypeInv, TablesTyped
    <3> QED
      BY <1>1, <3>1 DEF Call
  <2>2. SessionsTyped'
    BY <1>3, <2>1, ContinueTyped DEF IndexDelete, TypeInv
  <2> QED
    BY <1>3, <2>2 DEF IndexDelete, TypeInv, TablesTyped, tables
<1>4. CASE IndexCommit(p)
  <2>1. SessionsTyped'
    BY <1>4, IndexRunEnds, IndexEndsTyped DEF TypeInv
  <2>2. TablesTyped'
    BY <1>1, <1>4 DEF IndexCommit, TypeInv, TablesTyped, Chunk
  <2> QED
    BY <2>1, <2>2 DEF TypeInv
<1> QED
  BY <1>2, <1>3, <1>4 DEF IndexSteps

LEMMA CrashTyped ==
    ASSUME TypeInv, NEW p \in Callers, Crash(p)
    PROVE  TypeInv'
<1>1. TablesTyped'
  BY DEF Crash, tables, TypeInv, TablesTyped
<1>2. /\ call' \in [Callers -> Call \cup {NoCall}] /\ call'[p] = NoCall
      /\ \A q \in Callers \ {p} : call'[q] = call[q]
  BY DEF Crash, Continue, TypeInv, SessionsTyped
<1>3. /\ upload' \in [Uploaders -> Upload \cup {NoCall}]
      /\ \A q \in Uploaders \ {p} : upload'[q] = upload[q]
  BY DEF Crash, TypeInv, SessionsTyped
<1>4. /\ script' \in [Scripts -> Script \cup {NoCall}]
      /\ \A q \in Scripts \ {p} : script'[q] = script[q]
  BY DEF Crash, TypeInv, SessionsTyped
<1>5. Busy'
  BY <1>2, <1>3, <1>4
     DEF TypeInv, SessionsTyped, Busy, Uploading, Reindexing, Callers, Publishers
<1> QED
  BY <1>1, <1>2, <1>3, <1>4, <1>5 DEF TypeInv, SessionsTyped

LEMMA InitTyped == Init => TypeInv
  BY DEF Init, TypeInv, TablesTyped, SessionsTyped, Busy, Callers, Publishers

LEMMA NextTyped == TypeInv /\ [Next]_vars => TypeInv'
<1> SUFFICES ASSUME TypeInv, [Next]_vars PROVE TypeInv'
  OBVIOUS
<1>1. CASE UNCHANGED vars
  BY <1>1 DEF vars, tables, TypeInv, TablesTyped, SessionsTyped, Busy, Uploading, Reindexing
<1>2. CASE Next
  <2>1. PICK p \in Callers : StepOf(p)
    BY <1>2, NextIsAStep
  <2>2. CASE p \in Agents /\ ToolCase(p)
    BY <2>2, PublishTyped, DiagramTyped, NotAnUploader DEF ToolCase, Publishers
  <2>3. CASE p \in Admins /\ PageCase(p)
    BY <2>3, PageTyped
  <2>4. CASE p \in Uploaders /\ upload_harness(p)
    BY <2>4, UploadTyped
  <2>5. CASE p \in Scripts /\ Reindex(p)
    BY <2>5, ReindexTyped
  <2>6. CASE p \in Publishers /\ PublishSteps(p)
    BY <2>6, PublishStepsTyped
  <2>7. CASE call[p] # NoCall /\ IndexSteps(p)
    BY <2>1, <2>7, IndexStepsTyped
  <2>8. CASE Crash(p)
    BY <2>1, <2>8, CrashTyped
  <2> QED
    BY <2>1, <2>2, <2>3, <2>4, <2>5, <2>6, <2>7, <2>8 DEF StepOf
<1> QED
  BY <1>1, <1>2

LEMMA AlwaysTyped == Spec => []TypeInv
  BY InitTyped, NextTyped, PTL DEF Spec

\* Every variable keeps its type: in particular no handler of an upload or of a
\* re-index goes on after its session is gone.
THEOREM TypeCorrect == Spec => []TypeOK
<1>1. TypeInv => TypeOK
  BY DEF TypeInv, TypeOK, TablesTyped, SessionsTyped
<1> QED
  BY <1>1, AlwaysTyped, PTL

-----------------------------------------------------------------------------
(* What a step does to the rows and to the calls *)

\* Two rows of a stream have two versions.
UniqueVersions ==
    \A r, q \in rows : r.stream = q.stream /\ r.version = q.version => r = q

RowsSound == IsFiniteSet(rows) /\ UniqueVersions

\* A step that leaves every version in place.
KeepsVersions ==
    \A r \in rows : \E q \in rows' : q.stream = r.stream /\ q.version = r.version

\* Versions disappear only in two ways, and only admins make them.
LEMMA RowsStep ==
    ASSUME TypeInv, RowsSound, NEW p \in Callers, StepOf(p)
    PROVE  /\ RowsSound'
           /\ \/ KeepsVersions
              \/ p \in Admins /\ DeletesCounted(p)
              \/ p \in Admins /\ DeletesUnprotected(p)
<1>1. CASE rows' = rows
  BY <1>1 DEF RowsSound, UniqueVersions, KeepsVersions
<1>2. CASE Insert(p)
  <2>1. rows' = rows \cup {NewRow(p)} /\ ~Taken(NewRow(p).stream, NewRow(p).version)
    BY <1>2 DEF Insert, NewRow
  <2>2. IsFiniteSet(rows')
    BY <2>1, FS_AddElement DEF RowsSound
  <2>3. UniqueVersions'
    BY <2>1 DEF RowsSound, UniqueVersions, Taken, Versions, RowsOf
  <2> QED
    BY <2>1, <2>2, <2>3 DEF RowsSound, KeepsVersions
<1>3. CASE AddsDiagram(p)
  <2>1. PICK r \in rows : rows' = (rows \ {r}) \cup {[r EXCEPT !.diagram = TRUE]}
    BY <1>3 DEF AddsDiagram, set_workflow_mermaid, RowsOf
  <2>2. /\ [r EXCEPT !.diagram = TRUE].stream = r.stream
        /\ [r EXCEPT !.diagram = TRUE].version = r.version
    BY <2>1 DEF TypeInv, TablesTyped, Row
  <2>3. PICK q : /\ rows' = (rows \ {r}) \cup {q}
                 /\ q.stream = r.stream /\ q.version = r.version
    BY <2>1, <2>2
  <2>4. IsFiniteSet(rows')
    <3>1. IsFiniteSet(rows \ {r})
      BY FS_RemoveElement DEF RowsSound
    <3> QED
      BY <2>3, <3>1, FS_AddElement
  <2>5. ASSUME NEW x \in rows', NEW y \in rows', x.stream = y.stream, x.version = y.version
        PROVE  x = y
    <3>1. ASSUME NEW z \in rows \ {r} PROVE ~(z.stream = q.stream /\ z.version = q.version)
      BY <2>1, <2>3 DEF RowsSound, UniqueVersions
    <3> QED
      BY <2>3, <2>5, <3>1 DEF RowsSound, UniqueVersions
  <2> QED
    BY <2>1, <2>3, <2>4, <2>5 DEF UniqueVersions, RowsSound, KeepsVersions
<1>4. ASSUME rows' \subseteq rows PROVE RowsSound'
  BY <1>4, FS_Subset DEF RowsSound, UniqueVersions
<1>5. CASE p \in Admins /\ DeletesCounted(p)
  BY <1>4, <1>5 DEF DeletesCounted, DeleteCounted
<1>6. CASE p \in Admins /\ DeletesUnprotected(p)
  BY <1>4, <1>6 DEF DeletesUnprotected, DeleteRows
<1>7. CASE (p \in Agents /\ ToolCase(p)) \/ (p \in Admins /\ PageCase(p))
  BY <1>1, <1>3, <1>5, <1>6, <1>7 DEF ToolCase, PageCase, Publishes, Publish, Counts,
     CountVersions, tables
<1>8. CASE (p \in Publishers /\ PublishSteps(p)) \/ Crash(p)
  BY <1>1, <1>2, <1>8 DEF PublishSteps, ReadNextVersion, InsertFail, RefreshFail, Crash, tables
<1>9. CASE p \in Uploaders /\ upload_harness(p)
  BY <1>1, <1>9 DEF upload_harness, StartUpload, UploadFile, UploadFileRefused, EndUpload, tables
<1>10. CASE p \in Scripts /\ Reindex(p)
  BY <1>1, <1>10 DEF Reindex, reindex_all_skills, reindex_all_workflows, reindex_all_docs,
     StartReindex, ReadLatestVersions, ReindexRow, ReindexRowGone, EndReindex, tables
<1>11. CASE call[p] # NoCall /\ IndexSteps(p)
  BY <1>1, <1>11 DEF IndexSteps, IndexNothing, EmbedFail, IndexDelete, IndexCommit,
     SaveChunksFail, tables
<1> QED
  BY <1>7, <1>8, <1>9, <1>10, <1>11 DEF StepOf

\* A session works on its own call; only a count leads to a counted DELETE, and
\* only IndexDelete to the commit of an index.
CallsApart(p) ==
    /\ \A q \in Callers \ {p} : call'[q] = call[q]
    /\ AtStep(p, "delete")' => call'[p] = call[p] \/ (p \in Admins /\ Counts(p))
    /\ AtStep(p, "indexing")' => call'[p] = call[p] \/ IndexDelete(p)

LEMMA CallStep ==
    ASSUME TypeInv, NEW p \in Callers, StepOf(p) PROVE CallsApart(p)
<1>1. CASE UNCHANGED call
  BY <1>1 DEF CallsApart
<1>2. ASSUME NEW c, Continue(p, c), c = NoCall \/ c.step \notin {"delete", "indexing"}
      PROVE  CallsApart(p)
  BY <1>2 DEF Continue, CallsApart, AtStep, TypeInv, SessionsTyped
<1>3. CASE p \in Admins /\ Counts(p)
  <2>1. PICK s, v : CountVersions(p, s, v)
    BY <1>3 DEF Counts
  <2>2. call'[p].step = "delete" /\ \A q \in Callers \ {p} : call'[q] = call[q]
    BY <2>1 DEF CountVersions, Continue, Request, TypeInv, SessionsTyped
  <2> QED
    BY <1>3, <2>2 DEF CallsApart, AtStep
<1>4. ASSUME NEW s, NEW b, Publish(p, s, b) PROVE CallsApart(p)
  BY <1>2, <1>4 DEF Publish, Request
<1>5. CASE (p \in Agents /\ ToolCase(p)) \/ (p \in Admins /\ PageCase(p))
  BY <1>1, <1>2, <1>3, <1>4, <1>5 DEF ToolCase, PageCase, Publishes, AddsDiagram,
     set_workflow_mermaid, DeletesCounted, DeleteCounted, DeletesUnprotected, DeleteRows
<1>6. CASE p \in Uploaders /\ upload_harness(p)
  BY <1>1, <1>2, <1>6 DEF upload_harness, StartUpload, UploadFile, UploadFileRefused,
     EndUpload, Request
<1>7. CASE p \in Scripts /\ Reindex(p)
  <2>1. ASSUME NEW r, Continue(p, [Request(r.stream, r.body) EXCEPT !.step = "index", !.id = r.id])
        PROVE  CallsApart(p)
    BY <1>2, <2>1 DEF Request
  <2> QED
    BY <1>1, <1>7, <2>1 DEF Reindex, reindex_all_skills, reindex_all_workflows,
       reindex_all_docs, StartReindex, ReadLatestVersions, ReindexRow, ReindexRowGone, EndReindex
<1>8. ASSUME NEW a, Succeed(p, a) \/ Fail(p, a) PROVE CallsApart(p)
  BY <1>2, <1>8 DEF Succeed, Fail
<1>9. CASE p \in Publishers /\ PublishSteps(p)
  <2>1. call[p] # NoCall
    BY <1>9 DEF PublishSteps, ReadNextVersion, InsertFail, Insert, RefreshFail, AtStep
  <2>2. call[p] \in Call
    BY <2>1, CallFields DEF TypeInv
  <2>3. ASSUME NEW n, Continue(p, [call[p] EXCEPT !.step = "insert", !.version = n])
        PROVE  CallsApart(p)
    BY <1>2, <2>2, <2>3 DEF Call
  <2>4. ASSUME NEW n, Continue(p, [call[p] EXCEPT !.step = "index", !.id = n])
        PROVE  CallsApart(p)
    BY <1>2, <2>2, <2>4 DEF Call
  <2> QED
    BY <1>8, <1>9, <2>3, <2>4 DEF PublishSteps, ReadNextVersion, InsertFail, Insert, RefreshFail
<1>10. CASE call[p] # NoCall /\ IndexSteps(p)
  <2>1. call[p] \in Call
    BY <1>10, CallFields DEF TypeInv
  <2>2. ASSUME IndexEnds(p) PROVE CallsApart(p)
    BY <1>2, <1>8, <2>2 DEF IndexEnds, Counted, EndCall, ScriptDies
  <2>3. CASE IndexDelete(p)
    <3>1. PICK S : Continue(p, [call[p] EXCEPT !.step = "indexing", !.seen = S])
      BY <2>3 DEF IndexDelete
    <3> QED
      BY <2>1, <2>3, <3>1 DEF Continue, CallsApart, AtStep, Call, TypeInv, SessionsTyped
  <2> QED
    BY <1>10, <2>2, <2>3, IndexRunEnds DEF IndexSteps
<1>11. CASE Crash(p)
  BY <1>2, <1>11 DEF Crash
<1> QED
  BY <1>5, <1>6, <1>7, <1>9, <1>10, <1>11 DEF StepOf

-----------------------------------------------------------------------------
(* The last version of "main" *)

\* Between the count of an admin and the DELETE, the stream has another version.
LeavesOne(p) ==
    AtStep(p, "delete") =>
        /\ p \in Admins
        /\ Protected(call[p].stream) =>
               \E r \in RowsOf(call[p].stream) : r.version # call[p].version

MainInv == RowsSound /\ \A p \in Callers : LeavesOne(p)

MainStays ==
    \A s \in store : s.kind # "rule" /\ Protected(s) /\ RowsOf(s) # {} => RowsOf(s)' # {}

\* Of a stream with two rows, one is not of version v.
LEMMA AnotherVersion ==
    ASSUME RowsSound, NEW s, NEW v, ~(Cardinality(RowsOf(s)) <= 1)
    PROVE  \E r \in RowsOf(s) : r.version # v
<1> SUFFICES ASSUME \A r \in RowsOf(s) : r.version = v PROVE FALSE
  OBVIOUS
<1>1. \A r, q \in RowsOf(s) : r = q
  BY DEF RowsOf, RowsSound, UniqueVersions
<1>2. CASE RowsOf(s) = {}
  BY <1>2, FS_EmptySet
<1>3. CASE RowsOf(s) # {}
  <2>1. PICK r : r \in RowsOf(s)
    BY <1>3
  <2>2. RowsOf(s) = {r}
    BY <1>1, <2>1
  <2>3. Cardinality({r}) = 1
    BY ONLY FS_Singleton
  <2> QED
    BY <2>2, <2>3
<1> QED
  BY <1>2, <1>3

LEMMA MainStep ==
    ASSUME TypeInv, MainInv, \A p, q \in Admins : p = q, NEW p \in Callers, StepOf(p)
    PROVE  MainInv' /\ MainStays
<1>1. RowsSound' /\ CallsApart(p)
  BY RowsStep, CallStep DEF MainInv
\* The deletion that was counted.
<1>2. CASE p \in Admins /\ DeletesCounted(p)
  <2>1. /\ AtStep(p, "delete") /\ call'[p] = NoCall
        /\ rows' = {r \in rows : ~(r.stream = call[p].stream /\ r.version = call[p].version)}
    BY <1>2 DEF DeletesCounted, DeleteCounted, Continue, TypeInv, SessionsTyped
  <2>2. ASSUME NEW q \in Callers PROVE ~AtStep(q, "delete")'
    <3>1. CASE q = p
      BY <2>1, <3>1 DEF AtStep
    <3>2. CASE q # p
      BY <1>1, <1>2, <3>2 DEF CallsApart, AtStep, MainInv, LeavesOne
    <3> QED
      BY <3>1, <3>2
  <2>3. ASSUME NEW s, Protected(s), RowsOf(s) # {} PROVE RowsOf(s)' # {}
    <3>1. PICK r \in RowsOf(s) : s = call[p].stream => r.version # call[p].version
      BY <2>1, <2>3 DEF MainInv, LeavesOne
    <3> QED
      BY <2>1, <3>1 DEF RowsOf
  <2> QED
    BY <1>1, <2>2, <2>3 DEF MainInv, LeavesOne, MainStays
\* Deletions of anything else, by the one admin, who is not about to delete.
<1>3. CASE p \in Admins /\ DeletesUnprotected(p)
  <2>1. PICK R : rows' = rows \ R /\ (\A r \in R : ~Protected(r.stream)) /\ call' = call
    BY <1>3 DEF DeletesUnprotected, DeleteRows
  <2>2. \A s : Protected(s) => RowsOf(s)' = RowsOf(s)
    BY <2>1 DEF RowsOf
  <2>3. ASSUME NEW q \in Callers PROVE LeavesOne(q)'
    BY <2>1, <2>2 DEF MainInv, LeavesOne, AtStep
  <2> QED
    BY <1>1, <2>2, <2>3 DEF MainInv, MainStays
<1>4. CASE KeepsVersions
  <2>1. MainStays
    BY <1>4 DEF KeepsVersions, MainStays, RowsOf
  <2>2. \A s, v : (\E r \in RowsOf(s) : r.version # v) => \E r \in RowsOf(s)' : r.version # v
    BY <1>4 DEF KeepsVersions, RowsOf
  <2>3. ASSUME NEW q \in Callers, call'[q] = call[q] PROVE LeavesOne(q)'
    BY <2>2, <2>3 DEF MainInv, LeavesOne, AtStep
  <2>4. CASE p \in Admins /\ Counts(p)
    <3>1. PICK s \in store, v \in 1 .. MaxRows : CountVersions(p, s, v)
      BY <2>4 DEF Counts
    <3>2. call'[p].stream = s /\ call'[p].version = v /\ rows' = rows
      BY <3>1 DEF CountVersions, Continue, Request, tables, TypeInv, SessionsTyped
    <3>3. Protected(s) => \E r \in RowsOf(s) : r.version # v
      BY <3>1, AnotherVersion DEF CountVersions, DeletionRefused, MainInv
    <3>4. LeavesOne(p)'
      BY <2>4, <3>2, <3>3 DEF LeavesOne, RowsOf
    <3> QED
      BY <1>1, <2>1, <2>3, <3>4 DEF CallsApart, MainInv
  <2>5. CASE ~(p \in Admins /\ Counts(p))
    <3>1. LeavesOne(p)'
      BY <1>1, <2>3, <2>5 DEF CallsApart, LeavesOne
    <3> QED
      BY <1>1, <2>1, <2>3, <3>1 DEF CallsApart, MainInv
  <2> QED
    BY <2>4, <2>5
<1> QED
  BY <1>2, <1>3, <1>4, RowsStep DEF MainInv

\* With at most one admin, no step takes the last version of "main" of the
\* global stream or of the default pattern, whatever agents publish between
\* the count and the DELETE of a handler.
THEOREM OneAdminKeepsMain ==
    ASSUME \A p, q \in Admins : p = q PROVE Spec => MainKeepsAVersion
<1>1. Init => MainInv
  <2>1. Init => RowsSound
    BY FS_EmptySet DEF Init, RowsSound, UniqueVersions
  <2> QED
    BY <2>1 DEF Init, MainInv, LeavesOne, AtStep
<1>2. TypeInv /\ MainInv /\ [Next]_vars => MainInv'
  <2> SUFFICES ASSUME TypeInv, MainInv, [Next]_vars PROVE MainInv'
    OBVIOUS
  <2>1. CASE UNCHANGED vars
    BY <2>1 DEF vars, tables, MainInv, RowsSound, UniqueVersions, LeavesOne, AtStep, RowsOf
  <2>2. CASE Next
    BY <2>2, NextIsAStep, MainStep
  <2> QED
    BY <2>1, <2>2
<1>3. TypeInv /\ MainInv /\ [Next]_vars => [MainStays]_vars
  BY NextIsAStep, MainStep
<1>4. Spec => [][MainStays]_vars
  BY <1>1, <1>2, <1>3, AlwaysTyped, PTL DEF Spec
<1> QED
  BY <1>4 DEF MainKeepsAVersion, MainStays

-----------------------------------------------------------------------------
(* The answer of an upload *)

\* The answer so far: what it says of the files that are done, and that nothing
\* was written for those to come.
AnswerSound(p) ==
    /\ \A w \in upload[p].wrote : w.id < nextId
    /\ \A f \in upload[p].failed, w \in upload[p].wrote :
          w.file = f => \A r \in rows : r.id # w.id
    /\ \A f \in upload[p].stored : \E w \in upload[p].wrote : w.file = f
    /\ \A f \in upload[p].todo :
          f \notin upload[p].failed /\ \A w \in upload[p].wrote : w.file # f

\* The file at work: nothing was written before the insert, one row after it.
CurrentSound(p) ==
    /\ CurrentFile(p) \notin upload[p].todo /\ CurrentFile(p) \notin upload[p].failed
    /\ call[p].step \in {"read", "insert"} =>
          \A w \in upload[p].wrote : w.file # CurrentFile(p)
    /\ call[p].step \in {"index", "indexing"} =>
          /\ \E w \in upload[p].wrote : w.file = CurrentFile(p)
          /\ \A w \in upload[p].wrote : w.file = CurrentFile(p) => w.id = call[p].id

UploadSound(p) ==
    Uploading(p) => AnswerSound(p) /\ (call[p] # NoCall => CurrentSound(p))

UploadInv == \A p \in Uploaders : UploadSound(p)

\* Keys grow, and a row that appears has the next one.
KeysGrow ==
    /\ nextId' \in Nat /\ nextId <= nextId'
    /\ \A r \in rows' : r.id = nextId \/ \E q \in rows : q.id = r.id

LEMMA KeysStep ==
    ASSUME TypeInv, NEW p \in Callers, StepOf(p) PROVE KeysGrow
<1> nextId \in Nat /\ rows \subseteq Row
  BY DEF TypeInv, TablesTyped
<1>1. CASE rows' \subseteq rows /\ nextId' = nextId
  BY <1>1 DEF KeysGrow
<1>2. CASE Insert(p)
  BY <1>2 DEF Insert, NewRow, KeysGrow
<1>3. CASE AddsDiagram(p)
  <2>1. PICK r \in rows : rows' = (rows \ {r}) \cup {[r EXCEPT !.diagram = TRUE]}
    BY <1>3 DEF AddsDiagram, set_workflow_mermaid, RowsOf
  <2>2. [r EXCEPT !.diagram = TRUE].id = r.id
    BY <2>1 DEF Row
  <2>3. PICK q : rows' = (rows \ {r}) \cup {q} /\ q.id = r.id
    BY <2>1, <2>2
  <2>4. nextId' = nextId
    BY <1>3 DEF AddsDiagram, set_workflow_mermaid
  <2> QED
    BY <2>1, <2>3, <2>4 DEF KeysGrow
<1>4. CASE (p \in Agents /\ ToolCase(p)) \/ (p \in Admins /\ PageCase(p))
  <2>1. CASE DeletesCounted(p) \/ DeletesUnprotected(p)
    BY <1>1, <2>1 DEF DeletesCounted, DeleteCounted, DeletesUnprotected, DeleteRows
  <2>2. CASE Publishes(p) \/ Counts(p)
    BY <1>1, <2>2 DEF Publishes, Publish, Counts, CountVersions, tables
  <2> QED
    BY <1>3, <1>4, <2>1, <2>2 DEF ToolCase, PageCase
<1>5. CASE (p \in Publishers /\ PublishSteps(p)) \/ Crash(p)
  BY <1>1, <1>2, <1>5 DEF PublishSteps, ReadNextVersion, InsertFail, RefreshFail, Crash, tables
<1>6. CASE p \in Uploaders /\ upload_harness(p)
  BY <1>1, <1>6 DEF upload_harness, StartUpload, UploadFile, UploadFileRefused, EndUpload, tables
<1>7. CASE p \in Scripts /\ Reindex(p)
  BY <1>1, <1>7 DEF Reindex, reindex_all_skills, reindex_all_workflows, reindex_all_docs,
     StartReindex, ReadLatestVersions, ReindexRow, ReindexRowGone, EndReindex, tables
<1>8. CASE call[p] # NoCall /\ IndexSteps(p)
  BY <1>1, <1>8 DEF IndexSteps, IndexNothing, EmbedFail, IndexDelete, IndexCommit,
     SaveChunksFail, tables
<1> QED
  BY <1>4, <1>5, <1>6, <1>7, <1>8 DEF StepOf

\* An upload that a step leaves alone stays sound: no key that it wrote comes back.
LEMMA UploadLeftAlone ==
    ASSUME TypeInv, KeysGrow, NEW q \in Uploaders, UploadSound(q),
           upload'[q] = upload[q], call'[q] = call[q]
    PROVE  UploadSound(q)'
<1> SUFFICES ASSUME Uploading(q) PROVE UploadSound(q)'
  BY DEF UploadSound, Uploading
<1>1. AnswerSound(q)'
  <2>1. upload[q] \in Upload /\ nextId \in Nat /\ nextId' \in Nat /\ nextId <= nextId'
    BY DEF Uploading, TypeInv, TablesTyped, SessionsTyped, KeysGrow
  <2>2. \A w \in upload[q].wrote : w.id \in Nat /\ w.id < nextId
    BY <2>1 DEF UploadSound, AnswerSound, Upload
  <2>3. ASSUME NEW w \in upload[q].wrote, \A r \in rows : r.id # w.id, NEW r \in rows'
        PROVE  r.id # w.id
    BY <2>1, <2>2, <2>3 DEF KeysGrow
  <2>4. \A w \in upload[q].wrote : w.id < nextId'
    BY <2>1, <2>2
  <2> QED
    BY <2>3, <2>4 DEF UploadSound, AnswerSound
<1>2. call[q] # NoCall => CurrentSound(q)'
  BY DEF UploadSound, CurrentSound, CurrentFile
<1> QED
  BY <1>1, <1>2 DEF UploadSound

LEMMA UploadsApart ==
    ASSUME TypeInv, NEW p \in Callers, StepOf(p), NEW q \in Uploaders, q # p
    PROVE  upload'[q] = upload[q]
<1>1. CASE UNCHANGED upload
  BY <1>1
<1>2. ASSUME NEW a, Succeed(p, a) \/ Fail(p, a) PROVE upload'[q] = upload[q]
  BY <1>2 DEF Succeed, Fail
<1>3. ASSUME IndexEnds(p) PROVE upload'[q] = upload[q]
  BY <1>1, <1>2, <1>3 DEF IndexEnds, Counted, EndCall, ScriptDies
<1>4. CASE (p \in Agents /\ ToolCase(p)) \/ (p \in Admins /\ PageCase(p))
  BY <1>1, <1>4 DEF ToolCase, PageCase, Publishes, Publish, AddsDiagram, set_workflow_mermaid,
     Counts, CountVersions, DeletesCounted, DeleteCounted, DeletesUnprotected, DeleteRows
<1>5. CASE p \in Publishers /\ PublishSteps(p)
  BY <1>1, <1>2, <1>5 DEF PublishSteps, ReadNextVersion, InsertFail, Insert, RefreshFail
<1>6. CASE p \in Uploaders /\ upload_harness(p)
  BY <1>6 DEF upload_harness, StartUpload, UploadFile, UploadFileRefused, EndUpload,
     TypeInv, SessionsTyped
<1>7. CASE p \in Scripts /\ Reindex(p)
  BY <1>1, <1>7 DEF Reindex, reindex_all_skills, reindex_all_workflows, reindex_all_docs,
     StartReindex, ReadLatestVersions, ReindexRow, ReindexRowGone, EndReindex
<1>8. CASE call[p] # NoCall /\ IndexSteps(p)
  BY <1>1, <1>3, <1>8, IndexRunEnds DEF IndexSteps, IndexDelete
<1>9. CASE Crash(p)
  BY <1>9 DEF Crash
<1> QED
  BY <1>4, <1>5, <1>6, <1>7, <1>8, <1>9 DEF StepOf

\* Starting, taking up a file, refusing one, answering.
LEMMA UploadOwnStep ==
    ASSUME TypeInv, NEW p \in Uploaders, UploadSound(p), upload_harness(p)
    PROVE  UploadSound(p)'
<1>1. p \in Callers /\ UNCHANGED <<rows, nextId>>
  BY DEF Callers, Publishers, upload_harness, StartUpload, UploadFile, UploadFileRefused,
     EndUpload, tables
<1>2. CASE StartUpload(p)
  <2>1. PICK files \in SUBSET File :
          upload' = [upload EXCEPT ![p] = [todo |-> files, stored |-> {}, failed |-> {},
                                           wrote |-> {}, session |-> "good"]]
    BY <1>2 DEF StartUpload, Uploadable
  <2>2. AnswerSound(p)' /\ call'[p] = NoCall
    BY <1>2, <2>1 DEF StartUpload, Idle, AnswerSound, TypeInv, SessionsTyped
  <2> QED
    BY <2>2 DEF UploadSound
<1>3. CASE UploadFile(p)
  <2>1. PICK f \in upload[p].todo :
          /\ upload' = [upload EXCEPT ![p].todo = @ \ {f}]
          /\ Continue(p, Request(f.stream, f.body))
    BY <1>3 DEF UploadFile
  <2>2. upload[p] \in Upload /\ f \in File /\ AnswerSound(p)
    BY <1>3, <2>1 DEF UploadFile, Uploading, TypeInv, SessionsTyped, Upload, UploadSound
  <2>3. /\ upload'[p].todo = upload[p].todo \ {f} /\ upload'[p].stored = upload[p].stored
        /\ upload'[p].failed = upload[p].failed /\ upload'[p].wrote = upload[p].wrote
    BY <2>1, <2>2 DEF TypeInv, SessionsTyped, Upload
  <2>4. call'[p].step = "read" /\ CurrentFile(p)' = f
    BY <1>1, <2>1, <2>2 DEF Continue, Request, CurrentFile, File, TypeInv, SessionsTyped
  <2>5. AnswerSound(p)'
    BY <1>1, <2>2, <2>3 DEF AnswerSound
  <2>6. CurrentSound(p)'
    BY <2>1, <2>2, <2>3, <2>4 DEF AnswerSound, CurrentSound
  <2> QED
    BY <2>5, <2>6 DEF UploadSound
<1>4. CASE UploadFileRefused(p)
  <2>1. PICK f \in upload[p].todo :
          upload' = [upload EXCEPT ![p].todo = @ \ {f}, ![p].failed = @ \cup {f}]
    BY <1>4 DEF UploadFileRefused
  <2>2. upload[p] \in Upload /\ AnswerSound(p) /\ call'[p] = NoCall
    BY <1>1, <1>4 DEF UploadFileRefused, Uploading, Idle, TypeInv, SessionsTyped, UploadSound
  <2>3. /\ upload'[p].todo = upload[p].todo \ {f} /\ upload'[p].stored = upload[p].stored
        /\ upload'[p].failed = upload[p].failed \cup {f} /\ upload'[p].wrote = upload[p].wrote
    BY <2>1, <2>2 DEF TypeInv, SessionsTyped, Upload
  <2>4. AnswerSound(p)'
    BY <1>1, <2>1, <2>2, <2>3 DEF AnswerSound
  <2> QED
    BY <2>2, <2>4 DEF UploadSound
<1>5. CASE EndUpload(p)
  BY <1>5 DEF EndUpload, UploadSound, Uploading, TypeInv, SessionsTyped
<1> QED
  BY <1>2, <1>3, <1>4, <1>5 DEF upload_harness

\* The end of a call: one that fails has written nothing that is still there,
\* one that succeeds has written.
LEMMA UploadEndsCall ==
    ASSUME TypeInv, NEW p \in Uploaders, UploadSound(p), call[p] # NoCall,
           UNCHANGED <<rows, nextId>>, NEW a,
           \/ Succeed(p, a) /\ call[p].step \in {"index", "indexing"}
           \/ Fail(p, a) /\ call[p].step = "insert"
           \/ Fail(p, a) /\ call[p].step = "index" /\ ~Published(p)
    PROVE  UploadSound(p)'
<1>1. p \in Callers /\ upload[p] \in Upload /\ AnswerSound(p) /\ CurrentSound(p)
  BY DEF Callers, Publishers, TypeInv, SessionsTyped, Busy, Uploading, UploadSound
<1>2. call'[p] = NoCall
  BY <1>1 DEF Succeed, Fail, Continue, TypeInv, SessionsTyped
<1>3. upload'[p].todo = upload[p].todo /\ upload'[p].wrote = upload[p].wrote
  BY DEF Succeed, Fail, Reported
<1>4. CASE Succeed(p, a) /\ call[p].step \in {"index", "indexing"}
  <2>1. /\ upload'[p].stored = upload[p].stored \cup {CurrentFile(p)}
        /\ upload'[p].failed = upload[p].failed
    BY <1>4 DEF Succeed, Reported
  <2>2. AnswerSound(p)'
    BY <1>1, <1>3, <1>4, <2>1 DEF AnswerSound, CurrentSound
  <2> QED
    BY <1>2, <2>2 DEF UploadSound
<1>5. ASSUME Fail(p, a),
             \A w \in upload[p].wrote : w.file = CurrentFile(p) => \A r \in rows : r.id # w.id
      PROVE  UploadSound(p)'
  <2>1. /\ upload'[p].stored = upload[p].stored
        /\ upload'[p].failed = upload[p].failed \cup {CurrentFile(p)}
    BY <1>5 DEF Fail, Reported
  <2>2. AnswerSound(p)'
    BY <1>1, <1>3, <1>5, <2>1 DEF AnswerSound, CurrentSound
  <2> QED
    BY <1>2, <2>2 DEF UploadSound
<1>6. CASE Fail(p, a) /\ call[p].step = "insert"
  BY <1>1, <1>5, <1>6 DEF CurrentSound
<1>7. CASE Fail(p, a) /\ call[p].step = "index" /\ ~Published(p)
  BY <1>1, <1>5, <1>7 DEF CurrentSound, Published
<1> QED
  BY <1>4, <1>6, <1>7

LEMMA UploadPublishStep ==
    ASSUME TypeInv, NEW p \in Uploaders, UploadSound(p), PublishSteps(p)
    PROVE  UploadSound(p)'
<1>1. p \in Callers /\ call[p] # NoCall
  BY DEF Callers, Publishers, PublishSteps, ReadNextVersion, InsertFail, Insert, RefreshFail,
     AtStep
<1>2. call[p] \in Call /\ upload[p] \in Upload /\ AnswerSound(p) /\ CurrentSound(p)
  BY <1>1, CallFields DEF TypeInv, SessionsTyped, Busy, Uploading, UploadSound
<1>3. CASE ReadNextVersion(p)
  <2>1. PICK n : call' = [call EXCEPT ![p] = [call[p] EXCEPT !.step = "insert", !.version = n]]
    BY <1>3 DEF ReadNextVersion, Continue
  <2>2. call'[p].step = "insert" /\ CurrentFile(p)' = CurrentFile(p)
    BY <1>1, <1>2, <2>1 DEF TypeInv, SessionsTyped, Call, CurrentFile
  <2>3. UNCHANGED <<rows, nextId, upload>> /\ call[p].step = "read"
    BY <1>3 DEF ReadNextVersion, AtStep, tables
  <2> QED
    BY <1>2, <2>2, <2>3 DEF UploadSound, AnswerSound, CurrentSound
<1>4. CASE InsertFail(p)
  BY <1>1, <1>4, UploadEndsCall DEF InsertFail, AtStep, tables
<1>5. CASE RefreshFail(p)
  BY <1>1, <1>5, UploadEndsCall DEF RefreshFail, AtStep, tables
<1>6. CASE Insert(p)
  <2>1. call' = [call EXCEPT ![p] = [call[p] EXCEPT !.step = "index", !.id = nextId]]
    BY <1>6 DEF Insert, Continue
  <2>2. call'[p].step = "index" /\ call'[p].id = nextId /\ CurrentFile(p)' = CurrentFile(p)
    BY <1>1, <1>2, <2>1 DEF TypeInv, SessionsTyped, Call, CurrentFile
  <2>3. upload'[p] = [upload[p] EXCEPT
                        !.wrote = @ \cup {[file |-> CurrentFile(p), id |-> nextId]}]
    BY <1>6 DEF Insert
  <2>4. /\ upload'[p].todo = upload[p].todo /\ upload'[p].stored = upload[p].stored
        /\ upload'[p].failed = upload[p].failed
        /\ upload'[p].wrote = upload[p].wrote \cup {[file |-> CurrentFile(p), id |-> nextId]}
    BY <1>2, <2>3 DEF Upload
  <2>5. /\ rows' = rows \cup {NewRow(p)} /\ NewRow(p).id = nextId /\ nextId' = nextId + 1
        /\ call[p].step = "insert"
    BY <1>6 DEF Insert, NewRow, AtStep
  <2>6. nextId \in Nat /\ \A w \in upload[p].wrote : w.id \in Nat /\ w.id < nextId
    BY <1>2 DEF TypeInv, TablesTyped, AnswerSound, Upload
  <2>7. AnswerSound(p)'
    <3>1. \A w \in upload'[p].wrote : w.id < nextId'
      BY <2>4, <2>5, <2>6
    <3>2. ASSUME NEW f \in upload[p].failed, NEW w \in upload'[p].wrote, w.file = f,
                 NEW r \in rows'
          PROVE  r.id # w.id
      <4>1. w \in upload[p].wrote
        BY <1>2, <2>4, <3>2 DEF CurrentSound
      <4> QED
        BY <1>2, <2>5, <2>6, <3>2, <4>1 DEF AnswerSound
    <3>3. \A f \in upload[p].stored : \E w \in upload'[p].wrote : w.file = f
      BY <1>2, <2>4 DEF AnswerSound
    <3>4. \A f \in upload[p].todo :
             f \notin upload[p].failed /\ \A w \in upload'[p].wrote : w.file # f
      BY <1>2, <2>4 DEF AnswerSound, CurrentSound
    <3> QED
      BY <2>4, <3>1, <3>2, <3>3, <3>4 DEF AnswerSound
  <2>8. CurrentSound(p)'
    <3> DEFINE new == [file |-> CurrentFile(p), id |-> nextId]
    <3>1. /\ upload'[p].wrote = upload[p].wrote \cup {new}
          /\ new.file = CurrentFile(p) /\ new.id = nextId
      BY <2>4
    <3> HIDE DEF new
    <3>2. \A w \in upload[p].wrote : w.file # CurrentFile(p)
      BY <1>2, <2>5 DEF CurrentSound
    <3>3. CurrentFile(p) \notin upload[p].todo /\ CurrentFile(p) \notin upload[p].failed
      BY <1>2 DEF CurrentSound
    <3>4. \A w \in upload'[p].wrote : w.file = CurrentFile(p) => w.id = nextId
      BY <3>1, <3>2
    <3>5. \E w \in upload'[p].wrote : w.file = CurrentFile(p)
      BY <3>1
    <3> QED
      BY <2>2, <2>4, <3>3, <3>4, <3>5 DEF CurrentSound
  <2> QED
    BY <2>7, <2>8 DEF UploadSound
<1> QED
  BY <1>3, <1>4, <1>5, <1>6 DEF PublishSteps

LEMMA UploadIndexStep ==
    ASSUME TypeInv, NEW p \in Uploaders, UploadSound(p), call[p] # NoCall, IndexSteps(p)
    PROVE  UploadSound(p)'
<1>1. p \in Callers /\ p \in Publishers
  BY DEF Callers, Publishers
<1>2. call[p] \in Call /\ upload[p] \in Upload /\ AnswerSound(p) /\ CurrentSound(p)
  BY <1>1, CallFields DEF TypeInv, SessionsTyped, Busy, Uploading, UploadSound
<1>3. CASE IndexDelete(p)
  <2>1. PICK S : call' = [call EXCEPT ![p] = [call[p] EXCEPT !.step = "indexing", !.seen = S]]
    BY <1>3 DEF IndexDelete, Continue
  <2>2. /\ call'[p].step = "indexing" /\ call'[p].id = call[p].id
        /\ CurrentFile(p)' = CurrentFile(p)
    BY <1>1, <1>2, <2>1 DEF TypeInv, SessionsTyped, Call, CurrentFile
  <2>3. UNCHANGED <<rows, nextId, upload>> /\ call[p].step = "index"
    BY <1>3 DEF IndexDelete, Indexable, AtStep, tables
  <2> QED
    BY <1>2, <2>2, <2>3 DEF UploadSound, AnswerSound, CurrentSound
<1>4. CASE IndexNothing(p) \/ EmbedFail(p) \/ IndexCommit(p) \/ SaveChunksFail(p)
  <2>1. /\ \E a : Succeed(p, a)
        /\ call[p].step \in {"index", "indexing"} /\ UNCHANGED <<rows, nextId>>
    BY <1>1, <1>4, IndexRunEnds DEF IndexEnds, IndexNothing, EmbedFail, IndexCommit,
       SaveChunksFail, Indexable, AtStep, tables
  <2> QED
    BY <2>1, UploadEndsCall
<1> QED
  BY <1>3, <1>4 DEF IndexSteps

LEMMA UploadStep ==
    ASSUME TypeInv, UploadInv, NEW p \in Callers, StepOf(p) PROVE UploadInv'
<1> SUFFICES ASSUME NEW q \in Uploaders PROVE UploadSound(q)'
  BY DEF UploadInv
<1>1. UploadSound(q) /\ KeysGrow /\ q \in Callers
  BY KeysStep DEF UploadInv, Callers, Publishers
<1>2. CASE q # p
  <2>1. upload'[q] = upload[q] /\ call'[q] = call[q]
    BY <1>1, <1>2, UploadsApart, CallStep DEF CallsApart
  <2> QED
    BY <1>1, <2>1, UploadLeftAlone
<1>3. CASE q = p
  <2>1. p \in Uploaders /\ p \notin Agents /\ p \notin Admins /\ p \notin Scripts
    BY <1>3, SessionsAssumption
  <2>2. CASE Crash(p)
    BY <1>3, <2>1, <2>2 DEF Crash, UploadSound, Uploading
  <2>3. CASE upload_harness(p)
    BY <1>1, <1>3, <2>1, <2>3, UploadOwnStep
  <2>4. CASE PublishSteps(p)
    BY <1>1, <1>3, <2>1, <2>4, UploadPublishStep
  <2>5. CASE call[p] # NoCall /\ IndexSteps(p)
    BY <1>1, <1>3, <2>1, <2>5, UploadIndexStep
  <2> QED
    BY <2>1, <2>2, <2>3, <2>4, <2>5 DEF StepOf
<1> QED
  BY <1>2, <1>3

\* The answer of an upload is true file by file, although the session of the
\* upload may be lost in the middle and admins may delete what it wrote.
THEOREM AnswersAreTrue == Spec => []UploadTellsTheTruth
<1>1. Init => UploadInv
  BY DEF Init, UploadInv, UploadSound, Uploading
<1>2. TypeInv /\ UploadInv /\ [Next]_vars => UploadInv'
  <2> SUFFICES ASSUME TypeInv, UploadInv, [Next]_vars PROVE UploadInv'
    OBVIOUS
  <2>1. CASE UNCHANGED vars
    BY <2>1 DEF vars, tables, UploadInv, UploadSound, Uploading, AnswerSound, CurrentSound,
       CurrentFile
  <2>2. CASE Next
    BY <2>2, NextIsAStep, UploadStep
  <2> QED
    BY <2>1, <2>2
<1>3. UploadInv => UploadTellsTheTruth
  BY DEF UploadInv, UploadSound, AnswerSound, UploadTellsTheTruth
<1> QED
  BY <1>1, <1>2, <1>3, AlwaysTyped, PTL DEF Spec

-----------------------------------------------------------------------------
(* What search finds *)

\* What an index run is about to delete is of its own stream, or of the same
\* section of another pattern.
SeenFits(p) ==
    AtStep(p, "indexing") =>
        \A c \in call[p].seen :
            c.stream = call[p].stream \/ (c.stream.kind = "skill" /\ c.stream.scope = "repo")

SeenInv == \A p \in Callers : SeenFits(p)

SearchStays ==
    \A s \in IndexedStreams :
        \/ s \in IndexedStreams'
        \/ s.kind = "skill" /\ s.scope = "repo"
        \/ \E p \in Scripts : script'[p] # NoCall /\ script[p] = NoCall

LEMMA DeletedFits ==
    ASSUME TypeInv, NEW s \in Streams, NEW c \in DeletedBy(s)
    PROVE  c.stream = s \/ (c.stream.kind = "skill" /\ c.stream.scope = "repo")
<1>1. c.stream \in Streams
  BY SeenTyped DEF TypeInv, TablesTyped, Chunk
<1>2. /\ SameSection(c, s)
      /\ c.stream.owner = s.owner \/ (s.kind = "skill" /\ s.scope = "repo")
  BY StreamFields DEF DeletedBy, SkillChunksOf, WorkflowChunksOf, DocChunksOf, RuleChunksOf,
     Kinds, SameSection
<1>3. CASE c.stream.owner = s.owner
  <2>1. c.stream = Stream(c.stream.kind, c.stream.scope, c.stream.owner, c.stream.section)
        /\ s = Stream(s.kind, s.scope, s.owner, s.section)
    BY <1>1, StreamFields
  <2> QED
    BY <1>2, <1>3, <2>1 DEF SameSection
<1>4. CASE s.kind = "skill" /\ s.scope = "repo"
  BY <1>2, <1>4 DEF SameSection
<1> QED
  BY <1>2, <1>3, <1>4

LEMMA SeenStep ==
    ASSUME TypeInv, SeenInv, NEW p \in Callers, StepOf(p) PROVE SeenInv'
<1> SUFFICES ASSUME NEW q \in Callers PROVE SeenFits(q)'
  BY DEF SeenInv
<1>1. CallsApart(p)
  BY CallStep
<1>2. CASE call'[q] = call[q]
  BY <1>2 DEF SeenInv, SeenFits, AtStep
<1>3. CASE q = p /\ IndexDelete(p)
  <2>1. call[p] \in Call /\ call[p].stream \in Streams
    BY <1>3, CallFields DEF IndexDelete, Indexable, AtStep, TypeInv
  <2>2. call' = [call EXCEPT ![p] = [call[p] EXCEPT !.step = "indexing",
                                                    !.seen = DeletedBy(call[p].stream)]]
    BY <1>3 DEF IndexDelete, Continue
  <2>3. call'[p].stream = call[p].stream /\ call'[p].seen = DeletedBy(call[p].stream)
    BY <2>1, <2>2 DEF TypeInv, SessionsTyped, Call
  <2> QED
    BY <1>3, <2>1, <2>3, DeletedFits DEF SeenFits
<1> QED
  BY <1>1, <1>2, <1>3 DEF CallsApart, SeenFits

\* Chunks disappear only when an index run commits and when a re-index starts.
LEMMA ChunksStep ==
    ASSUME TypeInv, NEW p \in Callers, StepOf(p)
    PROVE  \/ chunks' = chunks
           \/ call[p] # NoCall /\ IndexCommit(p)
           \/ p \in Scripts /\ script[p] = NoCall /\ script'[p] # NoCall
<1>1. CASE (p \in Agents /\ ToolCase(p)) \/ (p \in Admins /\ PageCase(p))
  BY <1>1 DEF ToolCase, PageCase, Publishes, Publish, AddsDiagram, set_workflow_mermaid,
     Counts, CountVersions, DeletesCounted, DeleteCounted, DeletesUnprotected, DeleteRows, tables
<1>2. CASE p \in Publishers /\ PublishSteps(p)
  BY <1>2 DEF PublishSteps, ReadNextVersion, InsertFail, Insert, RefreshFail, tables
<1>3. CASE p \in Uploaders /\ upload_harness(p)
  BY <1>3 DEF upload_harness, StartUpload, UploadFile, UploadFileRefused, EndUpload, tables
<1>4. CASE p \in Scripts /\ Reindex(p)
  <2>1. ASSUME NEW kind \in Kinds, StartReindex(p, kind)
        PROVE  script[p] = NoCall /\ script'[p] # NoCall
    <3>1. [kind |-> kind, scopes |-> Scopes, todo |-> {}, indexed |-> {}] \in Script
      BY DEF Script
    <3> QED
      BY <1>4, <2>1, <3>1, NoCallIsNothing DEF StartReindex, Reindexing, TypeInv, SessionsTyped
  <2>2. CASE ReadLatestVersions(p) \/ ReindexRow(p) \/ ReindexRowGone(p) \/ EndReindex(p)
    BY <2>2 DEF ReadLatestVersions, ReindexRow, ReindexRowGone, EndReindex, tables
  <2> QED
    BY <1>4, <2>1, <2>2 DEF Reindex, reindex_all_skills, reindex_all_workflows,
       reindex_all_docs, Kinds
<1>5. CASE call[p] # NoCall /\ IndexSteps(p)
  BY <1>5 DEF IndexSteps, IndexNothing, EmbedFail, IndexDelete, SaveChunksFail, tables
<1>6. CASE Crash(p)
  BY <1>6 DEF Crash, tables
<1> QED
  BY <1>1, <1>2, <1>3, <1>4, <1>5, <1>6 DEF StepOf

\* The commit of an index run: its stream is found, and the others still are.
LEMMA CommitFinds ==
    ASSUME SeenInv, NEW p \in Callers, IndexCommit(p)
    PROVE  /\ call[p].stream \in IndexedStreams'
           /\ \A s \in IndexedStreams :
                 s \in IndexedStreams' \/ (s.kind = "skill" /\ s.scope = "repo")
<1> DEFINE new == [stream |-> call[p].stream, id |-> call[p].id]
<1>1. chunks' = (chunks \ call[p].seen) \cup {new} /\ new.stream = call[p].stream
  BY DEF IndexCommit
<1> HIDE DEF new
<1>2. call[p].stream \in IndexedStreams'
  BY <1>1 DEF IndexedStreams
<1>3. ASSUME NEW c \in chunks
      PROVE  \/ c.stream \in IndexedStreams'
             \/ c.stream.kind = "skill" /\ c.stream.scope = "repo"
  <2>1. CASE c \in call[p].seen
    BY <1>2, <2>1 DEF SeenInv, SeenFits, IndexCommit
  <2>2. CASE c \notin call[p].seen
    BY <1>1, <2>2 DEF IndexedStreams
  <2> QED
    BY <2>1, <2>2
<1> QED
  BY <1>2, <1>3 DEF IndexedStreams

LEMMA SearchStep ==
    ASSUME TypeInv, SeenInv, NEW p \in Callers, StepOf(p) PROVE SearchStays
<1>1. CASE chunks' = chunks
  BY <1>1 DEF SearchStays, IndexedStreams
<1>2. CASE IndexCommit(p)
  BY <1>2, CommitFinds DEF SearchStays
<1>3. CASE p \in Scripts /\ script[p] = NoCall /\ script'[p] # NoCall
  BY <1>3 DEF SearchStays
<1> QED
  BY <1>1, <1>2, <1>3, ChunksStep

LEMMA SeenAlways == Spec => []SeenInv
<1>1. Init => SeenInv
  BY DEF Init, SeenInv, SeenFits, AtStep
<1>2. TypeInv /\ SeenInv /\ [Next]_vars => SeenInv'
  <2> SUFFICES ASSUME TypeInv, SeenInv, [Next]_vars PROVE SeenInv'
    OBVIOUS
  <2>1. CASE UNCHANGED vars
    BY <2>1 DEF vars, SeenInv, SeenFits, AtStep
  <2>2. CASE Next
    BY <2>2, NextIsAStep, SeenStep
  <2> QED
    BY <2>1, <2>2
<1> QED
  BY <1>1, <1>2, AlwaysTyped, PTL DEF Spec

\* Except for the skills of patterns, and until a re-index starts, no step makes
\* search lose a stream: not a publish elsewhere, nor an index run that fails.
THEOREM SearchKeeps == Spec => SearchKeepsWhatItFound
<1>1. TypeInv /\ SeenInv /\ [Next]_vars => [SearchStays]_vars
  BY NextIsAStep, SearchStep
<1>2. Spec => [][SearchStays]_vars
  BY <1>1, AlwaysTyped, SeenAlways, PTL DEF Spec
<1> QED
  BY <1>2 DEF SearchKeepsWhatItFound, SearchStays

\* What a step does to the count of a re-index.
LEMMA CountStep ==
    ASSUME TypeInv, NEW p \in Callers, StepOf(p), NEW q \in Scripts, script'[q] # NoCall
    PROVE  \/ script'[q].indexed = {}
           \/ script[q] # NoCall /\ script'[q].indexed = script[q].indexed
           \/ /\ script[q] # NoCall /\ (IndexCommit(p) \/ call[p].body \in Bare)
              /\ script'[q].indexed \subseteq script[q].indexed \cup {CurrentFile(p)}
<1>1. CASE script'[q] = script[q]
  BY <1>1
<1>2. CASE (p \in Agents /\ ToolCase(p)) \/ (p \in Admins /\ PageCase(p))
  BY <1>1, <1>2 DEF ToolCase, PageCase, Publishes, Publish, AddsDiagram, set_workflow_mermaid,
     Counts, CountVersions, DeletesCounted, DeleteCounted, DeletesUnprotected, DeleteRows
<1>3. CASE p \in Publishers /\ PublishSteps(p)
  BY <1>1, <1>3 DEF PublishSteps, ReadNextVersion, InsertFail, Insert, RefreshFail, Fail
<1>4. CASE p \in Uploaders /\ upload_harness(p)
  BY <1>1, <1>4 DEF upload_harness, StartUpload, UploadFile, UploadFileRefused, EndUpload
<1>5. CASE p \in Scripts /\ Reindex(p)
  <2>1. CASE q # p
    BY <1>1, <1>5, <2>1 DEF Reindex, reindex_all_skills, reindex_all_workflows,
       reindex_all_docs, StartReindex, ReadLatestVersions, ReindexRow, ReindexRowGone,
       EndReindex, TypeInv, SessionsTyped
  <2>2. CASE q = p
    <3>1. ASSUME NEW kind, StartReindex(p, kind) PROVE script'[q].indexed = {}
      BY <2>2, <3>1 DEF StartReindex, TypeInv, SessionsTyped
    <3>2. CASE ReadLatestVersions(p) \/ ReindexRow(p)
      <4>1. script[q] \in Script
        BY <2>2, <3>2 DEF ReadLatestVersions, ReindexRow, Reindexing, TypeInv, SessionsTyped
      <4>2. ASSUME NEW S, NEW T, script' = [script EXCEPT ![p].scopes = S, ![p].todo = T]
            PROVE  script'[q].indexed = script[q].indexed
        BY <2>2, <4>1, <4>2 DEF TypeInv, SessionsTyped, Script
      <4>3. ASSUME NEW T, script' = [script EXCEPT ![p].todo = T]
            PROVE  script'[q].indexed = script[q].indexed
        BY <2>2, <4>1, <4>3 DEF TypeInv, SessionsTyped, Script
      <4> QED
        BY <3>2, <2>2, <4>2, <4>3 DEF ReadLatestVersions, ReindexRow, Reindexing
    <3>3. CASE ReindexRowGone(p) \/ EndReindex(p)
      BY <2>2, <3>3 DEF ReindexRowGone, EndReindex, TypeInv, SessionsTyped
    <3> QED
      BY <1>5, <3>1, <3>2, <3>3 DEF Reindex, reindex_all_skills, reindex_all_workflows,
         reindex_all_docs
  <2> QED
    BY <2>1, <2>2
<1>6. CASE call[p] # NoCall /\ IndexSteps(p)
  <2>1. CASE IndexDelete(p) \/ p \in Publishers
    BY <1>1, <1>6, <2>1, IndexRunEnds DEF IndexSteps, IndexDelete, IndexEnds, Succeed
  <2>2. CASE p \notin Publishers /\ q # p
    BY <1>1, <1>6, <2>2, IndexRunEnds
       DEF IndexSteps, IndexDelete, IndexEnds, Counted, EndCall, ScriptDies, TypeInv, SessionsTyped
  <2>3. CASE p \notin Publishers /\ q = p
    <3>1. script[q] \in Script /\ script[q] # NoCall /\ p \in Scripts
      BY <1>6, <2>3 DEF TypeInv, SessionsTyped, Busy, Reindexing
    <3>2. CASE EmbedFail(p) \/ SaveChunksFail(p) \/ IndexDelete(p)
      BY <1>1, <2>3, <3>1, <3>2
         DEF EmbedFail, SaveChunksFail, IndexDelete, EndCall, ScriptDies, TypeInv, SessionsTyped
    <3>3. CASE IndexNothing(p) \/ IndexCommit(p)
      <4>1. script' = [script EXCEPT ![p].indexed = @ \cup {CurrentFile(p)}]
        BY <2>3, <3>3 DEF IndexNothing, IndexCommit, Indexed
      <4>2. script'[q].indexed = script[q].indexed \cup {CurrentFile(p)}
        BY <2>3, <3>1, <4>1 DEF TypeInv, SessionsTyped, Script
      <4>3. IndexNothing(p) => call[p].body \in Bare
        BY DEF IndexNothing
      <4> QED
        BY <3>1, <3>3, <4>2, <4>3
    <3> QED
      BY <1>6, <3>2, <3>3 DEF IndexSteps
  <2> QED
    BY <1>6, <2>1, <2>2, <2>3
<1>7. CASE Crash(p)
  BY <1>1, <1>7 DEF Crash
<1> QED
  BY <1>2, <1>3, <1>4, <1>5, <1>6, <1>7 DEF StepOf

\* What the one re-index that runs has counted as done, search finds, unless
\* the text has no chunks; except for the skills of patterns.
THEOREM OneReindexFinds ==
    ASSUME \A p, q \in Scripts : p = q PROVE Spec => []ReindexedStreamsAreFound
<1>1. Init => ReindexedStreamsAreFound
  BY DEF Init, ReindexedStreamsAreFound, Reindexing
<1>2. TypeInv /\ SeenInv /\ ReindexedStreamsAreFound /\ [Next]_vars => ReindexedStreamsAreFound'
  <2> SUFFICES ASSUME TypeInv, SeenInv, ReindexedStreamsAreFound, [Next]_vars
               PROVE  ReindexedStreamsAreFound'
    OBVIOUS
  <2>1. CASE UNCHANGED vars
    BY <2>1 DEF vars, tables, ReindexedStreamsAreFound, Reindexing, IndexedStreams
  <2>2. CASE Next
    <3>1. PICK p \in Callers : StepOf(p)
      BY <2>2, NextIsAStep
    <3> SUFFICES ASSUME NEW q \in Scripts, script'[q] # NoCall, NEW f \in script'[q].indexed
                 PROVE  \/ f.stream \in IndexedStreams' \/ f.body \in Bare
                        \/ f.stream.kind = "skill" /\ f.stream.scope = "repo"
      BY DEF ReindexedStreamsAreFound, Reindexing
    <3>2. CASE script[q] # NoCall /\ f \in script[q].indexed
      <4>1. \/ f.stream \in IndexedStreams \/ f.body \in Bare
            \/ f.stream.kind = "skill" /\ f.stream.scope = "repo"
        BY <3>2 DEF ReindexedStreamsAreFound, Reindexing
      <4> QED
        BY <3>1, <3>2, <4>1, SearchStep DEF SearchStays
    <3>3. CASE IndexCommit(p) /\ f = CurrentFile(p)
      BY <3>1, <3>3, CommitFinds DEF CurrentFile
    <3>4. CASE call[p].body \in Bare /\ f = CurrentFile(p)
      BY <3>4 DEF CurrentFile
    <3> QED
      BY <3>1, <3>2, <3>3, <3>4, CountStep
  <2> QED
    BY <2>1, <2>2
<1> QED
  BY <1>1, <1>2, AlwaysTyped, SeenAlways, PTL DEF Spec

-----------------------------------------------------------------------------
(* What pages offer and what agents are given *)

LEMMA StreamNames ==
    ASSUME NEW s \in Streams
    PROVE  /\ s.section \in Categories
           /\ s.scope = "global" => s.owner = Default
           /\ s.scope = "app" => s.owner \in Apps
           /\ s.scope = "repo" => s.owner \in Patterns
  BY DEF Streams, Stream, OwnersOf, Scopes

LEMMA RowStream ==
    ASSUME TypeInv, NEW r \in rows
    PROVE  /\ r.stream \in Streams /\ r \in RowsOf(r.stream)
           /\ r.stream = Stream(r.stream.kind, r.stream.scope, r.stream.owner, r.stream.section)
<1>1. r.stream \in Streams
  BY DEF TypeInv, TablesTyped, Row
<1> QED
  BY <1>1, StreamFields DEF RowsOf

\* Counting more than the rows that must stay is what the handlers ask.
LEMMA CountsAgree ==
    ASSUME TypeInv, RowsSound, NEW r \in rows
    PROVE  /\ (Cardinality(RowsOf(r.stream)) > (IF Protected(r.stream) THEN 1 ELSE 0))
                 <=> ~DeletionRefused(r.stream)
           /\ RowsOf(r.stream) # {}
<1> DEFINE n == Cardinality(RowsOf(r.stream))
<1>1. n \in Nat /\ n # 0 /\ RowsOf(r.stream) # {}
  <2>1. IsFiniteSet(RowsOf(r.stream))
    BY FS_Subset DEF RowsOf, RowsSound
  <2>2. RowsOf(r.stream) # {}
    BY RowStream
  <2> QED
    BY <2>1, <2>2, FS_CardinalityType, FS_EmptySet
<1>2. DeletionRefused(r.stream) <=> Protected(r.stream) /\ n <= 1
  BY DEF DeletionRefused
<1> HIDE DEF n
<1>3. (n > (IF Protected(r.stream) THEN 1 ELSE 0)) <=> ~(Protected(r.stream) /\ n <= 1)
  BY <1>1
<1> QED
  BY <1>1, <1>2, <1>3 DEF n

\* A page about r: it shows r, and its offer is what the handler accepts.
PageFits(page, r) == r \in page.rows /\ page.offersDeletion = ~DeletionRefused(r.stream)

LEMMA BoardFits ==
    ASSUME TypeInv, RowsSound, NEW r \in rows PROVE PageFits(VersionPage(r.stream), r)
  BY CountsAgree, RowStream DEF VersionPage, PageFits

LEMMA ViewFits ==
    ASSUME TypeInv, RowsSound, NEW r \in rows, NEW offer,
           \/ offer = (Cardinality(RowsOf(r.stream)) > (IF Protected(r.stream) THEN 1 ELSE 0))
           \/ ~Protected(r.stream) /\ offer = (RowsOf(r.stream) # {})
    PROVE  PageFits([rows |-> {q \in RowsOf(r.stream) : q.version = r.version},
                     offersDeletion |-> offer], r)
<1>1. offer = ~DeletionRefused(r.stream)
  BY CountsAgree DEF DeletionRefused
<1>2. r \in {q \in RowsOf(r.stream) : q.version = r.version}
  BY RowStream
<1> QED
  BY <1>1, <1>2 DEF PageFits

LEMMA SkillViewsFit ==
    ASSUME TypeInv, RowsSound, NEW r \in rows, r.stream.kind = "skill",
           NEW page \in SkillViews(r)
    PROVE  PageFits(page, r)
<1> DEFINE s == r.stream
           c == r.stream.section
           seg == repo_skill_pat_href_segment(r.stream.owner)
<1>1. /\ s \in Streams /\ s = Stream("skill", s.scope, s.owner, c) /\ s.scope \in Scopes
  BY RowStream, StreamFields
<1>2. CASE s.scope = "global"
  <2>1. s = GlobalSkill(c) /\ (Protected(s) <=> c = Main)
    BY <1>1, <1>2, StreamNames DEF GlobalSkill, Protected
  <2>2. PageFits(global_skill_category_board(c), r)
    BY <2>1, BoardFits DEF global_skill_category_board
  <2>3. PageFits(global_skill_version_view(c, r.version), r)
    BY <2>1, ViewFits DEF global_skill_version_view
  <2>4. page \in {global_skill_category_board(c), global_skill_version_view(c, r.version)}
    BY <1>2 DEF SkillViews
  <2> QED
    BY <2>2, <2>3, <2>4
<1>3. CASE s.scope = "app"
  <2>1. s = AppSkill(s.owner, c) /\ ~Protected(s)
    BY <1>1, <1>3 DEF AppSkill, Protected
  <2>2. PageFits(app_skill_category_board(s.owner, c), r)
    BY <2>1, BoardFits DEF app_skill_category_board
  <2>3. PageFits(app_skill_version_view(s.owner, c, r.version), r)
    BY <2>1, ViewFits DEF app_skill_version_view
  <2>4. page \in {app_skill_category_board(s.owner, c),
                  app_skill_version_view(s.owner, c, r.version)}
    BY <1>3 DEF SkillViews
  <2> QED
    BY <2>2, <2>3, <2>4
<1>4. CASE s.scope = "repo"
  <2>1. s = RepoSkill(repo_skill_pattern_from_url_segment(seg), c)
    BY <1>1, <1>4, StreamNames, NamesAssumption
       DEF RepoSkill, repo_skill_pattern_from_url_segment, repo_skill_pat_href_segment
  <2>2. PageFits(repo_skill_category_board(seg, c), r)
    BY <2>1, BoardFits DEF repo_skill_category_board
  <2>3. PageFits(repo_skill_version_view(seg, c, r.version), r)
    BY <2>1, ViewFits DEF repo_skill_version_view
  <2>4. page \in {repo_skill_category_board(seg, c),
                  repo_skill_version_view(seg, c, r.version)}
    BY <1>4 DEF SkillViews
  <2> QED
    BY <2>2, <2>3, <2>4
<1> QED
  BY <1>1, <1>2, <1>3, <1>4 DEF Scopes

LEMMA WorkflowViewsFit ==
    ASSUME TypeInv, RowsSound, NEW r \in rows, r.stream.kind = "workflow",
           NEW page \in WorkflowViews(r)
    PROVE  PageFits(page, r)
<1> DEFINE s == r.stream
           c == r.stream.section
           seg == repo_workflow_pat_href_segment(r.stream.owner)
<1>1. /\ s \in Streams /\ s = Stream("workflow", s.scope, s.owner, c) /\ s.scope \in Scopes
  BY RowStream, StreamFields
<1>2. CASE s.scope = "global"
  <2>1. s = GlobalWorkflow(c) /\ (Protected(s) <=> c = Main)
    BY <1>1, <1>2, StreamNames DEF GlobalWorkflow, Protected
  <2>2. PageFits(global_workflow_category_board(c), r)
    BY <2>1, BoardFits DEF global_workflow_category_board
  <2>3. PageFits(global_workflow_version_view(c, r.version), r)
    BY <2>1, ViewFits DEF global_workflow_version_view
  <2>4. page \in {global_workflow_category_board(c), global_workflow_version_view(c, r.version)}
    BY <1>2 DEF WorkflowViews
  <2> QED
    BY <2>2, <2>3, <2>4
<1>3. CASE s.scope = "app"
  <2>1. s = AppWorkflow(s.owner, c) /\ ~Protected(s)
    BY <1>1, <1>3 DEF AppWorkflow, Protected
  <2>2. PageFits(app_workflow_category_board(s.owner, c), r)
    BY <2>1, BoardFits DEF app_workflow_category_board
  <2>3. PageFits(app_workflow_version_view(s.owner, c, r.version), r)
    BY <2>1, ViewFits DEF app_workflow_version_view
  <2>4. page \in {app_workflow_category_board(s.owner, c),
                  app_workflow_version_view(s.owner, c, r.version)}
    BY <1>3 DEF WorkflowViews
  <2> QED
    BY <2>2, <2>3, <2>4
<1>4. CASE s.scope = "repo"
  <2>1. s = RepoWorkflow(repo_workflow_pattern_from_url_segment(seg), c)
    BY <1>1, <1>4, StreamNames, NamesAssumption
       DEF RepoWorkflow, repo_workflow_pattern_from_url_segment, repo_workflow_pat_href_segment
  <2>2. PageFits(repo_workflow_category_board(seg, c), r)
    BY <2>1, BoardFits DEF repo_workflow_category_board
  <2>3. PageFits(repo_workflow_version_view(seg, c, r.version), r)
    BY <2>1, ViewFits DEF repo_workflow_version_view
  <2>4. page \in {repo_workflow_category_board(seg, c),
                  repo_workflow_version_view(seg, c, r.version)}
    BY <1>4 DEF WorkflowViews
  <2> QED
    BY <2>2, <2>3, <2>4
<1> QED
  BY <1>1, <1>2, <1>3, <1>4 DEF Scopes

LEMMA DocViewsFit ==
    ASSUME TypeInv, RowsSound, NEW r \in rows, r.stream.kind = "doc",
           NEW page \in DocViews(r)
    PROVE  PageFits(page, r)
<1> DEFINE s == r.stream
           c == r.stream.section
           seg == repo_doc_pat_href_segment(r.stream.owner)
<1>1. /\ s \in Streams /\ s = Stream("doc", s.scope, s.owner, c) /\ s.scope \in Scopes
  BY RowStream, StreamFields
<1>2. CASE s.scope = "global"
  <2>1. s = GlobalDoc(c) /\ (Protected(s) <=> c = Main)
    BY <1>1, <1>2, StreamNames DEF GlobalDoc, Protected
  <2>2. PageFits(global_doc_category_board(c), r)
    BY <2>1, BoardFits DEF global_doc_category_board
  <2>3. PageFits(global_doc_version_view(c, r.version), r)
    BY <2>1, ViewFits DEF global_doc_version_view
  <2>4. page \in {global_doc_category_board(c), global_doc_version_view(c, r.version)}
    BY <1>2 DEF DocViews
  <2> QED
    BY <2>2, <2>3, <2>4
<1>3. CASE s.scope = "app"
  <2>1. s = AppDoc(s.owner, c) /\ ~Protected(s)
    BY <1>1, <1>3 DEF AppDoc, Protected
  <2>2. PageFits(app_doc_category_board(s.owner, c), r)
    BY <2>1, BoardFits DEF app_doc_category_board
  <2>3. PageFits(app_doc_version_view(s.owner, c, r.version), r)
    BY <2>1, ViewFits DEF app_doc_version_view
  <2>4. page \in {app_doc_category_board(s.owner, c),
                  app_doc_version_view(s.owner, c, r.version)}
    BY <1>3 DEF DocViews
  <2> QED
    BY <2>2, <2>3, <2>4
<1>4. CASE s.scope = "repo"
  <2>1. s = RepoDoc(repo_doc_pattern_from_url_segment(seg), c)
    BY <1>1, <1>4, StreamNames, NamesAssumption
       DEF RepoDoc, repo_doc_pattern_from_url_segment, repo_doc_pat_href_segment
  <2>2. PageFits(repo_doc_category_board(seg, c), r)
    BY <2>1, BoardFits DEF repo_doc_category_board
  <2>3. PageFits(repo_doc_version_view(seg, c, r.version), r)
    BY <2>1, ViewFits DEF repo_doc_version_view
  <2>4. page \in {repo_doc_category_board(seg, c),
                  repo_doc_version_view(seg, c, r.version)}
    BY <1>4 DEF DocViews
  <2> QED
    BY <2>2, <2>3, <2>4
<1> QED
  BY <1>1, <1>2, <1>3, <1>4 DEF Scopes

LEMMA RowsAlwaysSound == Spec => []RowsSound
<1>1. Init => RowsSound
  BY FS_EmptySet DEF Init, RowsSound, UniqueVersions
<1>2. TypeInv /\ RowsSound /\ [Next]_vars => RowsSound'
  <2> SUFFICES ASSUME TypeInv, RowsSound, [Next]_vars PROVE RowsSound'
    OBVIOUS
  <2>1. CASE UNCHANGED vars
    BY <2>1 DEF vars, tables, RowsSound, UniqueVersions
  <2>2. CASE Next
    BY <2>2, NextIsAStep, RowsStep
  <2> QED
    BY <2>1, <2>2
<1> QED
  BY <1>1, <1>2, AlwaysTyped, PTL DEF Spec

\* Every page that shows a version offers to delete it exactly when the handler
\* behind the button would, in the three scopes of the three kinds.
THEOREM OffersAreAccepted == Spec => []DeleteOfferedWhenAccepted
<1>1. TypeInv /\ RowsSound => DeleteOfferedWhenAccepted
  <2> SUFFICES ASSUME TypeInv, RowsSound, NEW r \in rows, r.stream.kind # "rule",
                      NEW page \in Views(r)
               PROVE  PageFits(page, r)
    BY DEF DeleteOfferedWhenAccepted, HarnessRows, PageFits
  <2>1. r.stream.kind \in Kinds
    BY RowStream, StreamFields
  <2>2. CASE r.stream.kind = "skill"
    BY <2>2, SkillViewsFit DEF Views
  <2>3. CASE r.stream.kind = "workflow"
    BY <2>3, WorkflowViewsFit DEF Views
  <2>4. CASE r.stream.kind = "doc"
    BY <2>4, DocViewsFit DEF Views
  <2> QED
    BY <2>1, <2>2, <2>3, <2>4 DEF Kinds
<1> QED
  BY <1>1, AlwaysTyped, RowsAlwaysSound, PTL

-----------------------------------------------------------------------------
(* The highest version of a stream *)

FiniteSetsOf(F, S) == F \in SUBSET SUBSET S /\ F # {} /\ \A T \in F : IsFiniteSet(T)

Smallest(T, F) == T \in F /\ \A U \in F : U \subseteq T => U = T

\* A family of finite sets has a member that holds no other one.
LEMMA SmallestSet ==
    ASSUME NEW S, NEW F, FiniteSetsOf(F, S)
    PROVE  \E T \in F : Smallest(T, F)
<1> DEFINE R == StrictSubsetOrdering(S)
<1>1. F \subseteq FiniteSubsetsOf(S) /\ F # {}
  BY DEF FiniteSubsetsOf, FiniteSetsOf
<1>2. IsWellFoundedOn(R, FiniteSubsetsOf(S))
  BY FS_StrictSubsetOrderingWellFounded
<1> HIDE DEF R
<1>3. PICK T \in F : \A U \in F : <<U, T>> \notin R
  BY <1>1, <1>2, WFMin
<1>4. ASSUME NEW U \in F, U \subseteq T PROVE U = T
  <2>1. <<U, T>> \in (SUBSET S) \X (SUBSET S) /\ <<U, T>>[1] = U /\ <<U, T>>[2] = T
    BY DEF FiniteSetsOf
  <2>2. <<U, T>> \notin R
    BY <1>3
  <2> QED
    BY <1>4, <2>1, <2>2 DEF R, StrictSubsetOrdering
<1> QED
  BY <1>3, <1>4 DEF Smallest

\* A finite set of numbers that is not empty has a greatest one: a smallest
\* one that had none would have it without one of its elements.
LEMMA FiniteGreatest ==
    ASSUME NEW S \in SUBSET Nat, IsFiniteSet(S), S # {}
    PROVE  \E n \in S : \A m \in S : m <= n
<1> DEFINE Greatest(T) == \E n \in T : \A m \in T : m <= n
           Bad == {T \in SUBSET S : T # {} /\ ~Greatest(T)}
<1>1. SUFFICES ASSUME Bad # {} PROVE FALSE
  OBVIOUS
<1>2. FiniteSetsOf(Bad, S)
  BY <1>1, FS_Subset DEF FiniteSetsOf
<1>3. PICK T \in Bad : Smallest(T, Bad)
  <2> HIDE DEF Bad
  <2> QED
    BY <1>2, SmallestSet
<1>4. PICK x : x \in T
  BY <1>3
<1>5. T \ {x} \notin Bad
  BY <1>3, <1>4 DEF Smallest
<1>6. CASE T \ {x} = {}
  <2>1. \A m \in T : m <= x
    BY <1>3, <1>4, <1>6
  <2> QED
    BY <1>3, <1>4, <2>1
<1>7. CASE T \ {x} # {}
  <2>1. PICK n \in T \ {x} : \A m \in T \ {x} : m <= n
    BY <1>3, <1>5, <1>7
  <2>2. T \subseteq Nat
    BY <1>3
  <2>3. \A m \in T : m = x \/ m <= n
    BY <2>1
  <2>4. CASE n <= x
    <3>1. \A m \in T : m <= x
      BY <1>4, <2>1, <2>2, <2>3, <2>4
    <3> QED
      BY <1>3, <1>4, <3>1
  <2>5. CASE x <= n
    <3>1. \A m \in T : m <= n
      BY <2>3, <2>5
    <3> QED
      BY <1>3, <2>1, <3>1
  <2> QED
    BY <1>4, <2>1, <2>2, <2>4, <2>5
<1> QED
  BY <1>6, <1>7

LEMMA HighestVersion ==
    ASSUME TypeInv, RowsSound, NEW r \in rows
    PROVE  \E q \in Latest(r.stream) : r.version <= q.version
<1> DEFINE V == Versions(r.stream)
<1>1. r \in RowsOf(r.stream) /\ IsFiniteSet(RowsOf(r.stream))
  BY RowStream, FS_Subset DEF RowsOf, RowsSound
<1>2. V \in SUBSET Nat /\ r.version \in V
  BY <1>1 DEF Versions, RowsOf, TypeInv, TablesTyped, Row
<1> DEFINE f == [x \in RowsOf(r.stream) |-> x.version]
<1>3. IsFiniteSet(V)
  <2>1. f \in Surjection(RowsOf(r.stream), V)
    BY DEF Versions, Surjection
  <2> QED
    BY <1>1, <2>1, FS_Surjection
<1> HIDE DEF f
<1>4. PICK n \in V : \A m \in V : m <= n
  BY <1>2, <1>3, FiniteGreatest
<1>5. PICK q \in RowsOf(r.stream) : q.version = n
  BY <1>4 DEF Versions
<1>6. \A x \in RowsOf(r.stream) : x.version <= q.version
  BY <1>4, <1>5 DEF Versions
<1> QED
  BY <1>2, <1>4, <1>5, <1>6 DEF Latest

\* The number that the next version gets is above all there are.
LEMMA NumberAbove ==
    ASSUME TypeInv, RowsSound, NEW r \in rows
    PROVE  \E n \in NextVersion(r.stream) : r.version < n
<1> DEFINE s == r.stream
<1>1. PICK q \in Latest(s) : r.version <= q.version
  BY HighestVersion
<1>2. q \in RowsOf(s) /\ \A x \in RowsOf(s) : x.version <= q.version
  BY <1>1 DEF Latest
<1>3. \A x \in RowsOf(s) : x.version \in Nat
  BY DEF RowsOf, TypeInv, TablesTyped, Row
<1>4. r \in RowsOf(s)
  BY RowStream
<1> HIDE DEF s
<1>5. q.version + 1 \in {v + 1 : v \in {0} \cup Versions(s)}
  BY <1>2 DEF Versions
<1>6. \A v \in Versions(s) : v < q.version + 1
  BY <1>2, <1>3 DEF Versions
<1>7. q.version + 1 \in NextVersion(s) /\ r.version < q.version + 1
  BY <1>2, <1>3, <1>4, <1>5, <1>6 DEF NextVersion, Versions
<1> QED
  BY <1>7 DEF s

-----------------------------------------------------------------------------
(* Forms, lists and links *)

\* What every list of an owner knows of a row.
LEMMA RowIsListed ==
    ASSUME TypeInv, RowsSound, NEW r \in rows, NEW s, s = r.stream
    PROVE  /\ s.section \in Sections(s.kind, s.scope, s.owner)
           /\ Latest(s) \subseteq Board(s.kind, s.scope, s.owner)
           /\ \E q \in Board(s.kind, s.scope, s.owner) : q.stream = s
           /\ s.owner \in OwnersWithRows(s.kind, s.scope)
<1>1. /\ s \in Streams /\ s = Stream(s.kind, s.scope, s.owner, s.section)
      /\ s.section \in Categories /\ s.scope \in Scopes
  BY RowStream, StreamFields, StreamNames
<1>2. r \in RowsOwnedBy(s.kind, s.scope, s.owner)
  BY DEF RowsOwnedBy
<1>3. s.section \in Sections(s.kind, s.scope, s.owner)
  BY <1>2 DEF Sections
<1>4. Latest(s) \subseteq Board(s.kind, s.scope, s.owner)
  BY <1>1 DEF Board
<1>5. \E q \in Board(s.kind, s.scope, s.owner) : q.stream = s
  BY <1>4, HighestVersion DEF Latest, RowsOf
<1>6. s.owner \in OwnersWithRows(s.kind, s.scope)
  BY <1>1, <1>2, StreamNames DEF OwnersWithRows, OwnersOf, Scopes
<1> QED
  BY <1>3, <1>4, <1>5, <1>6

LEMMA SkillFormsFit ==
    ASSUME TypeInv, RowsSound, NEW r \in rows, r.stream.kind = "skill"
    PROVE  SkillFormsAgree(r)
<1> DEFINE s == r.stream
           c == r.stream.section
           o == r.stream.owner
           seg == repo_skill_pat_href_segment(r.stream.owner)
<1>1. /\ s = Stream("skill", s.scope, o, c) /\ s.scope \in Scopes /\ s \in Streams
      /\ \E n \in NextVersion(s) : r.version < n
      /\ c \in Sections("skill", s.scope, o)
      /\ Latest(s) \subseteq Board("skill", s.scope, o)
      /\ o \in OwnersWithRows("skill", s.scope)
  BY RowStream, StreamFields, NumberAbove, RowIsListed
<1>2. CASE s.scope = "global"
  <2>1. s = GlobalSkill(c) /\ o = Default
    BY <1>1, <1>2, StreamNames DEF GlobalSkill
  <2>2. \E n \in global_skill_category_publish_form(c).next : r.version < n
    BY <1>1, <2>1 DEF global_skill_category_publish_form, next_global_skill_version
  <2>3. global_skill_category_publish_form(c).prefill \subseteq get_skills_markdown(o, {o})
    BY <1>1, <1>2, <2>1 DEF global_skill_category_publish_form, global_skill_latest,
       get_skills_markdown, global_skill_all_sections_latest
  <2>4. c \in global_skill_category_new_form \cap list_skill_sections("global", o, {o})
    BY <1>1, <1>2, <2>1 DEF global_skill_category_new_form, list_skill_sections,
       list_sections_for_global_skill
  <2> QED
    BY <1>2, <2>2, <2>3, <2>4 DEF SkillFormsAgree
<1>3. CASE s.scope = "app"
  <2>1. s = AppSkill(o, c)
    BY <1>1, <1>3 DEF AppSkill
  <2>2. \E n \in app_skill_category_publish_form(o, c).next : r.version < n
    BY <1>1, <2>1 DEF app_skill_category_publish_form, next_app_skill_version
  <2>3. app_skill_category_publish_form(o, c).prefill \subseteq get_skills_markdown(o, {o})
    BY <1>1, <1>3, <2>1 DEF app_skill_category_publish_form, app_skill_latest,
       get_skills_markdown, app_skill_all_sections_latest
  <2>4. c \in app_skill_category_new_form(o) \cap list_skill_sections("app", o, {o})
    BY <1>1, <1>3 DEF app_skill_category_new_form, list_skill_sections,
       list_sections_for_app_skill
  <2> QED
    BY <1>3, <2>2, <2>3, <2>4 DEF SkillFormsAgree
<1>4. CASE s.scope = "repo"
  <2>1. s = RepoSkill(o, c) /\ repo_skill_pattern_from_url_segment(seg) = o
    BY <1>1, <1>4, StreamNames, NamesAssumption
       DEF RepoSkill, repo_skill_pattern_from_url_segment, repo_skill_pat_href_segment
  <2>2. \E n \in repo_skill_category_publish_form(seg, c).next : r.version < n
    BY <1>1, <2>1 DEF repo_skill_category_publish_form, next_repo_skill_version
  <2>3. repo_skill_category_publish_form(seg, c).prefill \subseteq get_skills_markdown(o, {o})
    BY <1>1, <1>4, <2>1 DEF repo_skill_category_publish_form, repo_skill_latest,
       get_skills_markdown, repo_skill_all_sections_latest,
       list_distinct_repo_patterns_with_skills
  <2>4. c \in list_skill_sections("repo", o, {o})
    BY <1>1, <1>4 DEF list_skill_sections, list_sections_for_repo_skill,
       list_distinct_repo_patterns_with_skills
  <2>5. c \in repo_skill_category_new_form(seg)
    BY <1>1, <1>4, <2>1 DEF repo_skill_category_new_form, list_sections_for_repo_skill
  <2> QED
    BY <1>4, <2>2, <2>3, <2>4, <2>5 DEF SkillFormsAgree
<1> QED
  BY <1>1, <1>2, <1>3, <1>4 DEF Scopes

LEMMA SkillIsReached ==
    ASSUME TypeInv, RowsSound, NEW r \in rows, Addressable(r), r.stream.kind = "skill"
    PROVE  SkillReached(r)
<1> DEFINE s == r.stream
           c == r.stream.section
           o == r.stream.owner
           seg == repo_skill_pat_href_segment(r.stream.owner)
<1>1. /\ s = Stream("skill", s.scope, o, c) /\ s.scope \in Scopes /\ s \in Streams
      /\ o \in OwnersWithRows("skill", s.scope)
      /\ r \in VersionPage(s).rows
  BY RowStream, StreamFields, RowIsListed DEF VersionPage
<1>2. PICK q \in Board("skill", s.scope, o) : q.stream = s
  BY <1>1, RowIsListed
<1>3. q \in SectionLinks(Board("skill", s.scope, o))
  BY <1>1, <1>2, StreamNames DEF SectionLinks, BoardSections, PageSections, Addressable
<1>4. CASE s.scope = "global"
  <2>1. s = GlobalSkill(q.stream.section) /\ q \in SectionLinks(global_skills_board)
    BY <1>1, <1>2, <1>4, <1>3, StreamNames DEF GlobalSkill, global_skills_board,
       global_skill_all_sections_latest
  <2> QED
    BY <1>1, <1>4, <2>1 DEF SkillReached, global_skill_category_board
<1>5. CASE s.scope = "app"
  <2>1. s = AppSkill(o, q.stream.section) /\ q \in SectionLinks(app_skill_board(o)) /\ o \in PageApps
    BY <1>1, <1>2, <1>5, <1>3, StreamNames
       DEF PageApps, Addressable, AppSkill, app_skill_board, app_skill_all_sections_latest
  <2> DEFINE card == [name |-> o, latest |-> {x.version : x \in RowsOwnedBy("skill", "app", o)}]
  <2>2. card \in app_skills_cards /\ card.name = o
    BY <1>1, <1>5 DEF app_skills_cards, list_distinct_apps_with_skills
  <2> HIDE DEF card
  <2> QED
    BY <1>1, <1>5, <2>1, <2>2 DEF SkillReached, app_skill_category_board
<1>6. CASE s.scope = "repo"
  <2>1. repo_skill_pattern_from_url_segment(seg) = o /\ seg \in Segments
    BY <1>1, <1>6, StreamNames, NamesAssumption
       DEF repo_skill_pattern_from_url_segment, repo_skill_pat_href_segment, Segments, Addressable
  <2>2. s = RepoSkill(o, q.stream.section) /\ q \in SectionLinks(repo_skill_board(seg))
    BY <1>1, <1>2, <1>6, <1>3, <2>1 DEF RepoSkill, repo_skill_board, repo_skill_all_sections_latest
  <2>3. r \in repo_skill_category_board(seg, q.stream.section).rows
    BY <1>1, <2>1, <2>2 DEF repo_skill_category_board
  <2> DEFINE card == [pattern |-> o, segment |-> seg,
                      latest |-> {x.version : x \in RowsOwnedBy("skill", "repo", o)}]
  <2>4. card \in repo_skills_cards /\ card.segment = seg
    BY <1>1, <1>6 DEF repo_skills_cards, list_distinct_repo_patterns_with_skills
  <2> HIDE DEF card
  <2> QED
    BY <1>6, <2>1, <2>2, <2>3, <2>4 DEF SkillReached
<1> QED
  BY <1>1, <1>4, <1>5, <1>6 DEF Scopes

LEMMA WorkflowFormsFit ==
    ASSUME TypeInv, RowsSound, NEW r \in rows, r.stream.kind = "workflow"
    PROVE  WorkflowFormsAgree(r)
<1> DEFINE s == r.stream
           c == r.stream.section
           o == r.stream.owner
           seg == repo_workflow_pat_href_segment(r.stream.owner)
<1>1. /\ s = Stream("workflow", s.scope, o, c) /\ s.scope \in Scopes /\ s \in Streams
      /\ \E n \in NextVersion(s) : r.version < n
      /\ c \in Sections("workflow", s.scope, o)
      /\ Latest(s) \subseteq Board("workflow", s.scope, o)
      /\ o \in OwnersWithRows("workflow", s.scope)
  BY RowStream, StreamFields, NumberAbove, RowIsListed
<1>2. CASE s.scope = "global"
  <2>1. s = GlobalWorkflow(c) /\ o = Default
    BY <1>1, <1>2, StreamNames DEF GlobalWorkflow
  <2>2. \E n \in global_workflow_category_publish_form(c).next : r.version < n
    BY <1>1, <2>1 DEF global_workflow_category_publish_form, next_global_workflow_version
  <2>3. global_workflow_category_publish_form(c).prefill \subseteq get_workflows_markdown(o, {o})
    BY <1>1, <1>2, <2>1 DEF global_workflow_category_publish_form, global_workflow_latest,
       get_workflows_markdown, global_workflow_all_sections_latest
  <2>4. c \in global_workflow_category_new_form \cap list_workflow_sections("global", o, {o})
    BY <1>1, <1>2, <2>1 DEF global_workflow_category_new_form, list_workflow_sections,
       list_sections_for_global_workflow
  <2> QED
    BY <1>2, <2>2, <2>3, <2>4 DEF WorkflowFormsAgree
<1>3. CASE s.scope = "app"
  <2>1. s = AppWorkflow(o, c)
    BY <1>1, <1>3 DEF AppWorkflow
  <2>2. \E n \in app_workflow_category_publish_form(o, c).next : r.version < n
    BY <1>1, <2>1 DEF app_workflow_category_publish_form, next_app_workflow_version
  <2>3. app_workflow_category_publish_form(o, c).prefill \subseteq get_workflows_markdown(o, {o})
    BY <1>1, <1>3, <2>1 DEF app_workflow_category_publish_form, app_workflow_latest,
       get_workflows_markdown, app_workflow_all_sections_latest
  <2>4. c \in app_workflow_category_new_form(o) \cap list_workflow_sections("app", o, {o})
    BY <1>1, <1>3 DEF app_workflow_category_new_form, list_workflow_sections,
       list_sections_for_app_workflow
  <2> QED
    BY <1>3, <2>2, <2>3, <2>4 DEF WorkflowFormsAgree
<1>4. CASE s.scope = "repo"
  <2>1. s = RepoWorkflow(o, c) /\ repo_workflow_pattern_from_url_segment(seg) = o
    BY <1>1, <1>4, StreamNames, NamesAssumption
       DEF RepoWorkflow, repo_workflow_pattern_from_url_segment, repo_workflow_pat_href_segment
  <2>2. \E n \in repo_workflow_category_publish_form(seg, c).next : r.version < n
    BY <1>1, <2>1 DEF repo_workflow_category_publish_form, next_repo_workflow_version
  <2>3. repo_workflow_category_publish_form(seg, c).prefill \subseteq get_workflows_markdown(o, {o})
    BY <1>1, <1>4, <2>1 DEF repo_workflow_category_publish_form, repo_workflow_latest,
       get_workflows_markdown, repo_workflow_all_sections_latest,
       list_distinct_repo_patterns_with_workflows
  <2>4. c \in list_workflow_sections("repo", o, {o})
    BY <1>1, <1>4 DEF list_workflow_sections, list_sections_for_repo_workflow,
       list_distinct_repo_patterns_with_workflows
  <2>5. c \in repo_workflow_category_new_form(seg)
    BY <1>1, <1>4, <2>1 DEF repo_workflow_category_new_form, list_sections_for_repo_workflow
  <2> QED
    BY <1>4, <2>2, <2>3, <2>4, <2>5 DEF WorkflowFormsAgree
<1> QED
  BY <1>1, <1>2, <1>3, <1>4 DEF Scopes

LEMMA WorkflowIsReached ==
    ASSUME TypeInv, RowsSound, NEW r \in rows, Addressable(r), r.stream.kind = "workflow"
    PROVE  WorkflowReached(r)
<1> DEFINE s == r.stream
           c == r.stream.section
           o == r.stream.owner
           seg == repo_workflow_pat_href_segment(r.stream.owner)
<1>1. /\ s = Stream("workflow", s.scope, o, c) /\ s.scope \in Scopes /\ s \in Streams
      /\ o \in OwnersWithRows("workflow", s.scope)
      /\ r \in VersionPage(s).rows
  BY RowStream, StreamFields, RowIsListed DEF VersionPage
<1>2. PICK q \in Board("workflow", s.scope, o) : q.stream = s
  BY <1>1, RowIsListed
<1>3. q \in SectionLinks(Board("workflow", s.scope, o))
  BY <1>1, <1>2, StreamNames DEF SectionLinks, BoardSections, PageSections, Addressable
<1>4. CASE s.scope = "global"
  <2>1. s = GlobalWorkflow(q.stream.section) /\ q \in SectionLinks(global_workflows_board)
    BY <1>1, <1>2, <1>4, <1>3, StreamNames DEF GlobalWorkflow, global_workflows_board,
       global_workflow_all_sections_latest
  <2> QED
    BY <1>1, <1>4, <2>1 DEF WorkflowReached, global_workflow_category_board
<1>5. CASE s.scope = "app"
  <2>1. s = AppWorkflow(o, q.stream.section) /\ q \in SectionLinks(app_workflow_board(o)) /\ o \in PageApps
    BY <1>1, <1>2, <1>5, <1>3, StreamNames
       DEF PageApps, Addressable, AppWorkflow, app_workflow_board, app_workflow_all_sections_latest
  <2> DEFINE card == [name |-> o, latest |-> {x.version : x \in RowsOwnedBy("workflow", "app", o)}]
  <2>2. card \in app_workflows_cards /\ card.name = o
    BY <1>1, <1>5 DEF app_workflows_cards, list_distinct_apps_with_workflows
  <2> HIDE DEF card
  <2> QED
    BY <1>1, <1>5, <2>1, <2>2 DEF WorkflowReached, app_workflow_category_board
<1>6. CASE s.scope = "repo"
  <2>1. repo_workflow_pattern_from_url_segment(seg) = o /\ seg \in Segments
    BY <1>1, <1>6, StreamNames, NamesAssumption
       DEF repo_workflow_pattern_from_url_segment, repo_workflow_pat_href_segment, Segments, Addressable
  <2>2. s = RepoWorkflow(o, q.stream.section) /\ q \in SectionLinks(repo_workflow_board(seg))
    BY <1>1, <1>2, <1>6, <1>3, <2>1 DEF RepoWorkflow, repo_workflow_board, repo_workflow_all_sections_latest
  <2>3. r \in repo_workflow_category_board(seg, q.stream.section).rows
    BY <1>1, <2>1, <2>2 DEF repo_workflow_category_board
  <2> DEFINE card == [pattern |-> o, segment |-> seg,
                      latest |-> {x.version : x \in RowsOwnedBy("workflow", "repo", o)}]
  <2>4. card \in repo_workflows_cards /\ card.segment = seg
    BY <1>1, <1>6 DEF repo_workflows_cards, list_distinct_repo_patterns_with_workflows
  <2> HIDE DEF card
  <2> QED
    BY <1>6, <2>1, <2>2, <2>3, <2>4 DEF WorkflowReached
<1> QED
  BY <1>1, <1>4, <1>5, <1>6 DEF Scopes

LEMMA DocFormsFit ==
    ASSUME TypeInv, RowsSound, NEW r \in rows, r.stream.kind = "doc"
    PROVE  DocFormsAgree(r)
<1> DEFINE s == r.stream
           c == r.stream.section
           o == r.stream.owner
           seg == repo_doc_pat_href_segment(r.stream.owner)
<1>1. /\ s = Stream("doc", s.scope, o, c) /\ s.scope \in Scopes /\ s \in Streams
      /\ \E n \in NextVersion(s) : r.version < n
      /\ c \in Sections("doc", s.scope, o)
      /\ Latest(s) \subseteq Board("doc", s.scope, o)
      /\ o \in OwnersWithRows("doc", s.scope)
  BY RowStream, StreamFields, NumberAbove, RowIsListed
<1>2. CASE s.scope = "global"
  <2>1. s = GlobalDoc(c) /\ o = Default
    BY <1>1, <1>2, StreamNames DEF GlobalDoc
  <2>2. \E n \in global_doc_category_publish_form(c).next : r.version < n
    BY <1>1, <2>1 DEF global_doc_category_publish_form, next_global_doc_version
  <2>3. global_doc_category_publish_form(c).prefill \subseteq get_docs_markdown(o, {o})
    BY <1>1, <1>2, <2>1 DEF global_doc_category_publish_form, global_doc_latest,
       get_docs_markdown, global_doc_all_sections_latest
  <2>4. c \in global_doc_category_new_form \cap list_doc_sections("global", o, {o})
    BY <1>1, <1>2, <2>1 DEF global_doc_category_new_form, list_doc_sections,
       list_sections_for_global_doc
  <2> QED
    BY <1>2, <2>2, <2>3, <2>4 DEF DocFormsAgree
<1>3. CASE s.scope = "app"
  <2>1. s = AppDoc(o, c)
    BY <1>1, <1>3 DEF AppDoc
  <2>2. \E n \in app_doc_category_publish_form(o, c).next : r.version < n
    BY <1>1, <2>1 DEF app_doc_category_publish_form, next_app_doc_version
  <2>3. app_doc_category_publish_form(o, c).prefill \subseteq get_docs_markdown(o, {o})
    BY <1>1, <1>3, <2>1 DEF app_doc_category_publish_form, app_doc_latest,
       get_docs_markdown, app_doc_all_sections_latest
  <2>4. c \in app_doc_category_new_form(o) \cap list_doc_sections("app", o, {o})
    BY <1>1, <1>3 DEF app_doc_category_new_form, list_doc_sections,
       list_sections_for_app_doc
  <2> QED
    BY <1>3, <2>2, <2>3, <2>4 DEF DocFormsAgree
<1>4. CASE s.scope = "repo"
  <2>1. s = RepoDoc(o, c) /\ repo_doc_pattern_from_url_segment(seg) = o
    BY <1>1, <1>4, StreamNames, NamesAssumption
       DEF RepoDoc, repo_doc_pattern_from_url_segment, repo_doc_pat_href_segment
  <2>2. \E n \in repo_doc_category_publish_form(seg, c).next : r.version < n
    BY <1>1, <2>1 DEF repo_doc_category_publish_form, next_repo_doc_version
  <2>3. repo_doc_category_publish_form(seg, c).prefill \subseteq get_docs_markdown(o, {o})
    BY <1>1, <1>4, <2>1 DEF repo_doc_category_publish_form, repo_doc_latest,
       get_docs_markdown, repo_doc_all_sections_latest,
       list_distinct_repo_patterns_with_docs
  <2>4. c \in list_doc_sections("repo", o, {o})
    BY <1>1, <1>4 DEF list_doc_sections, list_sections_for_repo_doc,
       list_distinct_repo_patterns_with_docs
  <2>5. c \in repo_doc_category_new_form(seg)
    BY <1>1, <1>4, <2>1 DEF repo_doc_category_new_form, list_sections_for_repo_doc
  <2> QED
    BY <1>4, <2>2, <2>3, <2>4, <2>5 DEF DocFormsAgree
<1> QED
  BY <1>1, <1>2, <1>3, <1>4 DEF Scopes

LEMMA DocIsReached ==
    ASSUME TypeInv, RowsSound, NEW r \in rows, Addressable(r), r.stream.kind = "doc"
    PROVE  DocReached(r)
<1> DEFINE s == r.stream
           c == r.stream.section
           o == r.stream.owner
           seg == repo_doc_pat_href_segment(r.stream.owner)
<1>1. /\ s = Stream("doc", s.scope, o, c) /\ s.scope \in Scopes /\ s \in Streams
      /\ o \in OwnersWithRows("doc", s.scope)
      /\ r \in VersionPage(s).rows
  BY RowStream, StreamFields, RowIsListed DEF VersionPage
<1>2. PICK q \in Board("doc", s.scope, o) : q.stream = s
  BY <1>1, RowIsListed
<1>3. q \in SectionLinks(Board("doc", s.scope, o))
  BY <1>1, <1>2, StreamNames DEF SectionLinks, BoardSections, PageSections, Addressable
<1>4. CASE s.scope = "global"
  <2>1. s = GlobalDoc(q.stream.section) /\ q \in SectionLinks(global_docs_board)
    BY <1>1, <1>2, <1>4, <1>3, StreamNames DEF GlobalDoc, global_docs_board,
       global_doc_all_sections_latest
  <2> QED
    BY <1>1, <1>4, <2>1 DEF DocReached, global_doc_category_board
<1>5. CASE s.scope = "app"
  <2>1. s = AppDoc(o, q.stream.section) /\ q \in SectionLinks(app_doc_board(o)) /\ o \in PageApps
    BY <1>1, <1>2, <1>5, <1>3, StreamNames
       DEF PageApps, Addressable, AppDoc, app_doc_board, app_doc_all_sections_latest
  <2> DEFINE card == [name |-> o, latest |-> {x.version : x \in RowsOwnedBy("doc", "app", o)}]
  <2>2. card \in app_docs_cards /\ card.name = o
    BY <1>1, <1>5 DEF app_docs_cards, list_distinct_apps_with_docs
  <2> HIDE DEF card
  <2> QED
    BY <1>1, <1>5, <2>1, <2>2 DEF DocReached, app_doc_category_board
<1>6. CASE s.scope = "repo"
  <2>1. repo_doc_pattern_from_url_segment(seg) = o /\ seg \in Segments
    BY <1>1, <1>6, StreamNames, NamesAssumption
       DEF repo_doc_pattern_from_url_segment, repo_doc_pat_href_segment, Segments, Addressable
  <2>2. s = RepoDoc(o, q.stream.section) /\ q \in SectionLinks(repo_doc_board(seg))
    BY <1>1, <1>2, <1>6, <1>3, <2>1 DEF RepoDoc, repo_doc_board, repo_doc_all_sections_latest
  <2>3. r \in repo_doc_category_board(seg, q.stream.section).rows
    BY <1>1, <2>1, <2>2 DEF repo_doc_category_board
  <2> DEFINE card == [pattern |-> o, segment |-> seg,
                      latest |-> {x.version : x \in RowsOwnedBy("doc", "repo", o)}]
  <2>4. card \in repo_docs_cards /\ card.segment = seg
    BY <1>1, <1>6 DEF repo_docs_cards, list_distinct_repo_patterns_with_docs
  <2> HIDE DEF card
  <2> QED
    BY <1>6, <2>1, <2>2, <2>3, <2>4 DEF DocReached
<1> QED
  BY <1>1, <1>4, <1>5, <1>6 DEF Scopes

\* Forms, lists and bundles are separate queries, and agree about every row:
\* the number a publish form announces is above its version, the text it starts
\* from is what agents get, and no list leaves its section out.
THEOREM FormsAreRight == Spec => []FormsMatchWhatAgentsGet
<1>1. TypeInv /\ RowsSound => FormsMatchWhatAgentsGet
  <2> SUFFICES ASSUME TypeInv, RowsSound, NEW r \in rows, r.stream.kind # "rule"
               PROVE  FormsAgree(r)
    BY DEF FormsMatchWhatAgentsGet, HarnessRows
  <2>1. r.stream.kind \in Kinds
    BY RowStream, StreamFields
  <2> QED
    BY <2>1, SkillFormsFit, WorkflowFormsFit, DocFormsFit DEF FormsAgree, Kinds
<1> QED
  BY <1>1, AlwaysTyped, RowsAlwaysSound, PTL

\* Links lead from the first page of a kind to every version of it whose owner
\* and section have a page; those that have none are named by Addressable.
THEOREM LinksReachEveryRow == Spec => []EveryRowIsReachable
<1>1. TypeInv /\ RowsSound => EveryRowIsReachable
  <2> SUFFICES ASSUME TypeInv, RowsSound, NEW r \in rows, r.stream.kind # "rule", Addressable(r)
               PROVE  Reached(r)
    BY DEF EveryRowIsReachable, HarnessRows
  <2>1. r.stream.kind \in Kinds
    BY RowStream, StreamFields
  <2> QED
    BY <2>1, SkillIsReached, WorkflowIsReached, DocIsReached DEF Reached, Kinds
<1> QED
  BY <1>1, AlwaysTyped, RowsAlwaysSound, PTL

=============================================================================
