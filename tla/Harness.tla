------------------------------ MODULE Harness -------------------------------
(***************************************************************************)
(* Skills, workflows and documents together: the pages and tools of the    *)
(* three kinds, uploads and re-indexing over one database, and what should *)
(* hold of them.                                                           *)
(***************************************************************************)
EXTENDS SkillHandlers, WorkflowHandlers, DocHandlers, HarnessTools

Tools(p) == SkillTools(p) \/ WorkflowTools(p) \/ DocTools(p)

Pages(p) == SkillPages(p) \/ WorkflowPages(p) \/ DocPages(p)

\* Rules are indexed beside the other kinds.
TryIndex(p) ==
    \/ try_index_skill(p)
    \/ try_index_workflow(p)
    \/ try_index_doc(p)
    \/ call[p] # NoCall /\ call[p].stream.kind = "rule" /\ IndexSteps(p)

Next ==
    \/ \E p \in Agents : Tools(p)
    \/ \E p \in Admins : Pages(p)
    \/ \E p \in Uploaders : upload_harness(p)
    \/ \E p \in Scripts : Reindex(p)
    \/ \E p \in Publishers : PublishSteps(p)
    \/ \E p \in Callers : TryIndex(p)
    \/ \E p \in Callers : Crash(p)

Spec == Init /\ [][Next]_vars

-----------------------------------------------------------------------------
(* Properties *)

\* Every variable has its type.
TypeOK ==
    /\ scene \in Scenes
    /\ rows \subseteq Row
    /\ nextId \in Nat
    /\ chunks \subseteq Chunk
    /\ call \in [Callers -> Call \cup {NoCall}]
    /\ upload \in [Uploaders -> Upload \cup {NoCall}]
    /\ script \in [Scripts -> Script \cup {NoCall}]

\* With one admin, the "main" section of the global stream and of the default
\* pattern never loses its last version (the *_version_delete handlers, which
\* count before they delete; agents publish in between).
MainKeepsAVersion ==
    [][\A s \in store :
          s.kind # "rule" /\ Protected(s) /\ RowsOf(s) # {} => RowsOf(s)' # {}]_vars

\* What search finds of a stream it goes on finding: a re-publish whose
\* indexing fails, or a publish in another stream, never leaves it without
\* chunks.  Two things do: a re-index that starts by deleting everything, and
\* skills of patterns, whose chunks do not say which pattern they are of.
SearchKeepsWhatItFound ==
    [][\A s \in IndexedStreams :
          \/ s \in IndexedStreams'
          \/ s.kind = "skill" /\ s.scope = "repo"
          \/ \E p \in Scripts : script'[p] # NoCall /\ script[p] = NoCall]_vars

\* The answer of upload_harness is true file by file: a file reported as
\* failed is in no table, and one reported as stored was written.
UploadTellsTheTruth ==
    \A p \in Uploaders : Uploading(p) =>
        /\ \A f \in upload[p].failed : \A w \in upload[p].wrote :
              w.file = f => \A r \in rows : r.id # w.id
        /\ \A f \in upload[p].stored : \E w \in upload[p].wrote : w.file = f

Views(r) ==
    CASE r.stream.kind = "skill" -> SkillViews(r)
      [] r.stream.kind = "workflow" -> WorkflowViews(r)
      [] r.stream.kind = "doc" -> DocViews(r)

Reached(r) ==
    CASE r.stream.kind = "skill" -> SkillReached(r)
      [] r.stream.kind = "workflow" -> WorkflowReached(r)
      [] r.stream.kind = "doc" -> DocReached(r)

FormsAgree(r) ==
    CASE r.stream.kind = "skill" -> SkillFormsAgree(r)
      [] r.stream.kind = "workflow" -> WorkflowFormsAgree(r)
      [] r.stream.kind = "doc" -> DocFormsAgree(r)

HarnessRows == {r \in rows : r.stream.kind # "rule"}

\* Both pages that show a version show it, and offer to delete it exactly
\* when their handler would: boards, version pages and handlers count on
\* their own, each in its three scopes.
DeleteOfferedWhenAccepted ==
    \A r \in HarnessRows : \A page \in Views(r) :
        r \in page.rows /\ page.offersDeletion = ~DeletionRefused(r.stream)

\* A row whose owner and section an address can hold, and whose section has
\* not the address of a form.
Addressable(r) ==
    /\ {r.stream.owner, r.stream.section} \cap Unaddressable = {}
    /\ r.stream.section # New

\* Every version can be reached from the first page of its kind: cards list
\* the owners, their links lead to boards, and those to the sections.  Of
\* sections called "new" and of names with a "/" the code has no page: agents
\* are given those rows all the same, so they are named here.
EveryRowIsReachable == \A r \in HarnessRows : Addressable(r) => Reached(r)

\* Forms, lists and bundles are queries of their own, and agree: a publish
\* form announces a number above every version and starts from the text that
\* agents get, and the lists of sections leave none out.
FormsMatchWhatAgentsGet == \A r \in HarnessRows : FormsAgree(r)

\* What a re-index counts as done is found by search, if its text has any
\* chunks: of one without, the script leaves the index as it was, and counts
\* it too.  Except for the skills of patterns.
ReindexedStreamsAreFound ==
    \A p \in Scripts : Reindexing(p) =>
        \A f \in script[p].indexed :
            \/ f.stream \in IndexedStreams
            \/ f.body \in Bare
            \/ f.stream.kind = "skill" /\ f.stream.scope = "repo"
=============================================================================
