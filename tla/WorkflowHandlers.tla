-------------------------- MODULE WorkflowHandlers --------------------------
(***************************************************************************)
(* Workflows: what services/versioned_workflows.py, routers/admin_workflows.py and*)
(* tools/workflow_tools.py do, under their names.  A publish starts here and*)
(* goes on with the steps of HarnessStore.                                 *)
(***************************************************************************)
EXTENDS HarnessStore

GlobalWorkflow(c) == Stream("workflow", "global", Default, c)
AppWorkflow(a, c) == Stream("workflow", "app", a, c)
RepoWorkflow(pat, c) == Stream("workflow", "repo", pat, c)

WorkflowRows == {r \in rows : r.stream.kind = "workflow"}

-----------------------------------------------------------------------------
(* services/versioned_workflows.py *)

list_sections_for_global_workflow == Sections("workflow", "global", Default)
list_sections_for_app_workflow(a) == Sections("workflow", "app", a)
list_sections_for_repo_workflow(pat) == Sections("workflow", "repo", pat)

global_workflow_all_sections_latest == Board("workflow", "global", Default)
app_workflow_all_sections_latest(a) == Board("workflow", "app", a)
repo_workflow_all_sections_latest(pat) == Board("workflow", "repo", pat)

global_workflow_latest(c) == Latest(GlobalWorkflow(c))
app_workflow_latest(a, c) == Latest(AppWorkflow(a, c))
repo_workflow_latest(pat, c) == Latest(RepoWorkflow(pat, c))

next_global_workflow_version(c) == NextVersion(GlobalWorkflow(c))
next_app_workflow_version(a, c) == NextVersion(AppWorkflow(a, c))
next_repo_workflow_version(pat, c) == NextVersion(RepoWorkflow(pat, c))

publish_global_workflow(p, c, b) == Publish(p, GlobalWorkflow(c), b)
publish_app_workflow(p, a, c, b) == Publish(p, AppWorkflow(a, c), b)
publish_repo_workflow(p, pat, c, b) == Publish(p, RepoWorkflow(pat, c), b)

\* Best effort: IndexSteps end well for a publisher, whatever happens.
try_index_workflow(p) == call[p] # NoCall /\ call[p].stream.kind = "workflow" /\ IndexSteps(p)

delete_global_workflow_version(p, c, v) == DeleteCounted(p, GlobalWorkflow(c), v)
delete_app_workflow_version(p, a, c, v) ==
    DeleteRows(p, {r \in RowsOf(AppWorkflow(a, c)) : r.version = v})
delete_repo_workflow_version(p, pat, c, v) == DeleteCounted(p, RepoWorkflow(pat, c), v)

delete_global_workflow_section(p, c) == DeleteRows(p, RowsOf(GlobalWorkflow(c)))
delete_app_workflow_section(p, a, c) == DeleteRows(p, RowsOf(AppWorkflow(a, c)))
delete_repo_workflow_section(p, pat, c) == DeleteRows(p, RowsOf(RepoWorkflow(pat, c)))

delete_app_workflow_stream(p, a) == DeleteRows(p, RowsOwnedBy("workflow", "app", a))
delete_repo_workflow_stream(p, pat) == DeleteRows(p, RowsOwnedBy("workflow", "repo", pat))

list_distinct_apps_with_workflows == OwnersWithRows("workflow", "app")
list_distinct_repo_patterns_with_workflows == OwnersWithRows("workflow", "repo")
repo_workflow_pat_href_segment(pat) == IF pat = Default THEN DefaultSegment ELSE pat
repo_workflow_pattern_from_url_segment(seg) == IF seg = DefaultSegment THEN Default ELSE seg

\* The texts an agent saves: everything global, the patterns its origin URL
\* contains and the default one, its app.
get_workflows_markdown(a, matched) ==
    global_workflow_all_sections_latest
        \cup (UNION {repo_workflow_all_sections_latest(pat) :
                     pat \in (matched \cup {Default}) \cap list_distinct_repo_patterns_with_workflows})
        \cup app_workflow_all_sections_latest(a)

-----------------------------------------------------------------------------
(* tools/workflow_tools.py *)

publish_global_workflow_tool(p) ==
    \E c \in Categories, b \in Bodies : publish_global_workflow(p, c, b)
publish_app_workflow_tool(p) ==
    \E a \in Apps, c \in Categories, b \in Bodies : publish_app_workflow(p, a, c, b)
publish_repo_workflow_tool(p) ==
    \E pat \in Patterns, c \in Categories, b \in Bodies : publish_repo_workflow(p, pat, c, b)
update_workflow(p) ==
    \E a \in Apps, c \in Categories, b \in Bodies : publish_app_workflow(p, a, c, b)

\* A diagram is added to a row in place: no new version.
set_workflow_mermaid(p, s, v) ==
    /\ Idle(p) /\ s \in store /\ s.kind = "workflow"
    /\ \E r \in RowsOf(s) :
          /\ r.version = v
          /\ rows' = (rows \ {r}) \cup {[r EXCEPT !.diagram = TRUE]}
    /\ UNCHANGED <<scene, nextId, chunks, call, upload, script>>

set_workflow_mermaid_tool(p) ==
    \E s \in store, v \in 1 .. MaxRows : set_workflow_mermaid(p, s, v)

\* The sections of a scope; for patterns, of those that match, else the default.
list_workflow_sections(scope, a, matched) ==
    CASE scope = "app" -> list_sections_for_app_workflow(a)
      [] scope = "repo" ->
           LET pats == list_distinct_repo_patterns_with_workflows \cap (matched \ {Default})
           IN  UNION {list_sections_for_repo_workflow(pat) :
                      pat \in IF pats = {} THEN {Default} ELSE pats}
      [] scope = "global" -> list_sections_for_global_workflow

WorkflowTools(p) ==
    \/ publish_global_workflow_tool(p)
    \/ publish_app_workflow_tool(p)
    \/ publish_repo_workflow_tool(p)
    \/ update_workflow(p)
    \/ set_workflow_mermaid_tool(p)

-----------------------------------------------------------------------------
(* routers/admin_workflows.py: global *)

global_workflows_board == global_workflow_all_sections_latest
global_workflow_category_new_form == list_sections_for_global_workflow
global_workflow_category_board(c) == VersionPage(GlobalWorkflow(c))
global_workflow_category_publish_form(c) ==
    [next |-> next_global_workflow_version(c), prefill |-> global_workflow_latest(c)]
global_workflow_version_view(c, v) ==
    [rows |-> {r \in RowsOf(GlobalWorkflow(c)) : r.version = v},
     offersDeletion |-> Cardinality(RowsOf(GlobalWorkflow(c))) > (IF c = Main THEN 1 ELSE 0)]

global_workflow_category_new_submit(p) ==
    \E c \in Categories \ list_sections_for_global_workflow, b \in Bodies :
        publish_global_workflow(p, c, b)
global_workflow_category_delete(p) ==
    \E c \in PageSections \ {Main} : delete_global_workflow_section(p, c)
global_workflow_category_publish_submit(p) ==
    \E c \in PageSections, b \in Bodies : publish_global_workflow(p, c, b)
global_workflow_save_as_new(p) ==
    \E c \in PageSections, b \in Bodies : publish_global_workflow(p, c, b)
global_workflow_version_delete(p) ==
    \E c \in PageSections, v \in 1 .. MaxRows :
        \/ CountVersions(p, GlobalWorkflow(c), v)
        \/ delete_global_workflow_version(p, c, v)

(* app *)

app_workflows_cards ==
    {[name |-> a, latest |-> {r.version : r \in RowsOwnedBy("workflow", "app", a)}] :
     a \in list_distinct_apps_with_workflows}
app_workflow_board(a) == app_workflow_all_sections_latest(a)
app_workflow_category_new_form(a) == list_sections_for_app_workflow(a)
app_workflow_category_board(a, c) == VersionPage(AppWorkflow(a, c))
app_workflow_category_publish_form(a, c) ==
    [next |-> next_app_workflow_version(a, c), prefill |-> app_workflow_latest(a, c)]
app_workflow_version_view(a, c, v) ==
    [rows |-> {r \in RowsOf(AppWorkflow(a, c)) : r.version = v},
     offersDeletion |-> RowsOf(AppWorkflow(a, c)) # {}]

new_app_workflow_submit(p) ==
    \E a \in Apps \ list_distinct_apps_with_workflows, b \in Bodies :
        publish_app_workflow(p, a, Main, b)
app_workflow_delete_stream(p) == \E a \in PageApps : delete_app_workflow_stream(p, a)
app_workflow_category_new_submit(p) ==
    \E a \in PageApps, b \in Bodies : \E c \in Categories \ list_sections_for_app_workflow(a) :
        publish_app_workflow(p, a, c, b)
app_workflow_category_delete(p) ==
    \E a \in PageApps, c \in PageSections \ {Main} : delete_app_workflow_section(p, a, c)
app_workflow_category_publish_submit(p) ==
    \E a \in PageApps, c \in PageSections, b \in Bodies : publish_app_workflow(p, a, c, b)
app_workflow_save_as_new(p) ==
    \E a \in PageApps, c \in PageSections, b \in Bodies : publish_app_workflow(p, a, c, b)
app_workflow_version_delete(p) ==
    \E a \in PageApps, c \in PageSections, v \in 1 .. MaxRows :
        delete_app_workflow_version(p, a, c, v)

(* repository; a page takes the pattern from a segment of its address *)

WorkflowPatterns == {repo_workflow_pattern_from_url_segment(seg) : seg \in Segments}

repo_workflows_cards ==
    {[pattern |-> pat, segment |-> repo_workflow_pat_href_segment(pat),
      latest |-> {r.version : r \in RowsOwnedBy("workflow", "repo", pat)}] :
     pat \in list_distinct_repo_patterns_with_workflows}
repo_workflow_board(seg) == repo_workflow_all_sections_latest(repo_workflow_pattern_from_url_segment(seg))
repo_workflow_category_new_form(seg) ==
    list_sections_for_repo_workflow(repo_workflow_pattern_from_url_segment(seg))
repo_workflow_category_board(seg, c) ==
    VersionPage(RepoWorkflow(repo_workflow_pattern_from_url_segment(seg), c))
repo_workflow_category_publish_form(seg, c) ==
    LET pat == repo_workflow_pattern_from_url_segment(seg)
    IN  [next |-> next_repo_workflow_version(pat, c), prefill |-> repo_workflow_latest(pat, c)]
repo_workflow_version_view(seg, c, v) ==
    LET s == RepoWorkflow(repo_workflow_pattern_from_url_segment(seg), c)
    IN  [rows |-> {r \in RowsOf(s) : r.version = v},
         offersDeletion |-> Cardinality(RowsOf(s)) > (IF Protected(s) THEN 1 ELSE 0)]

new_repo_workflow_submit(p) ==
    \E pat \in Patterns \ list_distinct_repo_patterns_with_workflows, b \in Bodies :
        publish_repo_workflow(p, pat, Main, b)
repo_workflow_delete_stream(p) ==
    \E pat \in WorkflowPatterns \ {Default} : delete_repo_workflow_stream(p, pat)
repo_workflow_category_new_submit(p) ==
    \E pat \in WorkflowPatterns, b \in Bodies :
        \E c \in Categories \ list_sections_for_repo_workflow(pat) : publish_repo_workflow(p, pat, c, b)
repo_workflow_category_delete(p) ==
    \E pat \in WorkflowPatterns, c \in PageSections \ {Main} : delete_repo_workflow_section(p, pat, c)
repo_workflow_category_publish_submit(p) ==
    \E pat \in WorkflowPatterns, c \in PageSections, b \in Bodies : publish_repo_workflow(p, pat, c, b)
repo_workflow_save_as_new(p) ==
    \E pat \in WorkflowPatterns, c \in PageSections, b \in Bodies : publish_repo_workflow(p, pat, c, b)
repo_workflow_version_delete(p) ==
    \E pat \in WorkflowPatterns, c \in PageSections, v \in 1 .. MaxRows :
        \/ CountVersions(p, RepoWorkflow(pat, c), v)
        \/ delete_repo_workflow_version(p, pat, c, v)

WorkflowPages(p) ==
    \/ global_workflow_category_new_submit(p)
    \/ global_workflow_category_delete(p)
    \/ global_workflow_category_publish_submit(p)
    \/ global_workflow_save_as_new(p)
    \/ global_workflow_version_delete(p)
    \/ new_app_workflow_submit(p)
    \/ app_workflow_delete_stream(p)
    \/ app_workflow_category_new_submit(p)
    \/ app_workflow_category_delete(p)
    \/ app_workflow_category_publish_submit(p)
    \/ app_workflow_save_as_new(p)
    \/ app_workflow_version_delete(p)
    \/ new_repo_workflow_submit(p)
    \/ repo_workflow_delete_stream(p)
    \/ repo_workflow_category_new_submit(p)
    \/ repo_workflow_category_delete(p)
    \/ repo_workflow_category_publish_submit(p)
    \/ repo_workflow_save_as_new(p)
    \/ repo_workflow_version_delete(p)

\* The pages that show a row.
WorkflowViews(r) ==
    LET c == r.stream.section
        seg == repo_workflow_pat_href_segment(r.stream.owner)
    IN  CASE r.stream.scope = "global" ->
               {global_workflow_category_board(c), global_workflow_version_view(c, r.version)}
          [] r.stream.scope = "app" ->
               {app_workflow_category_board(r.stream.owner, c),
                app_workflow_version_view(r.stream.owner, c, r.version)}
          [] r.stream.scope = "repo" ->
               {repo_workflow_category_board(seg, c), repo_workflow_version_view(seg, c, r.version)}

\* A version is below the number its publish form announces, the text that
\* form starts from is what agents are given, and the form of a new section
\* and the list for agents know the section.
WorkflowFormsAgree(r) ==
    LET c == r.stream.section
        o == r.stream.owner
        seg == repo_workflow_pat_href_segment(o)
        form ==
          CASE r.stream.scope = "global" -> global_workflow_category_publish_form(c)
            [] r.stream.scope = "app" -> app_workflow_category_publish_form(o, c)
            [] r.stream.scope = "repo" -> repo_workflow_category_publish_form(seg, c)
        sections ==
          CASE r.stream.scope = "global" -> global_workflow_category_new_form
            [] r.stream.scope = "app" -> app_workflow_category_new_form(o)
            [] r.stream.scope = "repo" -> repo_workflow_category_new_form(seg)
    IN  /\ \E n \in form.next : r.version < n
        /\ form.prefill \subseteq get_workflows_markdown(o, {o})
        /\ c \in sections \cap list_workflow_sections(r.stream.scope, o, {o})

\* A browser gets to the row from the first page, link by link.
WorkflowReached(r) ==
    CASE r.stream.scope = "global" ->
           \E q \in SectionLinks(global_workflows_board) :
               r \in global_workflow_category_board(q.stream.section).rows
      [] r.stream.scope = "app" ->
           \E card \in {x \in app_workflows_cards : x.name \in PageApps} :
               \E q \in SectionLinks(app_workflow_board(card.name)) :
                   r \in app_workflow_category_board(card.name, q.stream.section).rows
      [] r.stream.scope = "repo" ->
           \E card \in {x \in repo_workflows_cards : x.segment \in Segments} :
               \E q \in SectionLinks(repo_workflow_board(card.segment)) :
                   r \in repo_workflow_category_board(card.segment, q.stream.section).rows
=============================================================================
