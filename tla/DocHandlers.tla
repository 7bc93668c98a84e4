---------------------------- MODULE DocHandlers -----------------------------
(***************************************************************************)
(* Docs: what services/versioned_docs.py, routers/admin_docs.py and        *)
(* tools/doc_tools.py do, under their names.  A publish starts here and    *)
(* goes on with the steps of HarnessStore.                                 *)
(***************************************************************************)
EXTENDS HarnessStore

GlobalDoc(c) == Stream("doc", "global", Default, c)
AppDoc(a, c) == Stream("doc", "app", a, c)
RepoDoc(pat, c) == Stream("doc", "repo", pat, c)

DocRows == {r \in rows : r.stream.kind = "doc"}

-----------------------------------------------------------------------------
(* services/versioned_docs.py *)

list_sections_for_global_doc == Sections("doc", "global", Default)
list_sections_for_app_doc(a) == Sections("doc", "app", a)
list_sections_for_repo_doc(pat) == Sections("doc", "repo", pat)

global_doc_all_sections_latest == Board("doc", "global", Default)
app_doc_all_sections_latest(a) == Board("doc", "app", a)
repo_doc_all_sections_latest(pat) == Board("doc", "repo", pat)

global_doc_latest(c) == Latest(GlobalDoc(c))
app_doc_latest(a, c) == Latest(AppDoc(a, c))
repo_doc_latest(pat, c) == Latest(RepoDoc(pat, c))

\* Mutant: the number of versions instead of the highest one.
NextAppDocByCount(a, c) == {Cardinality(RowsOf(AppDoc(a, c))) + 1}

\* Mutant: the segment of the default pattern taken for its name.
DocSegmentAsIs(seg) == seg

next_global_doc_version(c) == NextVersion(GlobalDoc(c))
next_app_doc_version(a, c) == NextVersion(AppDoc(a, c))
next_repo_doc_version(pat, c) == NextVersion(RepoDoc(pat, c))

publish_global_doc(p, c, b) == Publish(p, GlobalDoc(c), b)
publish_app_doc(p, a, c, b) == Publish(p, AppDoc(a, c), b)
publish_repo_doc(p, pat, c, b) == Publish(p, RepoDoc(pat, c), b)

\* Best effort: IndexSteps end well for a publisher, whatever happens.
try_index_doc(p) == call[p] # NoCall /\ call[p].stream.kind = "doc" /\ IndexSteps(p)

delete_global_doc_version(p, c, v) == DeleteCounted(p, GlobalDoc(c), v)
delete_app_doc_version(p, a, c, v) ==
    DeleteRows(p, {r \in RowsOf(AppDoc(a, c)) : r.version = v})
delete_repo_doc_version(p, pat, c, v) == DeleteCounted(p, RepoDoc(pat, c), v)

delete_global_doc_section(p, c) == DeleteRows(p, RowsOf(GlobalDoc(c)))
delete_app_doc_section(p, a, c) == DeleteRows(p, RowsOf(AppDoc(a, c)))
delete_repo_doc_section(p, pat, c) == DeleteRows(p, RowsOf(RepoDoc(pat, c)))

delete_app_doc_stream(p, a) == DeleteRows(p, RowsOwnedBy("doc", "app", a))
delete_repo_doc_stream(p, pat) == DeleteRows(p, RowsOwnedBy("doc", "repo", pat))

list_distinct_apps_with_docs == OwnersWithRows("doc", "app")
list_distinct_repo_patterns_with_docs == OwnersWithRows("doc", "repo")
repo_doc_pat_href_segment(pat) == IF pat = Default THEN DefaultSegment ELSE pat
repo_doc_pattern_from_url_segment(seg) == IF seg = DefaultSegment THEN Default ELSE seg

\* The texts an agent saves: everything global, the patterns its origin URL
\* contains and the default one, its app.
get_docs_markdown(a, matched) ==
    global_doc_all_sections_latest
        \cup (UNION {repo_doc_all_sections_latest(pat) :
                     pat \in (matched \cup {Default}) \cap list_distinct_repo_patterns_with_docs})
        \cup app_doc_all_sections_latest(a)

-----------------------------------------------------------------------------
(* tools/doc_tools.py *)

publish_global_doc_tool(p) ==
    \E c \in Categories, b \in Bodies : publish_global_doc(p, c, b)
publish_app_doc_tool(p) ==
    \E a \in Apps, c \in Categories, b \in Bodies : publish_app_doc(p, a, c, b)
publish_repo_doc_tool(p) ==
    \E pat \in Patterns, c \in Categories, b \in Bodies : publish_repo_doc(p, pat, c, b)
update_doc(p) ==
    \E a \in Apps, c \in Categories, b \in Bodies : publish_app_doc(p, a, c, b)

\* The sections of a scope; for patterns, of those that match, else the default.
list_doc_sections(scope, a, matched) ==
    CASE scope = "app" -> list_sections_for_app_doc(a)
      [] scope = "repo" ->
           LET pats == list_distinct_repo_patterns_with_docs \cap (matched \ {Default})
           IN  UNION {list_sections_for_repo_doc(pat) :
                      pat \in IF pats = {} THEN {Default} ELSE pats}
      [] scope = "global" -> list_sections_for_global_doc

DocTools(p) ==
    \/ publish_global_doc_tool(p)
    \/ publish_app_doc_tool(p)
    \/ publish_repo_doc_tool(p)
    \/ update_doc(p)

-----------------------------------------------------------------------------
(* routers/admin_docs.py: global *)

global_docs_board == global_doc_all_sections_latest
global_doc_category_new_form == list_sections_for_global_doc
global_doc_category_board(c) == VersionPage(GlobalDoc(c))
global_doc_category_publish_form(c) ==
    [next |-> next_global_doc_version(c), prefill |-> global_doc_latest(c)]
global_doc_version_view(c, v) ==
    [rows |-> {r \in RowsOf(GlobalDoc(c)) : r.version = v},
     offersDeletion |-> Cardinality(RowsOf(GlobalDoc(c))) > (IF c = Main THEN 1 ELSE 0)]

global_doc_category_new_submit(p) ==
    \E c \in Categories \ list_sections_for_global_doc, b \in Bodies :
        publish_global_doc(p, c, b)
global_doc_category_delete(p) ==
    \E c \in PageSections \ {Main} : delete_global_doc_section(p, c)
global_doc_category_publish_submit(p) ==
    \E c \in PageSections, b \in Bodies : publish_global_doc(p, c, b)
global_doc_save_as_new(p) ==
    \E c \in PageSections, b \in Bodies : publish_global_doc(p, c, b)
global_doc_version_delete(p) ==
    \E c \in PageSections, v \in 1 .. MaxRows :
        \/ CountVersions(p, GlobalDoc(c), v)
        \/ delete_global_doc_version(p, c, v)

(* app *)

app_docs_cards ==
    {[name |-> a, latest |-> {r.version : r \in RowsOwnedBy("doc", "app", a)}] :
     a \in list_distinct_apps_with_docs}
app_doc_board(a) == app_doc_all_sections_latest(a)
app_doc_category_new_form(a) == list_sections_for_app_doc(a)
app_doc_category_board(a, c) == VersionPage(AppDoc(a, c))
app_doc_category_publish_form(a, c) ==
    [next |-> next_app_doc_version(a, c), prefill |-> app_doc_latest(a, c)]
app_doc_version_view(a, c, v) ==
    [rows |-> {r \in RowsOf(AppDoc(a, c)) : r.version = v},
     offersDeletion |-> RowsOf(AppDoc(a, c)) # {}]

new_app_doc_submit(p) ==
    \E a \in Apps \ list_distinct_apps_with_docs, b \in Bodies :
        publish_app_doc(p, a, Main, b)
app_doc_delete_stream(p) == \E a \in PageApps : delete_app_doc_stream(p, a)
app_doc_category_new_submit(p) ==
    \E a \in PageApps, b \in Bodies : \E c \in Categories \ list_sections_for_app_doc(a) :
        publish_app_doc(p, a, c, b)
app_doc_category_delete(p) ==
    \E a \in PageApps, c \in PageSections \ {Main} : delete_app_doc_section(p, a, c)
app_doc_category_publish_submit(p) ==
    \E a \in PageApps, c \in PageSections, b \in Bodies : publish_app_doc(p, a, c, b)
app_doc_save_as_new(p) ==
    \E a \in PageApps, c \in PageSections, b \in Bodies : publish_app_doc(p, a, c, b)
app_doc_version_delete(p) ==
    \E a \in PageApps, c \in PageSections, v \in 1 .. MaxRows :
        delete_app_doc_version(p, a, c, v)

(* repository; a page takes the pattern from a segment of its address *)

DocPatterns == {repo_doc_pattern_from_url_segment(seg) : seg \in Segments}

repo_docs_cards ==
    {[pattern |-> pat, segment |-> repo_doc_pat_href_segment(pat),
      latest |-> {r.version : r \in RowsOwnedBy("doc", "repo", pat)}] :
     pat \in list_distinct_repo_patterns_with_docs}
repo_doc_board(seg) == repo_doc_all_sections_latest(repo_doc_pattern_from_url_segment(seg))
repo_doc_category_new_form(seg) ==
    list_sections_for_repo_doc(repo_doc_pattern_from_url_segment(seg))
repo_doc_category_board(seg, c) ==
    VersionPage(RepoDoc(repo_doc_pattern_from_url_segment(seg), c))
repo_doc_category_publish_form(seg, c) ==
    LET pat == repo_doc_pattern_from_url_segment(seg)
    IN  [next |-> next_repo_doc_version(pat, c), prefill |-> repo_doc_latest(pat, c)]
repo_doc_version_view(seg, c, v) ==
    LET s == RepoDoc(repo_doc_pattern_from_url_segment(seg), c)
    IN  [rows |-> {r \in RowsOf(s) : r.version = v},
         offersDeletion |-> Cardinality(RowsOf(s)) > (IF Protected(s) THEN 1 ELSE 0)]

new_repo_doc_submit(p) ==
    \E pat \in Patterns \ list_distinct_repo_patterns_with_docs, b \in Bodies :
        publish_repo_doc(p, pat, Main, b)
repo_doc_delete_stream(p) ==
    \E pat \in DocPatterns \ {Default} : delete_repo_doc_stream(p, pat)
repo_doc_category_new_submit(p) ==
    \E pat \in DocPatterns, b \in Bodies :
        \E c \in Categories \ list_sections_for_repo_doc(pat) : publish_repo_doc(p, pat, c, b)
repo_doc_category_delete(p) ==
    \E pat \in DocPatterns, c \in PageSections \ {Main} : delete_repo_doc_section(p, pat, c)
repo_doc_category_publish_submit(p) ==
    \E pat \in DocPatterns, c \in PageSections, b \in Bodies : publish_repo_doc(p, pat, c, b)
repo_doc_save_as_new(p) ==
    \E pat \in DocPatterns, c \in PageSections, b \in Bodies : publish_repo_doc(p, pat, c, b)
repo_doc_version_delete(p) ==
    \E pat \in DocPatterns, c \in PageSections, v \in 1 .. MaxRows :
        \/ CountVersions(p, RepoDoc(pat, c), v)
        \/ delete_repo_doc_version(p, pat, c, v)

DocPages(p) ==
    \/ global_doc_category_new_submit(p)
    \/ global_doc_category_delete(p)
    \/ global_doc_category_publish_submit(p)
    \/ global_doc_save_as_new(p)
    \/ global_doc_version_delete(p)
    \/ new_app_doc_submit(p)
    \/ app_doc_delete_stream(p)
    \/ app_doc_category_new_submit(p)
    \/ app_doc_category_delete(p)
    \/ app_doc_category_publish_submit(p)
    \/ app_doc_save_as_new(p)
    \/ app_doc_version_delete(p)
    \/ new_repo_doc_submit(p)
    \/ repo_doc_delete_stream(p)
    \/ repo_doc_category_new_submit(p)
    \/ repo_doc_category_delete(p)
    \/ repo_doc_category_publish_submit(p)
    \/ repo_doc_save_as_new(p)
    \/ repo_doc_version_delete(p)

\* The pages that show a row.
DocViews(r) ==
    LET c == r.stream.section
        seg == repo_doc_pat_href_segment(r.stream.owner)
    IN  CASE r.stream.scope = "global" ->
               {global_doc_category_board(c), global_doc_version_view(c, r.version)}
          [] r.stream.scope = "app" ->
               {app_doc_category_board(r.stream.owner, c),
                app_doc_version_view(r.stream.owner, c, r.version)}
          [] r.stream.scope = "repo" ->
               {repo_doc_category_board(seg, c), repo_doc_version_view(seg, c, r.version)}

\* A version is below the number its publish form announces, the text that
\* form starts from is what agents are given, and the form of a new section
\* and the list for agents know the section.
DocFormsAgree(r) ==
    LET c == r.stream.section
        o == r.stream.owner
        seg == repo_doc_pat_href_segment(o)
        form ==
          CASE r.stream.scope = "global" -> global_doc_category_publish_form(c)
            [] r.stream.scope = "app" -> app_doc_category_publish_form(o, c)
            [] r.stream.scope = "repo" -> repo_doc_category_publish_form(seg, c)
        sections ==
          CASE r.stream.scope = "global" -> global_doc_category_new_form
            [] r.stream.scope = "app" -> app_doc_category_new_form(o)
            [] r.stream.scope = "repo" -> repo_doc_category_new_form(seg)
    IN  /\ \E n \in form.next : r.version < n
        /\ form.prefill \subseteq get_docs_markdown(o, {o})
        /\ c \in sections \cap list_doc_sections(r.stream.scope, o, {o})

\* A browser gets to the row from the first page, link by link.
DocReached(r) ==
    CASE r.stream.scope = "global" ->
           \E q \in SectionLinks(global_docs_board) :
               r \in global_doc_category_board(q.stream.section).rows
      [] r.stream.scope = "app" ->
           \E card \in {x \in app_docs_cards : x.name \in PageApps} :
               \E q \in SectionLinks(app_doc_board(card.name)) :
                   r \in app_doc_category_board(card.name, q.stream.section).rows
      [] r.stream.scope = "repo" ->
           \E card \in {x \in repo_docs_cards : x.segment \in Segments} :
               \E q \in SectionLinks(repo_doc_board(card.segment)) :
                   r \in repo_doc_category_board(card.segment, q.stream.section).rows
=============================================================================
