--------------------------- MODULE SkillHandlers ----------------------------
(***************************************************************************)
(* Skills: what services/versioned_skills.py, routers/admin_skills.py and  *)
(* tools/skill_tools.py do, under their names.  A publish starts here and  *)
(* goes on with the steps of HarnessStore.                                 *)
(***************************************************************************)
EXTENDS HarnessStore

GlobalSkill(c) == Stream("skill", "global", Default, c)
AppSkill(a, c) == Stream("skill", "app", a, c)
RepoSkill(pat, c) == Stream("skill", "repo", pat, c)

SkillRows == {r \in rows : r.stream.kind = "skill"}

-----------------------------------------------------------------------------
(* services/versioned_skills.py *)

list_sections_for_global_skill == Sections("skill", "global", Default)
list_sections_for_app_skill(a) == Sections("skill", "app", a)
list_sections_for_repo_skill(pat) == Sections("skill", "repo", pat)

global_skill_all_sections_latest == Board("skill", "global", Default)
app_skill_all_sections_latest(a) == Board("skill", "app", a)
repo_skill_all_sections_latest(pat) == Board("skill", "repo", pat)

global_skill_latest(c) == Latest(GlobalSkill(c))
app_skill_latest(a, c) == Latest(AppSkill(a, c))
repo_skill_latest(pat, c) == Latest(RepoSkill(pat, c))

next_global_skill_version(c) == NextVersion(GlobalSkill(c))
next_app_skill_version(a, c) == NextVersion(AppSkill(a, c))
next_repo_skill_version(pat, c) == NextVersion(RepoSkill(pat, c))

publish_global_skill(p, c, b) == Publish(p, GlobalSkill(c), b)
publish_app_skill(p, a, c, b) == Publish(p, AppSkill(a, c), b)
publish_repo_skill(p, pat, c, b) == Publish(p, RepoSkill(pat, c), b)

\* Best effort: IndexSteps end well for a publisher, whatever happens.
try_index_skill(p) == call[p] # NoCall /\ call[p].stream.kind = "skill" /\ IndexSteps(p)

delete_global_skill_version(p, c, v) == DeleteCounted(p, GlobalSkill(c), v)
delete_app_skill_version(p, a, c, v) ==
    DeleteRows(p, {r \in RowsOf(AppSkill(a, c)) : r.version = v})
delete_repo_skill_version(p, pat, c, v) == DeleteCounted(p, RepoSkill(pat, c), v)

delete_global_skill_section(p, c) == DeleteRows(p, RowsOf(GlobalSkill(c)))
delete_app_skill_section(p, a, c) == DeleteRows(p, RowsOf(AppSkill(a, c)))
delete_repo_skill_section(p, pat, c) == DeleteRows(p, RowsOf(RepoSkill(pat, c)))

delete_app_skill_stream(p, a) == DeleteRows(p, RowsOwnedBy("skill", "app", a))
delete_repo_skill_stream(p, pat) == DeleteRows(p, RowsOwnedBy("skill", "repo", pat))

list_distinct_apps_with_skills == OwnersWithRows("skill", "app")
list_distinct_repo_patterns_with_skills == OwnersWithRows("skill", "repo")
repo_skill_pat_href_segment(pat) == IF pat = Default THEN DefaultSegment ELSE pat
repo_skill_pattern_from_url_segment(seg) == IF seg = DefaultSegment THEN Default ELSE seg

\* The texts an agent saves: everything global, the patterns its origin URL
\* contains and the default one, its app.
get_skills_markdown(a, matched) ==
    global_skill_all_sections_latest
        \cup (UNION {repo_skill_all_sections_latest(pat) :
                     pat \in (matched \cup {Default}) \cap list_distinct_repo_patterns_with_skills})
        \cup app_skill_all_sections_latest(a)

-----------------------------------------------------------------------------
(* tools/skill_tools.py *)

publish_global_skill_tool(p) ==
    \E c \in Categories, b \in Bodies : publish_global_skill(p, c, b)
publish_app_skill_tool(p) ==
    \E a \in Apps, c \in Categories, b \in Bodies : publish_app_skill(p, a, c, b)
publish_repo_skill_tool(p) ==
    \E pat \in Patterns, c \in Categories, b \in Bodies : publish_repo_skill(p, pat, c, b)

\* The sections of a scope; for patterns, of those that match, else the default.
list_skill_sections(scope, a, matched) ==
    CASE scope = "app" -> list_sections_for_app_skill(a)
      [] scope = "repo" ->
           LET pats == list_distinct_repo_patterns_with_skills \cap (matched \ {Default})
           IN  UNION {list_sections_for_repo_skill(pat) :
                      pat \in IF pats = {} THEN {Default} ELSE pats}
      [] scope = "global" -> list_sections_for_global_skill

SkillTools(p) ==
    \/ publish_global_skill_tool(p)
    \/ publish_app_skill_tool(p)
    \/ publish_repo_skill_tool(p)

-----------------------------------------------------------------------------
(* routers/admin_skills.py: global *)

global_skills_board == global_skill_all_sections_latest
global_skill_category_new_form == list_sections_for_global_skill
global_skill_category_board(c) == VersionPage(GlobalSkill(c))
global_skill_category_publish_form(c) ==
    [next |-> next_global_skill_version(c), prefill |-> global_skill_latest(c)]
global_skill_version_view(c, v) ==
    [rows |-> {r \in RowsOf(GlobalSkill(c)) : r.version = v},
     offersDeletion |-> Cardinality(RowsOf(GlobalSkill(c))) > (IF c = Main THEN 1 ELSE 0)]

global_skill_category_new_submit(p) ==
    \E c \in Categories \ list_sections_for_global_skill, b \in Bodies :
        publish_global_skill(p, c, b)
global_skill_category_delete(p) ==
    \E c \in PageSections \ {Main} : delete_global_skill_section(p, c)
global_skill_category_publish_submit(p) ==
    \E c \in PageSections, b \in Bodies : publish_global_skill(p, c, b)
global_skill_save_as_new(p) ==
    \E c \in PageSections, b \in Bodies : publish_global_skill(p, c, b)
global_skill_version_delete(p) ==
    \E c \in PageSections, v \in 1 .. MaxRows :
        \/ CountVersions(p, GlobalSkill(c), v)
        \/ delete_global_skill_version(p, c, v)

(* app *)

app_skills_cards ==
    {[name |-> a, latest |-> {r.version : r \in RowsOwnedBy("skill", "app", a)}] :
     a \in list_distinct_apps_with_skills}
app_skill_board(a) == app_skill_all_sections_latest(a)
app_skill_category_new_form(a) == list_sections_for_app_skill(a)
app_skill_category_board(a, c) == VersionPage(AppSkill(a, c))
app_skill_category_publish_form(a, c) ==
    [next |-> next_app_skill_version(a, c), prefill |-> app_skill_latest(a, c)]
app_skill_version_view(a, c, v) ==
    [rows |-> {r \in RowsOf(AppSkill(a, c)) : r.version = v},
     offersDeletion |-> RowsOf(AppSkill(a, c)) # {}]

new_app_skill_submit(p) ==
    \E a \in Apps \ list_distinct_apps_with_skills, b \in Bodies :
        publish_app_skill(p, a, Main, b)
app_skill_delete_stream(p) == \E a \in PageApps : delete_app_skill_stream(p, a)
app_skill_category_new_submit(p) ==
    \E a \in PageApps, b \in Bodies : \E c \in Categories \ list_sections_for_app_skill(a) :
        publish_app_skill(p, a, c, b)
app_skill_category_delete(p) ==
    \E a \in PageApps, c \in PageSections \ {Main} : delete_app_skill_section(p, a, c)
app_skill_category_publish_submit(p) ==
    \E a \in PageApps, c \in PageSections, b \in Bodies : publish_app_skill(p, a, c, b)
app_skill_save_as_new(p) ==
    \E a \in PageApps, c \in PageSections, b \in Bodies : publish_app_skill(p, a, c, b)
app_skill_version_delete(p) ==
    \E a \in PageApps, c \in PageSections, v \in 1 .. MaxRows :
        delete_app_skill_version(p, a, c, v)

(* repository; a page takes the pattern from a segment of its address *)

SkillPatterns == {repo_skill_pattern_from_url_segment(seg) : seg \in Segments}

repo_skills_cards ==
    {[pattern |-> pat, segment |-> repo_skill_pat_href_segment(pat),
      latest |-> {r.version : r \in RowsOwnedBy("skill", "repo", pat)}] :
     pat \in list_distinct_repo_patterns_with_skills}
repo_skill_board(seg) == repo_skill_all_sections_latest(repo_skill_pattern_from_url_segment(seg))
repo_skill_category_new_form(seg) ==
    list_sections_for_repo_skill(repo_skill_pattern_from_url_segment(seg))
repo_skill_category_board(seg, c) ==
    VersionPage(RepoSkill(repo_skill_pattern_from_url_segment(seg), c))
repo_skill_category_publish_form(seg, c) ==
    LET pat == repo_skill_pattern_from_url_segment(seg)
    IN  [next |-> next_repo_skill_version(pat, c), prefill |-> repo_skill_latest(pat, c)]
repo_skill_version_view(seg, c, v) ==
    LET s == RepoSkill(repo_skill_pattern_from_url_segment(seg), c)
    IN  [rows |-> {r \in RowsOf(s) : r.version = v},
         offersDeletion |-> Cardinality(RowsOf(s)) > (IF Protected(s) THEN 1 ELSE 0)]

new_repo_skill_submit(p) ==
    \E pat \in Patterns \ list_distinct_repo_patterns_with_skills, b \in Bodies :
        publish_repo_skill(p, pat, Main, b)
repo_skill_delete_stream(p) ==
    \E pat \in SkillPatterns \ {Default} : delete_repo_skill_stream(p, pat)
repo_skill_category_new_submit(p) ==
    \E pat \in SkillPatterns, b \in Bodies :
        \E c \in Categories \ list_sections_for_repo_skill(pat) : publish_repo_skill(p, pat, c, b)
repo_skill_category_delete(p) ==
    \E pat \in SkillPatterns, c \in PageSections \ {Main} : delete_repo_skill_section(p, pat, c)
repo_skill_category_publish_submit(p) ==
    \E pat \in SkillPatterns, c \in PageSections, b \in Bodies : publish_repo_skill(p, pat, c, b)
repo_skill_save_as_new(p) ==
    \E pat \in SkillPatterns, c \in PageSections, b \in Bodies : publish_repo_skill(p, pat, c, b)
repo_skill_version_delete(p) ==
    \E pat \in SkillPatterns, c \in PageSections, v \in 1 .. MaxRows :
        \/ CountVersions(p, RepoSkill(pat, c), v)
        \/ delete_repo_skill_version(p, pat, c, v)

SkillPages(p) ==
    \/ global_skill_category_new_submit(p)
    \/ global_skill_category_delete(p)
    \/ global_skill_category_publish_submit(p)
    \/ global_skill_save_as_new(p)
    \/ global_skill_version_delete(p)
    \/ new_app_skill_submit(p)
    \/ app_skill_delete_stream(p)
    \/ app_skill_category_new_submit(p)
    \/ app_skill_category_delete(p)
    \/ app_skill_category_publish_submit(p)
    \/ app_skill_save_as_new(p)
    \/ app_skill_version_delete(p)
    \/ new_repo_skill_submit(p)
    \/ repo_skill_delete_stream(p)
    \/ repo_skill_category_new_submit(p)
    \/ repo_skill_category_delete(p)
    \/ repo_skill_category_publish_submit(p)
    \/ repo_skill_save_as_new(p)
    \/ repo_skill_version_delete(p)

\* The pages that show a row.
SkillViews(r) ==
    LET c == r.stream.section
        seg == repo_skill_pat_href_segment(r.stream.owner)
    IN  CASE r.stream.scope = "global" ->
               {global_skill_category_board(c), global_skill_version_view(c, r.version)}
          [] r.stream.scope = "app" ->
               {app_skill_category_board(r.stream.owner, c),
                app_skill_version_view(r.stream.owner, c, r.version)}
          [] r.stream.scope = "repo" ->
               {repo_skill_category_board(seg, c), repo_skill_version_view(seg, c, r.version)}

\* A version is below the number its publish form announces, the text that
\* form starts from is what agents are given, and the form of a new section
\* and the list for agents know the section.
SkillFormsAgree(r) ==
    LET c == r.stream.section
        o == r.stream.owner
        seg == repo_skill_pat_href_segment(o)
        form ==
          CASE r.stream.scope = "global" -> global_skill_category_publish_form(c)
            [] r.stream.scope = "app" -> app_skill_category_publish_form(o, c)
            [] r.stream.scope = "repo" -> repo_skill_category_publish_form(seg, c)
        sections ==
          CASE r.stream.scope = "global" -> global_skill_category_new_form
            [] r.stream.scope = "app" -> app_skill_category_new_form(o)
            [] r.stream.scope = "repo" -> repo_skill_category_new_form(seg)
    IN  /\ \E n \in form.next : r.version < n
        /\ form.prefill \subseteq get_skills_markdown(o, {o})
        /\ c \in sections \cap list_skill_sections(r.stream.scope, o, {o})

\* A browser gets to the row from the first page, link by link.
SkillReached(r) ==
    CASE r.stream.scope = "global" ->
           \E q \in SectionLinks(global_skills_board) :
               r \in global_skill_category_board(q.stream.section).rows
      [] r.stream.scope = "app" ->
           \E card \in {x \in app_skills_cards : x.name \in PageApps} :
               \E q \in SectionLinks(app_skill_board(card.name)) :
                   r \in app_skill_category_board(card.name, q.stream.section).rows
      [] r.stream.scope = "repo" ->
           \E card \in {x \in repo_skills_cards : x.segment \in Segments} :
               \E q \in SectionLinks(repo_skill_board(card.segment)) :
                   r \in repo_skill_category_board(card.segment, q.stream.section).rows
=============================================================================
