----------------------------- MODULE RuleServing -----------------------------
(***************************************************************************)
(* What agents are given of the rules: get_rules_markdown, which reads the *)
(* tables statement by statement and keeps its answers in a cache, the     *)
(* invalidation after a publish (services/rule_cache.py), and the version  *)
(* numbers by which an agent decides to fetch again.                       *)
(*                                                                         *)
(* Publishing is one commit here; RuleStore shows how it gets its number.  *)
(***************************************************************************)
EXTENDS Naturals, FiniteSets

CONSTANTS
    Apps,       \* app names
    DefaultApp, \* "__default__"
    Patterns,   \* repository patterns
    Default,    \* the pattern ""
    Sections,   \* section names
    Main,       \* the section "main"
    NoApp,      \* a request without app name; the owner of the global rules
    AllApps,    \* the option for apps without one of their own
    Origins,    \* origin URLs of agents
    ServerGit,  \* the lack of one: the server asks its own repository
    Contains,   \* Contains[o]: the patterns that occur in the URL
    Rank,       \* Rank[pat]: sort order of the patterns
    Met,        \* Met[a]: the apps whose keys the glob made of the name a matches
    Scenes,     \* [streams, request, legacy] looked at together
    Agents,     \* agents that keep a copy of the rules
    Writers,    \* sessions that publish
    Admins,     \* sessions that delete and set options
    Nothing,    \* no answer, no request
    MaxWrites   \* bound: publishes, deletions and changes of options

ASSUME NamesAssumption ==
    /\ DefaultApp \in Apps /\ Default \in Patterns /\ Main \in Sections
    /\ NoApp \notin Apps /\ AllApps \notin Apps \cup Patterns
    /\ ServerGit \in Origins
    /\ Contains \in [Origins -> SUBSET (Patterns \ {Default})]
    /\ Rank \in [Patterns -> Nat]
    /\ \A p, q \in Patterns : Rank[p] = Rank[q] => p = q
    /\ Met \in [Apps -> SUBSET (Apps \cup {NoApp})]
    /\ MaxWrites \in Nat

Stream(scope, owner, section) == [scope |-> scope, owner |-> owner, section |-> section]

Streams ==
    {Stream("global", NoApp, c) : c \in Sections}
        \cup {Stream("app", a, c) : a \in Apps, c \in Sections}
        \cup {Stream("repo", pat, c) : pat \in Patterns, c \in Sections}

\* version 0: the latest.
Request == [app : Apps \cup {NoApp}, origin : Origins, version : Nat]

ASSUME ScenesAssumption ==
    \A sc \in Scenes :
        sc.streams \subseteq Streams /\ sc.request \in Request /\ sc.legacy \in BOOLEAN

\* A text is known by its row.
Row == [id : Nat, stream : Streams, version : Nat]

Layers == {"global", "repo", "repoDefault", "app", "appDefault"}
Flags == {"repo", "app"}

Answer == [rows : [Layers -> SUBSET Row], merged : [Flags -> BOOLEAN]]

EmptyAnswer == [rows |-> [l \in Layers |-> {}], merged |-> [f \in Flags |-> FALSE]]

Options == {"unset", "on", "off"}

VARIABLES
    scene,  \* what this behaviour is about
    rows,   \* rule rows
    given,  \* every row there ever was
    option, \* option[o]: merge the default stream into the answers about o
    cache,  \* cache[k]: the answer kept for a request
    fetch,  \* fetch[a]: how far the request of an agent is
    saved,  \* saved[a]: the answer an agent keeps
    writer, \* writer[p]: the stream published, until its invalidation
    writes  \* how much was written

vars == <<scene, rows, given, option, cache, fetch, saved, writer, writes>>

Keys == {sc.request : sc \in Scenes}

-----------------------------------------------------------------------------
(* Reading the tables *)

RowsOf(s) == {r \in rows : r.stream = s}

Latest(s) == {r \in RowsOf(s) : \A q \in RowsOf(s) : q.version <= r.version}

LatestOfAllSections(scope, owner) == UNION {Latest(Stream(scope, owner, c)) : c \in Sections}

global_all_sections_latest == LatestOfAllSections("global", NoApp)
app_all_sections_latest(a) == LatestOfAllSections("app", a)
repo_all_sections_latest_for_pattern(pat) == LatestOfAllSections("repo", pat)

\* The pattern of the answer: the first in order that has a main section and
\* occurs in the URL, else "", if that has one.
WithMain == {pat \in Patterns : RowsOf(Stream("repo", pat, Main)) # {}}

resolve_repo_row(origin) ==
    LET found == WithMain \cap Contains[origin]
    IN  IF found # {} THEN {pat \in found : \A q \in found : Rank[pat] <= Rank[q]}
        ELSE WithMain \cap {Default}

\* The flag of old, which no page writes any more: it stands for the option of
\* a pattern that has none.
get_mcp_include_repo_default == scene.legacy

get_mcp_include_repo_default_for_pattern(pats) ==
    LET pat == IF pats = {} THEN Default ELSE CHOOSE q \in pats : TRUE
    IN  IF option[pat] = "unset" THEN get_mcp_include_repo_default ELSE option[pat] = "on"

get_mcp_include_app_default_for_app(a) ==
    a # DefaultApp /\ option[IF option[a] = "unset" THEN AllApps ELSE a] = "on"

\* A cached answer must not depend on where the server runs.
Cacheable(k) == k.app = NoApp \/ k.origin # ServerGit

-----------------------------------------------------------------------------
(* check_rule_versions *)

\* Mutant: only the fields of the main section, as there were before sections.
NumbersOfMain(R) ==
    {[stream |-> r.stream, version |-> r.version] : r \in {q \in R : q.stream.section = Main}}

Numbers(R) == {[stream |-> r.stream, version |-> r.version] : r \in R}

\* The first row of a list: main, if it is there.
First(R) ==
    LET main == {r \in R : r.stream.section = Main}
    IN  IF main = {} THEN CHOOSE r \in R : TRUE ELSE CHOOSE r \in main : TRUE

\* Mutant: the sections of the app alone, for apps without rows, too.
AppSectionsOfName(a) == app_all_sections_latest(a)

AppSections(a) ==
    IF app_all_sections_latest(a) # {} THEN app_all_sections_latest(a)
    ELSE app_all_sections_latest(DefaultApp)

get_rule_version_snapshot(k) ==
    LET pats == IF k.app = NoApp THEN {} ELSE resolve_repo_row(k.origin)
        default == repo_all_sections_latest_for_pattern(Default)
        merge == get_mcp_include_repo_default_for_pattern(pats)
        ofApp ==
          IF k.app = NoApp THEN {}
          ELSE AppSections(k.app)
                 \cup UNION {repo_all_sections_latest_for_pattern(pat) : pat \in pats}
    IN  [numbers |-> Numbers(global_all_sections_latest \cup ofApp),
         merged |-> [f \in Flags |->
                       IF f = "repo" THEN merge
                       ELSE k.app # NoApp /\ get_mcp_include_app_default_for_app(k.app)],
         repoDefault |-> IF merge /\ default # {} THEN First(default).version ELSE 0]

\* What an agent compares: the rule_meta line of its copy with the snapshot.
UpToDate(k, answer) ==
    LET snap == get_rule_version_snapshot(k)
    IN  /\ answer # Nothing
        /\ snap.numbers = Numbers(UNION {answer.rows[l] : l \in {"global", "repo", "app"}})
        /\ k.app = NoApp \/ snap.merged = answer.merged

-----------------------------------------------------------------------------
(* get_global_rule: a request is read in several statements *)

Fetch == [step : {"lookup", "global", "pattern", "repo", "options", "repoDefault",
                  "appMeta", "appOption", "app", "appDefault", "store"},
          pattern : SUBSET Patterns, merge : BOOLEAN, answer : Answer]

AtStep(a, step) == fetch[a] # Nothing /\ fetch[a].step = step
Key == scene.request

Tables == <<rows, given, option>>

\* Reads "R" into a layer and goes on with another step.
Read(a, layer, R, step) ==
    /\ fetch' = [fetch EXCEPT ![a].step = step, ![a].answer.rows[layer] = R]
    /\ UNCHANGED <<scene, Tables, cache, saved, writer, writes>>

\* The statements of the tool are one step: an agent compares the numbers of
\* one moment.
check_rule_versions(a) ==
    /\ fetch[a] = Nothing
    /\ ~UpToDate(Key, saved[a])
    /\ fetch' = [fetch EXCEPT ![a] =
                   [step |-> "lookup", pattern |-> {}, merge |-> FALSE, answer |-> EmptyAnswer]]
    /\ UNCHANGED <<scene, Tables, cache, saved, writer, writes>>

CacheHit(a) ==
    /\ AtStep(a, "lookup") /\ Cacheable(Key) /\ cache[Key] # Nothing
    /\ saved' = [saved EXCEPT ![a] = cache[Key]]
    /\ fetch' = [fetch EXCEPT ![a] = Nothing]
    /\ UNCHANGED <<scene, Tables, cache, writer, writes>>

\* No entry, or a cache that does not answer.
CacheMiss(a) ==
    /\ AtStep(a, "lookup")
    /\ fetch' = [fetch EXCEPT ![a].step = "global"]
    /\ UNCHANGED <<scene, Tables, cache, saved, writer, writes>>

ReadGlobal(a) ==
    /\ AtStep(a, "global")
    /\ Read(a, "global", global_all_sections_latest,
            IF Key.app = NoApp THEN "store" ELSE "pattern")

ResolvePattern(a) ==
    /\ AtStep(a, "pattern")
    /\ fetch' = [fetch EXCEPT ![a].step = "repo", ![a].pattern = resolve_repo_row(Key.origin)]
    /\ UNCHANGED <<scene, Tables, cache, saved, writer, writes>>

ReadRepo(a) ==
    /\ AtStep(a, "repo")
    /\ Read(a, "repo",
            UNION {repo_all_sections_latest_for_pattern(pat) : pat \in fetch[a].pattern},
            "options")

\* Notes an option in the answer and goes on with another step.
ReadOption(a, flag, on, step) ==
    /\ fetch' = [fetch EXCEPT ![a].step = step, ![a].answer.merged[flag] = on]
    /\ UNCHANGED <<scene, Tables, cache, saved, writer, writes>>

ReadRepoOption(a) ==
    /\ AtStep(a, "options")
    /\ ReadOption(a, "repo", get_mcp_include_repo_default_for_pattern(fetch[a].pattern),
                  "appMeta")

ReadAppMeta(a) ==
    /\ AtStep(a, "appMeta")
    /\ ReadOption(a, "app", get_mcp_include_app_default_for_app(Key.app), "repoDefault")

ReadRepoDefault(a) ==
    /\ AtStep(a, "repoDefault")
    /\ Read(a, "repoDefault",
            IF fetch[a].answer.merged["repo"]
            THEN repo_all_sections_latest_for_pattern(Default) \ fetch[a].answer.rows["repo"]
            ELSE {}, "appOption")

\* A second time.
ReadAppOption(a) ==
    /\ AtStep(a, "appOption")
    /\ fetch' = [fetch EXCEPT ![a].step = "app",
                             ![a].merge = get_mcp_include_app_default_for_app(Key.app)]
    /\ UNCHANGED <<scene, Tables, cache, saved, writer, writes>>

ReadApp(a) ==
    /\ AtStep(a, "app")
    /\ Read(a, "app", app_all_sections_latest(Key.app), "appDefault")

\* Without the option, the default app stands in for an app that has no rows.
ReadAppDefault(a) ==
    LET merge == fetch[a].merge
        read == fetch[a].answer.rows["app"]
        default == app_all_sections_latest(DefaultApp)
    IN  /\ AtStep(a, "appDefault")
        /\ Read(a, IF merge THEN "appDefault" ELSE "app",
                CASE merge -> default \ read
                  [] ~merge /\ read = {} -> default
                  [] OTHER -> read, "store")

\* Ends with the answer in the cache, unless that does not answer.
Store(a) ==
    /\ AtStep(a, "store")
    /\ cache' \in {cache} \cup
           {[cache EXCEPT ![k] = fetch[a].answer] : k \in {Key} \cap {k \in Keys : Cacheable(k)}}
    /\ saved' = [saved EXCEPT ![a] = fetch[a].answer]
    /\ fetch' = [fetch EXCEPT ![a] = Nothing]
    /\ UNCHANGED <<scene, Tables, writer, writes>>

\* Mutant: an entry without time to live.
ExpireNever(k) == FALSE /\ UNCHANGED vars

\* After 300 seconds.
Expire(k) ==
    /\ cache[k] # Nothing
    /\ cache' = [cache EXCEPT ![k] = Nothing]
    /\ UNCHANGED <<scene, Tables, fetch, saved, writer, writes>>

get_rules_markdown(a) ==
    \/ CacheHit(a)
    \/ CacheMiss(a)
    \/ ReadGlobal(a)
    \/ ResolvePattern(a)
    \/ ReadRepo(a)
    \/ ReadRepoOption(a)
    \/ ReadAppMeta(a)
    \/ ReadRepoDefault(a)
    \/ ReadAppOption(a)
    \/ ReadApp(a)
    \/ ReadAppDefault(a)
    \/ Store(a)

-----------------------------------------------------------------------------
(* Publishing *)

\* max + 1, 1 for an empty stream.
NextVersion(s) ==
    {n \in {r.version + 1 : r \in RowsOf(s)} \cup {1} : \A r \in RowsOf(s) : r.version < n}

\* The first publish of a pattern stores its option: the flag of old.
Publish(p, s) ==
    /\ writer[p] = Nothing /\ s \in scene.streams /\ writes < MaxWrites
    /\ \E n \in NextVersion(s) :
          LET row == [id |-> writes, stream |-> s, version |-> n]
          IN  rows' = rows \cup {row} /\ given' = given \cup {row}
    /\ option' = IF s.scope = "repo" /\ option[s.owner] = "unset"
                 THEN [option EXCEPT ![s.owner] =
                         IF get_mcp_include_repo_default THEN "on" ELSE "off"]
                 ELSE option
    /\ writer' = [writer EXCEPT ![p] = s]
    /\ writes' = writes + 1
    /\ UNCHANGED <<scene, cache, fetch, saved>>

publish_global(p, c) == Publish(p, Stream("global", NoApp, c))
publish_app(p, a, c) == Publish(p, Stream("app", a, c))
publish_repo(p, pat, c) == Publish(p, Stream("repo", pat, c))

\* Mutant: the default app taken for an app like the others.
InvalidatedByName(s) == {k \in Keys : s.scope = "app" => k.app = s.owner}

\* The keys that the glob of a publish matches: "*", or the name of the app
\* and ":*", where the name is taken as it is.
Invalidated(s) ==
    {k \in Keys : s.scope = "app" /\ s.owner # DefaultApp => k.app \in Met[s.owner]}

invalidate_rule(p) ==
    /\ writer[p] # Nothing
    /\ cache' = [k \in Keys |-> IF k \in Invalidated(writer[p]) THEN Nothing ELSE cache[k]]
    /\ writer' = [writer EXCEPT ![p] = Nothing]
    /\ UNCHANGED <<scene, Tables, fetch, saved, writes>>

\* Redis fails half-way, or the process dies after the commit.
InvalidateFail(p) ==
    /\ writer[p] # Nothing
    /\ \E K \in SUBSET Invalidated(writer[p]) :
          cache' = [k \in Keys |-> IF k \in K THEN Nothing ELSE cache[k]]
    /\ writer' = [writer EXCEPT ![p] = Nothing]
    /\ UNCHANGED <<scene, Tables, fetch, saved, writes>>

-----------------------------------------------------------------------------
(* Admin pages: they leave the cache as it is *)

Protected(s) == s.section = Main /\ s.owner \in {NoApp, DefaultApp, Default}

DeleteRows(R) ==
    /\ R # {} /\ writes < MaxWrites
    /\ rows' = rows \ R
    /\ writes' = writes + 1
    /\ UNCHANGED <<scene, given, option, cache, fetch, saved, writer>>

version_delete(s, v) ==
    /\ Protected(s) => Cardinality(RowsOf(s)) > 1
    /\ DeleteRows({r \in RowsOf(s) : r.version = v})

category_delete(s) == s.section # Main /\ DeleteRows(RowsOf(s))

delete_stream(scope, owner) ==
    /\ owner \notin {NoApp, DefaultApp, Default}
    /\ DeleteRows({r \in rows : r.stream.scope = scope /\ r.stream.owner = owner})

SetOption(owner, on) ==
    /\ writes < MaxWrites
    /\ option' = [option EXCEPT ![owner] = IF on THEN "on" ELSE "off"]
    /\ writes' = writes + 1
    /\ UNCHANGED <<scene, rows, given, cache, fetch, saved, writer>>

global_mcp_app_default_toggle == SetOption(AllApps, option[AllApps] # "on")

app_rule_pull_default_toggle(a) ==
    /\ a # DefaultApp
    /\ \E r \in rows : r.stream.scope = "app" /\ r.stream.owner = a
    /\ SetOption(a, ~get_mcp_include_app_default_for_app(a))

repo_pattern_include_repo_default_toggle(pat) ==
    /\ \E r \in rows : r.stream.scope = "repo" /\ r.stream.owner = pat
    /\ SetOption(pat, ~get_mcp_include_repo_default_for_pattern({pat}))

-----------------------------------------------------------------------------
Init ==
    /\ scene \in Scenes
    /\ rows = {} /\ given = {}
    /\ option = [o \in Apps \cup Patterns \cup {AllApps} |-> "unset"]
    /\ cache = [k \in Keys |-> Nothing]
    /\ fetch = [a \in Agents |-> Nothing]
    /\ saved = [a \in Agents |-> Nothing]
    /\ writer = [p \in Writers |-> Nothing]
    /\ writes = 0

Tools(p) ==
    \/ \E c \in Sections : publish_global(p, c)
    \/ \E a \in Apps, c \in Sections : publish_app(p, a, c)
    \/ \E pat \in Patterns, c \in Sections : publish_repo(p, pat, c)
    \/ invalidate_rule(p)
    \/ InvalidateFail(p)

Pages ==
    \/ \E s \in scene.streams : \E r \in RowsOf(s) : version_delete(s, r.version)
    \/ \E s \in scene.streams : category_delete(s)
    \/ \E a \in Apps : delete_stream("app", a)
    \/ \E pat \in Patterns : delete_stream("repo", pat)
    \/ global_mcp_app_default_toggle
    \/ \E a \in Apps : app_rule_pull_default_toggle(a)
    \/ \E pat \in Patterns : repo_pattern_include_repo_default_toggle(pat)

Next ==
    \/ \E a \in Agents : check_rule_versions(a)
    \/ \E a \in Agents : get_rules_markdown(a)
    \/ \E k \in Keys : Expire(k)
    \/ \E p \in Writers : Tools(p)
    \/ Admins # {} /\ Pages

\* Requests run to their end, agents go on comparing, and Redis drops what
\* has lived its time.
Fairness ==
    /\ \A a \in Agents : WF_vars(get_rules_markdown(a)) /\ WF_vars(check_rule_versions(a))
    /\ \A k \in Keys : WF_vars(Expire(k))

Spec == Init /\ [][Next]_vars /\ Fairness
-----------------------------------------------------------------------------
(* Properties *)

\* Every variable has its type.
TypeOK ==
    /\ scene \in Scenes
    /\ rows \subseteq given /\ given \subseteq Row
    /\ option \in [Apps \cup Patterns \cup {AllApps} -> Options]
    /\ cache \in [Keys -> Answer \cup {Nothing}]
    /\ fetch \in [Agents -> Fetch \cup {Nothing}]
    /\ saved \in [Agents -> Answer \cup {Nothing}]
    /\ writer \in [Writers -> Streams \cup {Nothing}]
    /\ writes \in 0 .. MaxWrites

\* What get_rules_markdown would answer if nothing happened meanwhile.
Bundle(k) ==
    LET pats == IF k.app = NoApp THEN {} ELSE resolve_repo_row(k.origin)
        ofRepo == UNION {repo_all_sections_latest_for_pattern(pat) : pat \in pats}
        ofApp == IF k.app = NoApp THEN {} ELSE app_all_sections_latest(k.app)
        default == app_all_sections_latest(DefaultApp)
        mergeRepo == k.app # NoApp /\ get_mcp_include_repo_default_for_pattern(pats)
        mergeApp == k.app # NoApp /\ get_mcp_include_app_default_for_app(k.app)
    IN  [l \in Layers |->
           CASE l = "global" -> global_all_sections_latest
             [] l = "repo" -> ofRepo
             [] l = "repoDefault" ->
                  IF mergeRepo THEN repo_all_sections_latest_for_pattern(Default) \ ofRepo ELSE {}
             [] l = "app" ->
                  IF k.app # NoApp /\ ofApp = {} /\ ~mergeApp THEN default ELSE ofApp
             [] l = "appDefault" -> IF mergeApp THEN default \ ofApp ELSE {}]

OwnLayers == {"global", "repo", "app"}

RowsIn(texts, s) == {r \in UNION {texts[l] : l \in Layers} : r.stream = s}

\* The glob made of the name meets the keys of the name, as it does unless the
\* name has one of [ * ? \ in it: nothing keeps those out, or escapes them.
MeetsItself(s) == s.scope = "app" => s.owner \in Met[s.owner]

\* Once a publish has flushed its keys, no answer that is left in the cache
\* shows the stream otherwise than the tables do: the glob of publish_app
\* finds every answer the app is in, also by fallback or merge, if it finds
\* the keys of the app itself.
InvalidationReachesEveryAnswer ==
    [][\A p \in Writers :
          invalidate_rule(p) /\ MeetsItself(writer[p]) =>
            \A k \in Keys : cache'[k] # Nothing =>
                RowsIn(cache'[k].rows, writer[p]) = RowsIn(Bundle(k)', writer[p])]_vars

\* Whatever a step changes of the answer to a request, check_rule_versions
\* answers something else afterwards: two functions that resolve patterns,
\* fallbacks and sections on their own.  Default streams that an option
\* merges are left out.
SnapshotTellsOfEveryChange ==
    [][\A k \in Keys :
          (\E l \in OwnLayers : Bundle(k)'[l] # Bundle(k)[l]) =>
              get_rule_version_snapshot(k)' # get_rule_version_snapshot(k)]_vars

\* A stale answer does not stay in the cache: neither one that was stored
\* after an invalidation, nor one that outlived a failed invalidation, a
\* deletion or a change of an option.
CacheCatchesUp ==
    <>[](\A k \in Keys : cache[k] # Nothing => cache[k].rows = Bundle(k))

NumberGivenTwice ==
    \E r, q \in given : r # q /\ r.stream = q.stream /\ r.version = q.version

\* An agent that fetches whenever the numbers differ ends with the current
\* texts, through stale answers and mixed ones, unless a number was given to
\* two texts: the one that was deleted, and the one published after it.
AgentsCatchUp ==
    \/ <>NumberGivenTwice
    \/ <>[](\A a \in Agents : fetch[a] = Nothing =>
             \A l \in OwnLayers : saved[a] # Nothing /\ saved[a].rows[l] = Bundle(Key)[l])
=============================================================================
