-------------------------- MODULE RuleServing_proofs --------------------------
(***************************************************************************)
(* Proofs about RuleServing, for every set of apps, patterns, sections and *)
(* sessions.                                                               *)
(***************************************************************************)
EXTENDS RuleServing, TLAPS

-----------------------------------------------------------------------------
(* Types *)

LEMMA KeyIsKey == TypeOK => Key \in Keys
  BY DEF TypeOK, Key, Keys

LEMMA FetchFields ==
  ASSUME TypeOK, NEW a \in Agents, fetch[a] # Nothing
  PROVE  fetch[a] \in Fetch
  BY DEF TypeOK

LEMMA LatestIsRows ==
  ASSUME NEW scope, NEW owner
  PROVE  LatestOfAllSections(scope, owner) \subseteq rows
  BY DEF LatestOfAllSections, Latest, RowsOf

LEMMA AnswerOf ==
  ASSUME NEW f \in Fetch, NEW l \in Layers, NEW R \in SUBSET Row, NEW step,
         step \in {"lookup", "global", "pattern", "repo", "options", "repoDefault",
                   "appMeta", "appOption", "app", "appDefault", "store"}
  PROVE  [f EXCEPT !.step = step, !.answer.rows[l] = R] \in Fetch
  BY DEF Fetch, Answer

LEMMA ReadKeepsTypes ==
  ASSUME TypeOK, NEW a \in Agents, fetch[a] # Nothing,
         NEW l \in Layers, NEW R \in SUBSET Row, NEW step,
         step \in {"lookup", "global", "pattern", "repo", "options", "repoDefault",
                   "appMeta", "appOption", "app", "appDefault", "store"},
         Read(a, l, R, step)
  PROVE  TypeOK'
<1>1. fetch[a] \in Fetch
  BY FetchFields
<1>2. [fetch[a] EXCEPT !.step = step, !.answer.rows[l] = R] \in Fetch
  BY <1>1, AnswerOf
<1>3. fetch' = [fetch EXCEPT ![a] = [fetch[a] EXCEPT !.step = step, !.answer.rows[l] = R]]
  BY DEF Read, TypeOK
<1>4. fetch' \in [Agents -> Fetch \cup {Nothing}]
  BY <1>2, <1>3 DEF TypeOK
<1> QED
  BY <1>4 DEF Read, Tables, TypeOK

LEMMA StepToGlobal ==
  ASSUME NEW f \in Fetch
  PROVE  [f EXCEPT !.step = "global"] \in Fetch
  BY DEF Fetch

LEMMA StepToRepo ==
  ASSUME NEW f \in Fetch, NEW P \in SUBSET Patterns
  PROVE  [f EXCEPT !.step = "repo", !.pattern = P] \in Fetch
  BY DEF Fetch

LEMMA OptionNoted ==
  ASSUME NEW f \in Fetch, NEW flag \in Flags, NEW on \in BOOLEAN, NEW step,
         step \in {"appMeta", "repoDefault"}
  PROVE  [f EXCEPT !.step = step, !.answer.merged[flag] = on] \in Fetch
  BY DEF Fetch, Answer

LEMMA ReadOptionKeepsTypes ==
  ASSUME TypeOK, NEW a \in Agents, fetch[a] # Nothing,
         NEW flag \in Flags, NEW on \in BOOLEAN, NEW step,
         step \in {"appMeta", "repoDefault"},
         ReadOption(a, flag, on, step)
  PROVE  TypeOK'
<1>1. fetch[a] \in Fetch
  BY FetchFields
<1>2. [fetch[a] EXCEPT !.step = step, !.answer.merged[flag] = on] \in Fetch
  BY <1>1, OptionNoted
<1>3. fetch' = [fetch EXCEPT ![a] = [fetch[a] EXCEPT !.step = step, !.answer.merged[flag] = on]]
  BY DEF ReadOption, TypeOK
<1>4. fetch' \in [Agents -> Fetch \cup {Nothing}]
  BY <1>2, <1>3 DEF TypeOK
<1> QED
  BY <1>4 DEF ReadOption, Tables, TypeOK

LEMMA StepToApp ==
  ASSUME NEW f \in Fetch, NEW b \in BOOLEAN
  PROVE  [f EXCEPT !.step = "app", !.merge = b] \in Fetch
  BY DEF Fetch

\* A request of an agent keeps the types, statement by statement.
LEMMA GetKeepsTypes ==
  ASSUME TypeOK, NEW a \in Agents, get_rules_markdown(a)
  PROVE  TypeOK'
<1>0. fetch[a] \in Fetch /\ rows \in SUBSET Row
  <2>1. fetch[a] # Nothing
    BY DEF get_rules_markdown, CacheHit, CacheMiss, ReadGlobal, ResolvePattern, ReadRepo,
       ReadRepoOption, ReadAppMeta, ReadOption, ReadRepoDefault, ReadAppOption, ReadApp, ReadAppDefault, Store, AtStep
  <2> QED
    BY <2>1, FetchFields DEF TypeOK
<1>1. ASSUME CacheHit(a)
      PROVE  TypeOK'
  BY <1>1, KeyIsKey DEF CacheHit, Tables, TypeOK
<1>2. ASSUME CacheMiss(a)
      PROVE  TypeOK'
  <2>1. [fetch[a] EXCEPT !.step = "global"] \in Fetch
    BY <1>0, StepToGlobal
  <2>2. fetch' = [fetch EXCEPT ![a] = [fetch[a] EXCEPT !.step = "global"]]
    BY <1>2 DEF CacheMiss, TypeOK
  <2> QED
    BY <1>2, <2>1, <2>2 DEF CacheMiss, Tables, TypeOK
<1>3. ASSUME ReadGlobal(a)
      PROVE  TypeOK'
  <2>1. global_all_sections_latest \in SUBSET Row
    BY <1>0, LatestIsRows DEF global_all_sections_latest
  <2> QED
    BY <1>0, <1>3, <2>1, ReadKeepsTypes DEF ReadGlobal, AtStep, Layers
<1>4. ASSUME ResolvePattern(a)
      PROVE  TypeOK'
  <2>1. resolve_repo_row(Key.origin) \in SUBSET Patterns
    BY NamesAssumption DEF resolve_repo_row, WithMain
  <2>2. [fetch[a] EXCEPT !.step = "repo", !.pattern = resolve_repo_row(Key.origin)] \in Fetch
    BY <1>0, <2>1, StepToRepo
  <2>3. fetch' = [fetch EXCEPT ![a] =
                    [fetch[a] EXCEPT !.step = "repo", !.pattern = resolve_repo_row(Key.origin)]]
    BY <1>4 DEF ResolvePattern, TypeOK
  <2> QED
    BY <1>4, <2>2, <2>3 DEF ResolvePattern, Tables, TypeOK
<1>5. ASSUME ReadRepo(a)
      PROVE  TypeOK'
  <2> DEFINE R == UNION {repo_all_sections_latest_for_pattern(pat) : pat \in fetch[a].pattern}
  <2>1. R \in SUBSET Row
    BY <1>0, LatestIsRows DEF repo_all_sections_latest_for_pattern
  <2>2. Read(a, "repo", R, "options") /\ fetch[a] # Nothing
    BY <1>5 DEF ReadRepo, AtStep
  <2> HIDE DEF R
  <2> QED
    BY <2>1, <2>2, ReadKeepsTypes DEF Layers
<1>6. ASSUME ReadRepoOption(a) \/ ReadAppMeta(a)
      PROVE  TypeOK'
  <2>1. /\ get_mcp_include_repo_default_for_pattern(fetch[a].pattern) \in BOOLEAN
        /\ get_mcp_include_app_default_for_app(Key.app) \in BOOLEAN
    BY ScenesAssumption DEF get_mcp_include_repo_default_for_pattern,
       get_mcp_include_repo_default, get_mcp_include_app_default_for_app, TypeOK
  <2> QED
    BY <1>0, <1>6, <2>1, ReadOptionKeepsTypes DEF ReadRepoOption, ReadAppMeta, AtStep, Flags
<1>7. ASSUME ReadRepoDefault(a)
      PROVE  TypeOK'
  <2> DEFINE R == IF fetch[a].answer.merged["repo"]
                  THEN repo_all_sections_latest_for_pattern(Default) \ fetch[a].answer.rows["repo"]
                  ELSE {}
  <2>1. R \in SUBSET Row
    BY <1>0, LatestIsRows DEF repo_all_sections_latest_for_pattern
  <2>2. Read(a, "repoDefault", R, "appOption") /\ fetch[a] # Nothing
    BY <1>7 DEF ReadRepoDefault, AtStep
  <2> HIDE DEF R
  <2> QED
    BY <2>1, <2>2, ReadKeepsTypes DEF Layers
<1>8. ASSUME ReadAppOption(a)
      PROVE  TypeOK'
  <2> DEFINE b == get_mcp_include_app_default_for_app(Key.app)
             F == [fetch[a] EXCEPT !.step = "app", !.merge = b]
  <2>1. b \in BOOLEAN
    BY DEF get_mcp_include_app_default_for_app
  <2>2. fetch' = [fetch EXCEPT ![a] = F]
    BY <1>8 DEF ReadAppOption, TypeOK
  <2> HIDE DEF b
  <2>3. F \in Fetch
    BY <1>0, <2>1, StepToApp
  <2> QED
    BY <1>8, <2>2, <2>3 DEF ReadAppOption, Tables, TypeOK
<1>9. ASSUME ReadApp(a)
      PROVE  TypeOK'
  <2>1. app_all_sections_latest(Key.app) \in SUBSET Row
    BY <1>0, LatestIsRows DEF app_all_sections_latest
  <2> QED
    BY <1>9, <2>1, ReadKeepsTypes DEF ReadApp, AtStep, Layers
<1>10. ASSUME ReadAppDefault(a)
       PROVE  TypeOK'
  <2> DEFINE read == fetch[a].answer.rows["app"]
             default == app_all_sections_latest(DefaultApp)
             l == IF fetch[a].merge THEN "appDefault" ELSE "app"
             R == CASE fetch[a].merge -> default \ read
                    [] ~fetch[a].merge /\ read = {} -> default
                    [] OTHER -> read
  <2>1. default \in SUBSET Row /\ read \in SUBSET Row
    BY <1>0, LatestIsRows DEF app_all_sections_latest, Fetch, Answer, Layers
  <2>2. Read(a, l, R, "store") /\ fetch[a] # Nothing
    BY <1>10 DEF ReadAppDefault, AtStep
  <2>3. l \in Layers /\ fetch[a].merge \in BOOLEAN
    BY <1>0 DEF Layers, Fetch
  <2> HIDE DEF read, default, l
  <2>4. R \in SUBSET Row
    BY <2>1, <2>3
  <2> HIDE DEF R
  <2> QED
    BY <2>2, <2>3, <2>4, ReadKeepsTypes
<1>11. ASSUME Store(a)
       PROVE  TypeOK'
  <2>1. fetch[a].answer \in Answer
    BY <1>0 DEF Fetch
  <2>2. cache' \in [Keys -> Answer \cup {Nothing}]
    BY <1>11, <2>1 DEF Store, TypeOK
  <2> QED
    BY <1>11, <2>1, <2>2 DEF Store, Tables, TypeOK
<1> QED
  BY <1>1, <1>2, <1>3, <1>4, <1>5, <1>6, <1>7, <1>8, <1>9, <1>10, <1>11
     DEF get_rules_markdown

LEMMA InitTypes == Init => TypeOK
  BY NamesAssumption DEF Init, TypeOK, Options

LEMMA PublishKeepsTypes ==
  ASSUME TypeOK, NEW p \in Writers, NEW s \in Streams, Publish(p, s)
  PROVE  TypeOK'
<1>1. PICK n \in NextVersion(s) :
         /\ rows' = rows \cup {[id |-> writes, stream |-> s, version |-> n]}
         /\ given' = given \cup {[id |-> writes, stream |-> s, version |-> n]}
  BY DEF Publish
<1>2. n \in Nat
  BY DEF NextVersion, RowsOf, TypeOK, Row
<1>3. [id |-> writes, stream |-> s, version |-> n] \in Row
  BY <1>2, NamesAssumption DEF TypeOK, Row
<1>4. writes' \in 0 .. MaxWrites
  BY NamesAssumption DEF Publish, TypeOK
<1>5. option' \in [Apps \cup Patterns \cup {AllApps} -> Options]
  BY DEF Publish, TypeOK, Options
<1>6. writer' \in [Writers -> Streams \cup {Nothing}]
  BY DEF Publish, TypeOK
<1> QED
  BY <1>1, <1>3, <1>4, <1>5, <1>6 DEF Publish, TypeOK

LEMMA DeleteKeepsTypes ==
  ASSUME TypeOK, NEW R, DeleteRows(R)
  PROVE  TypeOK'
<1>1. writes' \in 0 .. MaxWrites
  BY NamesAssumption DEF DeleteRows, TypeOK
<1> QED
  BY <1>1 DEF DeleteRows, TypeOK

LEMMA OptionKeepsTypes ==
  ASSUME TypeOK, NEW o, NEW on, SetOption(o, on)
  PROVE  TypeOK'
<1>1. writes' \in 0 .. MaxWrites
  BY NamesAssumption DEF SetOption, TypeOK
<1>2. option' \in [Apps \cup Patterns \cup {AllApps} -> Options]
  BY DEF SetOption, TypeOK, Options
<1> QED
  BY <1>1, <1>2 DEF SetOption, TypeOK

LEMMA OthersKeepTypes ==
  ASSUME TypeOK,
         \/ \E a \in Agents : check_rule_versions(a)
         \/ \E k \in Keys : Expire(k)
         \/ \E p \in Writers : invalidate_rule(p) \/ InvalidateFail(p)
  PROVE  TypeOK'
<1>1. ASSUME NEW a \in Agents, check_rule_versions(a)
      PROVE  TypeOK'
  <2> DEFINE F == [step |-> "lookup", pattern |-> {}, merge |-> FALSE, answer |-> EmptyAnswer]
  <2>1. F \in Fetch
    BY DEF Fetch, Answer, EmptyAnswer
  <2>2. fetch' = [fetch EXCEPT ![a] = F]
    BY <1>1 DEF check_rule_versions
  <2> HIDE DEF F
  <2> QED
    BY <1>1, <2>1, <2>2 DEF check_rule_versions, Tables, TypeOK
<1>2. ASSUME NEW k \in Keys, Expire(k)
      PROVE  TypeOK'
  BY <1>2 DEF Expire, Tables, TypeOK
<1>3. ASSUME NEW p \in Writers, invalidate_rule(p)
      PROVE  TypeOK'
  BY <1>3 DEF invalidate_rule, Tables, TypeOK
<1>4. ASSUME NEW p \in Writers, InvalidateFail(p)
      PROVE  TypeOK'
  <2>1. cache' \in [Keys -> Answer \cup {Nothing}]
    BY <1>4 DEF InvalidateFail, TypeOK
  <2> QED
    BY <1>4, <2>1 DEF InvalidateFail, Tables, TypeOK
<1> QED
  BY <1>1, <1>2, <1>3, <1>4

\* The steps of the program: publishes, deletions and options, requests, and
\* the rest.
LEMMA StepsOfNext ==
  ASSUME TypeOK, Next
  PROVE  \/ \E p \in Writers, s \in Streams : Publish(p, s)
         \/ \E R \in SUBSET rows : DeleteRows(R)
         \/ \E o, on : SetOption(o, on)
         \/ \E a \in Agents : get_rules_markdown(a)
         \/ \E a \in Agents : check_rule_versions(a)
         \/ \E k \in Keys : Expire(k)
         \/ \E p \in Writers : invalidate_rule(p) \/ InvalidateFail(p)
<1>1. CASE \E a \in Agents : check_rule_versions(a) \/ get_rules_markdown(a)
  BY <1>1
<1>2. CASE \E k \in Keys : Expire(k)
  BY <1>2
<1>3. ASSUME NEW p \in Writers, Tools(p)
      PROVE  \/ \E s \in Streams : Publish(p, s)
             \/ invalidate_rule(p) \/ InvalidateFail(p)
  <2>1. \A s : Publish(p, s) => s \in Streams
    BY ScenesAssumption DEF Publish, TypeOK
  <2> QED
    BY <1>3, <2>1 DEF Tools, publish_global, publish_app, publish_repo
<1>4. ASSUME Pages
      PROVE  \/ \E R \in SUBSET rows : DeleteRows(R)
             \/ \E o, on : SetOption(o, on)
  <2>1. CASE \E s \in scene.streams : \E r \in RowsOf(s) : version_delete(s, r.version)
    <3>1. PICK s \in scene.streams : \E r \in RowsOf(s) : version_delete(s, r.version)
      BY <2>1
    <3>2. PICK r \in RowsOf(s) : version_delete(s, r.version)
      BY <3>1
    <3> DEFINE R == {q \in RowsOf(s) : q.version = r.version}
    <3>3. R \in SUBSET rows /\ DeleteRows(R)
      BY <3>2 DEF version_delete, RowsOf
    <3> QED
      BY <3>3
  <2>2. CASE \E s \in scene.streams : category_delete(s)
    <3>1. PICK s \in scene.streams : DeleteRows(RowsOf(s))
      BY <2>2 DEF category_delete
    <3>2. RowsOf(s) \in SUBSET rows
      BY DEF RowsOf
    <3> QED
      BY <3>1, <3>2
  <2>3. \A scope, owner : delete_stream(scope, owner) => \E R \in SUBSET rows : DeleteRows(R)
    <3> SUFFICES ASSUME NEW scope, NEW owner, delete_stream(scope, owner)
                 PROVE  \E R \in SUBSET rows : DeleteRows(R)
      OBVIOUS
    <3> DEFINE R == {r \in rows : r.stream.scope = scope /\ r.stream.owner = owner}
    <3>1. R \in SUBSET rows /\ DeleteRows(R)
      BY DEF delete_stream
    <3> QED
      BY <3>1
  <2>4. CASE global_mcp_app_default_toggle
    BY <2>4 DEF global_mcp_app_default_toggle
  <2>5. CASE \E a \in Apps : app_rule_pull_default_toggle(a)
    BY <2>5 DEF app_rule_pull_default_toggle
  <2>6. CASE \E pat \in Patterns : repo_pattern_include_repo_default_toggle(pat)
    BY <2>6 DEF repo_pattern_include_repo_default_toggle
  <2> QED
    BY <1>4, <2>1, <2>2, <2>3, <2>4, <2>5, <2>6 DEF Pages
<1> QED
  BY <1>1, <1>2, <1>3, <1>4 DEF Next

LEMMA NextKeepsTypes ==
  ASSUME TypeOK, [Next]_vars
  PROVE  TypeOK'
<1>1. CASE UNCHANGED vars
  BY <1>1 DEF vars, TypeOK
<1>2. CASE Next
  BY <1>2, StepsOfNext, PublishKeepsTypes, DeleteKeepsTypes, OptionKeepsTypes,
     GetKeepsTypes, OthersKeepTypes
<1> QED
  BY <1>1, <1>2

\* Every variable keeps its type.
THEOREM TypeCorrect == Spec => []TypeOK
<1>1. Init => TypeOK
  BY InitTypes
<1>2. TypeOK /\ [Next]_vars => TypeOK'
  BY NextKeepsTypes
<1> QED
  BY <1>1, <1>2, PTL DEF Spec

-----------------------------------------------------------------------------
(* Invalidation *)

\* The texts of an app that stand in an answer are its own, or the default.
Fits(k, texts) ==
    \A l \in Layers : \A r \in texts[l] :
        r.stream.scope = "app" => r.stream.owner \in {k.app, DefaultApp}

AnswersFit ==
    /\ \A k \in Keys : cache[k] # Nothing => Fits(k, cache[k].rows)
    /\ \A a \in Agents : fetch[a] # Nothing => Fits(Key, fetch[a].answer.rows)

LEMMA LatestOfOwner ==
  ASSUME NEW scope, NEW owner, NEW r \in LatestOfAllSections(scope, owner)
  PROVE  r \in rows /\ r.stream.scope = scope /\ r.stream.owner = owner
<1>1. PICK c \in Sections : r \in Latest(Stream(scope, owner, c))
  BY DEF LatestOfAllSections
<1>2. r \in rows /\ r.stream = Stream(scope, owner, c)
  BY <1>1 DEF Latest, RowsOf
<1> QED
  BY <1>2 DEF Stream

\* What every layer of an answer is read from.
LEMMA LayersFit ==
  ASSUME NEW k
  PROVE  /\ \A r \in global_all_sections_latest : r.stream.scope = "global"
         /\ \A pat : \A r \in repo_all_sections_latest_for_pattern(pat) :
                r.stream.scope = "repo" /\ r.stream.owner = pat
         /\ \A a : \A r \in app_all_sections_latest(a) :
                r.stream.scope = "app" /\ r.stream.owner = a
  BY LatestOfOwner DEF global_all_sections_latest, repo_all_sections_latest_for_pattern,
     app_all_sections_latest

\* What would be answered now.
LEMMA BundlesFit == \A k \in Keys : Fits(k, Bundle(k))
<1> SUFFICES ASSUME NEW k \in Keys, NEW l \in Layers, NEW r \in Bundle(k)[l],
                    r.stream.scope = "app"
             PROVE  r.stream.owner \in {k.app, DefaultApp}
  BY DEF Fits
<1>1. \/ r \in global_all_sections_latest
      \/ \E pat : r \in repo_all_sections_latest_for_pattern(pat)
      \/ \E a \in {k.app, DefaultApp} : r \in app_all_sections_latest(a)
  BY DEF Bundle, Layers
<1> QED
  BY <1>1, LayersFit

LEMMA ReadFits ==
  ASSUME TypeOK, AnswersFit, NEW a \in Agents, fetch[a] # Nothing,
         NEW l \in Layers, NEW R, NEW step, Read(a, l, R, step),
         \A r \in R : r.stream.scope = "app" => r.stream.owner \in {Key.app, DefaultApp}
  PROVE  AnswersFit'
<1>1. fetch[a] \in Fetch
  BY FetchFields
<1>2. /\ fetch'[a].answer.rows = [fetch[a].answer.rows EXCEPT ![l] = R]
      /\ \A b \in Agents : b # a => fetch'[b] = fetch[b]
  BY <1>1 DEF Read, TypeOK, Fetch, Answer
<1>3. Fits(Key, fetch'[a].answer.rows)
  <2>1. fetch[a].answer.rows \in [Layers -> SUBSET Row]
    BY <1>1 DEF Fetch, Answer
  <2> QED
    BY <1>2, <2>1 DEF Fits, AnswersFit
<1>4. cache' = cache /\ Key' = Key
  BY DEF Read, Key
<1> QED
  BY <1>2, <1>3, <1>4 DEF AnswersFit, Fits

LEMMA GetKeepsFit ==
  ASSUME TypeOK, AnswersFit, NEW a \in Agents, get_rules_markdown(a)
  PROVE  AnswersFit'
<1>0. fetch[a] # Nothing /\ fetch[a] \in Fetch
  <2>1. fetch[a] # Nothing
    BY DEF get_rules_markdown, CacheHit, CacheMiss, ReadGlobal, ResolvePattern, ReadRepo,
       ReadRepoOption, ReadAppMeta, ReadOption, ReadRepoDefault, ReadAppOption, ReadApp, ReadAppDefault, Store, AtStep
  <2> QED
    BY <2>1, FetchFields
<1>1. CASE CacheHit(a)
  BY <1>1 DEF CacheHit, AnswersFit, Key, Fits, TypeOK
<1>2. CASE \/ CacheMiss(a) \/ ResolvePattern(a) \/ ReadAppOption(a)
           \/ ReadRepoOption(a) \/ ReadAppMeta(a)
  <2>1. /\ fetch'[a].answer.rows = fetch[a].answer.rows
        /\ \A b \in Agents : b # a => fetch'[b] = fetch[b]
    BY <1>0, <1>2 DEF CacheMiss, ResolvePattern, ReadRepoOption, ReadAppMeta, ReadOption, ReadAppOption, TypeOK, Fetch, Answer
  <2>2. cache' = cache /\ Key' = Key
    BY <1>2 DEF CacheMiss, ResolvePattern, ReadRepoOption, ReadAppMeta, ReadOption, ReadAppOption, Key
  <2> QED
    BY <1>0, <2>1, <2>2 DEF AnswersFit, Fits
<1>3. CASE ReadGlobal(a)
  BY <1>0, <1>3, LayersFit, ReadFits DEF ReadGlobal, Layers
<1>4. CASE ReadRepo(a)
  <2> DEFINE R == UNION {repo_all_sections_latest_for_pattern(pat) : pat \in fetch[a].pattern}
  <2>1. \A r \in R : r.stream.scope = "repo"
    BY LayersFit
  <2>2. Read(a, "repo", R, "options")
    BY <1>4 DEF ReadRepo
  <2> HIDE DEF R
  <2> QED
    BY <1>0, <2>1, <2>2, ReadFits DEF Layers
<1>5. CASE ReadRepoDefault(a)
  <2> DEFINE R == IF fetch[a].answer.merged["repo"]
                  THEN repo_all_sections_latest_for_pattern(Default) \ fetch[a].answer.rows["repo"]
                  ELSE {}
  <2>1. \A r \in R : r.stream.scope = "repo"
    BY LayersFit
  <2>2. Read(a, "repoDefault", R, "appOption")
    BY <1>5 DEF ReadRepoDefault
  <2> HIDE DEF R
  <2> QED
    BY <1>0, <2>1, <2>2, ReadFits DEF Layers
<1>6. CASE ReadApp(a)
  BY <1>0, <1>6, LayersFit, ReadFits DEF ReadApp, Layers
<1>7. CASE ReadAppDefault(a)
  <2> DEFINE read == fetch[a].answer.rows["app"]
             default == app_all_sections_latest(DefaultApp)
             l == IF fetch[a].merge THEN "appDefault" ELSE "app"
             R == CASE fetch[a].merge -> default \ read
                    [] ~fetch[a].merge /\ read = {} -> default
                    [] OTHER -> read
  <2>1. /\ \A r \in read : r.stream.scope = "app" => r.stream.owner \in {Key.app, DefaultApp}
        /\ \A r \in default : r.stream.owner = DefaultApp
    BY <1>0, LayersFit DEF AnswersFit, Fits, Layers
  <2>2. Read(a, l, R, "store")
    BY <1>7 DEF ReadAppDefault
  <2>3. l \in Layers /\ fetch[a].merge \in BOOLEAN
    BY <1>0 DEF Layers, Fetch
  <2> HIDE DEF read, default, l
  <2>4. \A r \in R : r.stream.scope = "app" => r.stream.owner \in {Key.app, DefaultApp}
    BY <2>1, <2>3
  <2> HIDE DEF R
  <2> QED
    BY <1>0, <2>2, <2>3, <2>4, ReadFits
<1>8. CASE Store(a)
  <2>1. Fits(Key, fetch[a].answer.rows)
    BY <1>0 DEF AnswersFit
  <2>2. Key' = Key
    BY <1>8 DEF Store, Key
  <2>3. \A k \in Keys : cache'[k] = cache[k] \/ (k = Key /\ cache'[k] = fetch[a].answer)
    BY <1>8 DEF Store, TypeOK
  <2>4. \A b \in Agents : fetch'[b] # Nothing => fetch'[b] = fetch[b]
    BY <1>8 DEF Store, TypeOK
  <2> QED
    BY <2>1, <2>2, <2>3, <2>4 DEF AnswersFit, Fits
<1> QED
  BY <1>1, <1>2, <1>3, <1>4, <1>5, <1>6, <1>7, <1>8 DEF get_rules_markdown

LEMMA NextKeepsFit ==
  ASSUME TypeOK, AnswersFit, [Next]_vars
  PROVE  AnswersFit'
<1>1. ASSUME cache' = cache, fetch' = fetch, scene' = scene
      PROVE  AnswersFit'
  BY <1>1 DEF AnswersFit, Fits, Key
<1>2. CASE UNCHANGED vars
  BY <1>1, <1>2 DEF vars
<1>3. ASSUME NEW p \in Writers, NEW s \in Streams, Publish(p, s)
      PROVE  AnswersFit'
  BY <1>1, <1>3 DEF Publish
<1>4. ASSUME NEW R, DeleteRows(R)
      PROVE  AnswersFit'
  BY <1>1, <1>4 DEF DeleteRows
<1>5. ASSUME NEW o, NEW on, SetOption(o, on)
      PROVE  AnswersFit'
  BY <1>1, <1>5 DEF SetOption
<1>6. ASSUME NEW a \in Agents, check_rule_versions(a)
      PROVE  AnswersFit'
  <2>1. \A b \in Agents : fetch'[b] = fetch[b] \/ fetch'[b].answer = EmptyAnswer
    BY <1>6 DEF check_rule_versions, TypeOK
  <2>2. Fits(Key, EmptyAnswer.rows)
    BY DEF Fits, EmptyAnswer
  <2> QED
    BY <1>6, <2>1, <2>2 DEF check_rule_versions, AnswersFit, Fits, Key
<1>7. ASSUME \E k \in Keys : Expire(k)
      PROVE  AnswersFit'
  <2>1. \A k \in Keys : cache'[k] = cache[k] \/ cache'[k] = Nothing
    BY <1>7 DEF Expire, TypeOK
  <2> QED
    BY <1>7, <2>1 DEF Expire, AnswersFit, Fits, Key
<1>8. ASSUME NEW p \in Writers, invalidate_rule(p) \/ InvalidateFail(p)
      PROVE  AnswersFit'
  <2>1. \A k \in Keys : cache'[k] = cache[k] \/ cache'[k] = Nothing
    BY <1>8 DEF invalidate_rule, InvalidateFail
  <2>2. fetch' = fetch /\ scene' = scene
    BY <1>8 DEF invalidate_rule, InvalidateFail
  <2> QED
    BY <2>1, <2>2 DEF AnswersFit, Fits, Key
<1> QED
  BY <1>2, <1>3, <1>4, <1>5, <1>6, <1>7, <1>8, StepsOfNext, GetKeepsFit

\* A glob leaves an answer alone only if the stream has no text in it: neither
\* in the cache nor in what would be answered now.
LEMMA FlushReachesAll ==
  ASSUME AnswersFit, NEW p \in Writers, invalidate_rule(p), MeetsItself(writer[p]),
         NEW k \in Keys, cache'[k] # Nothing
  PROVE  RowsIn(cache'[k].rows, writer[p]) = RowsIn(Bundle(k)', writer[p])
<1> DEFINE s == writer[p]
<1>1. k \notin Invalidated(s) /\ cache'[k] = cache[k]
  BY DEF invalidate_rule
<1>2. s.scope = "app" /\ s.owner \notin {k.app, DefaultApp}
  BY <1>1 DEF Invalidated, MeetsItself
<1>3. ASSUME NEW texts, Fits(k, texts)
      PROVE  RowsIn(texts, s) = {}
  BY <1>2, <1>3 DEF Fits, RowsIn
<1>4. Fits(k, cache'[k].rows)
  BY <1>1 DEF AnswersFit
<1>5. Fits(k, Bundle(k)')
  <2>1. rows' = rows /\ option' = option
    BY DEF invalidate_rule, Tables
  <2>2. Bundle(k)' = Bundle(k)
    BY <2>1 DEF Bundle, global_all_sections_latest, app_all_sections_latest,
       repo_all_sections_latest_for_pattern, LatestOfAllSections, Latest, RowsOf,
       resolve_repo_row, WithMain, get_mcp_include_repo_default_for_pattern,
       get_mcp_include_repo_default, get_mcp_include_app_default_for_app
  <2> QED
    BY <2>2, BundlesFit
<1> QED
  BY <1>3, <1>4, <1>5

\* Once a publish has flushed its keys, the cache shows its stream as the
\* tables do, whatever is being read, stored, deleted and toggled meanwhile,
\* and whatever else the glob of a name matches, if it meets the name's own keys.
THEOREM FlushesFindEveryAnswer == Spec => InvalidationReachesEveryAnswer
<1>1. Init => TypeOK /\ AnswersFit
  BY InitTypes DEF Init, AnswersFit
<1>2. TypeOK /\ AnswersFit /\ [Next]_vars => TypeOK' /\ AnswersFit'
  BY NextKeepsTypes, NextKeepsFit
<1>3. AnswersFit /\ [Next]_vars =>
        [\A p \in Writers :
           invalidate_rule(p) /\ MeetsItself(writer[p]) =>
             \A k \in Keys : cache'[k] # Nothing =>
               RowsIn(cache'[k].rows, writer[p]) = RowsIn(Bundle(k)', writer[p])]_vars
  BY FlushReachesAll
<1> QED
  BY <1>1, <1>2, <1>3, PTL DEF Spec, InvalidationReachesEveryAnswer

-----------------------------------------------------------------------------
(* Version numbers *)

\* A stream gives a number to one of its rows.
VersionsApart(R) ==
    \A r, q \in R : r.stream = q.stream /\ r.version = q.version => r = q

\* The rows whose numbers check_rule_versions answers.
Told(k) ==
    global_all_sections_latest
        \cup IF k.app = NoApp THEN {}
             ELSE AppSections(k.app)
                    \cup UNION {repo_all_sections_latest_for_pattern(pat) :
                                  pat \in resolve_repo_row(k.origin)}

MergesApp(k) == k.app # NoApp /\ get_mcp_include_app_default_for_app(k.app)

InScope(R, scope) == {r \in R : r.stream.scope = scope}

\* The layers of an answer, made of the rows told and of one flag alone.
LayerOf(l, k, told, merges) ==
    IF l = "app" /\ merges /\ (\A r \in InScope(told, "app") : r.stream.owner # k.app)
    THEN {} ELSE InScope(told, l)

AnswersFromNumbers ==
    \A k \in Keys :
        /\ Told(k) \subseteq rows
        /\ get_rule_version_snapshot(k).numbers = Numbers(Told(k))
        /\ get_rule_version_snapshot(k).merged["app"] = MergesApp(k)
        /\ \A l \in OwnLayers : Bundle(k)[l] = LayerOf(l, k, Told(k), MergesApp(k))

LEMMA ToldInRows ==
  ASSUME NEW k
  PROVE  Told(k) \subseteq rows
  BY LatestIsRows DEF Told, AppSections, global_all_sections_latest, app_all_sections_latest,
     repo_all_sections_latest_for_pattern

\* Of which streams the rows told are.
LEMMA ToldByScope ==
  ASSUME NEW k
  PROVE  /\ InScope(Told(k), "global") = global_all_sections_latest
         /\ InScope(Told(k), "repo") =
              IF k.app = NoApp THEN {}
              ELSE UNION {repo_all_sections_latest_for_pattern(pat) :
                            pat \in resolve_repo_row(k.origin)}
         /\ InScope(Told(k), "app") = IF k.app = NoApp THEN {} ELSE AppSections(k.app)
<1> DEFINE repo == UNION {repo_all_sections_latest_for_pattern(pat) :
                            pat \in resolve_repo_row(k.origin)}
<1>1. \A r \in global_all_sections_latest : r.stream.scope = "global"
  BY LayersFit
<1>2. \A r \in repo : r.stream.scope = "repo"
  BY LayersFit
<1>3. \A r \in AppSections(k.app) : r.stream.scope = "app"
  BY LayersFit DEF AppSections
<1>4. Told(k) = global_all_sections_latest \cup IF k.app = NoApp THEN {} ELSE AppSections(k.app) \cup repo
  BY DEF Told
<1> HIDE DEF repo
<1> QED
  BY <1>1, <1>2, <1>3, <1>4 DEF InScope, repo

LEMMA AnswersComeFromNumbers == AnswersFromNumbers
<1> SUFFICES ASSUME NEW k \in Keys
             PROVE  /\ Told(k) \subseteq rows
                    /\ get_rule_version_snapshot(k).numbers = Numbers(Told(k))
                    /\ get_rule_version_snapshot(k).merged["app"] = MergesApp(k)
                    /\ \A l \in OwnLayers : Bundle(k)[l] = LayerOf(l, k, Told(k), MergesApp(k))
  BY DEF AnswersFromNumbers
<1>1. Told(k) \subseteq rows
  BY ToldInRows
<1>2. get_rule_version_snapshot(k).numbers = Numbers(Told(k))
  <2>1. CASE k.app = NoApp
    BY <2>1 DEF get_rule_version_snapshot, Told
  <2>2. CASE k.app # NoApp
    BY <2>2 DEF get_rule_version_snapshot, Told
  <2> QED
    BY <2>1, <2>2
<1>3. get_rule_version_snapshot(k).merged["app"] = MergesApp(k)
  BY DEF get_rule_version_snapshot, MergesApp, Flags
<1>4. Bundle(k)["global"] = LayerOf("global", k, Told(k), MergesApp(k))
  BY ToldByScope DEF Bundle, LayerOf, Layers
<1>5. Bundle(k)["repo"] = LayerOf("repo", k, Told(k), MergesApp(k))
  BY ToldByScope DEF Bundle, LayerOf, Layers
<1>6. Bundle(k)["app"] = LayerOf("app", k, Told(k), MergesApp(k))
  <2> DEFINE own == IF k.app = NoApp THEN {} ELSE app_all_sections_latest(k.app)
             default == app_all_sections_latest(DefaultApp)
  <2>1. Bundle(k)["app"] = IF k.app # NoApp /\ own = {} /\ ~MergesApp(k) THEN default ELSE own
    BY DEF Bundle, Layers, MergesApp
  <2>2. InScope(Told(k), "app") = IF k.app # NoApp /\ own = {} THEN default ELSE own
    BY ToldByScope DEF AppSections
  <2>3. /\ \A r \in own : r.stream.owner = k.app
        /\ \A r \in default : r.stream.owner = DefaultApp
    BY LayersFit
  <2>4. MergesApp(k) => k.app # DefaultApp
    BY DEF MergesApp, get_mcp_include_app_default_for_app
  <2> HIDE DEF own, default
  <2> QED
    BY <2>1, <2>2, <2>3, <2>4 DEF LayerOf
<1> QED
  BY <1>1, <1>2, <1>3, <1>4, <1>5, <1>6 DEF OwnLayers

\* Two sets of rows with the same numbers are one.
LEMMA NumbersTell ==
  ASSUME NEW D, VersionsApart(D), NEW X \in SUBSET D, NEW Y \in SUBSET D,
         Numbers(X) = Numbers(Y)
  PROVE  X = Y
<1> DEFINE number(r) == [stream |-> r.stream, version |-> r.version]
<1>1. ASSUME NEW r \in D, NEW q \in D, number(r) = number(q)
      PROVE  r = q
  <2>1. r.stream = q.stream /\ r.version = q.version
    BY <1>1
  <2> QED
    BY <2>1 DEF VersionsApart
<1>2. ASSUME NEW A, NEW B, Numbers(A) = Numbers(B), NEW r \in A
      PROVE  \E q \in B : number(r) = number(q)
  <2>1. number(r) \in Numbers(B)
    <3>1. number(r) \in Numbers(A)
      BY DEF Numbers
    <3> QED
      BY <1>2, <3>1
  <2> QED
    BY <2>1 DEF Numbers
<1> HIDE DEF number
<1>3. ASSUME NEW r \in X
      PROVE  r \in Y
  BY <1>1, <1>2
<1>4. ASSUME NEW r \in Y
      PROVE  r \in X
  BY <1>1, <1>2
<1> QED
  BY <1>3, <1>4

\* A step that adds rows, or deletes some, and leaves the numbers alone leaves
\* the layers alone.
LEMMA SameNumbersSameLayers ==
  ASSUME VersionsApart(rows), VersionsApart(rows'),
         rows \subseteq rows' \/ rows' \subseteq rows,
         NEW k \in Keys, NEW l \in OwnLayers,
         get_rule_version_snapshot(k)' = get_rule_version_snapshot(k)
  PROVE  Bundle(k)'[l] = Bundle(k)[l]
<1>1. AnswersFromNumbers /\ AnswersFromNumbers'
  BY AnswersComeFromNumbers, PTL
<1>2. /\ Told(k) \subseteq rows
      /\ get_rule_version_snapshot(k).numbers = Numbers(Told(k))
      /\ get_rule_version_snapshot(k).merged["app"] = MergesApp(k)
      /\ Bundle(k)[l] = LayerOf(l, k, Told(k), MergesApp(k))
  BY <1>1 DEF AnswersFromNumbers
<1>3. /\ Told(k)' \subseteq rows'
      /\ get_rule_version_snapshot(k)'.numbers = Numbers(Told(k)')
      /\ get_rule_version_snapshot(k)'.merged["app"] = MergesApp(k)'
      /\ Bundle(k)'[l] = LayerOf(l, k, Told(k)', MergesApp(k)')
  BY <1>1 DEF AnswersFromNumbers
<1>4. PICK D : VersionsApart(D) /\ rows \subseteq D /\ rows' \subseteq D
  OBVIOUS
<1>5. Told(k) = Told(k)'
  BY <1>2, <1>3, <1>4, NumbersTell
<1> QED
  BY <1>2, <1>3, <1>5

LEMMA NextKeepsVersionsApart ==
  ASSUME TypeOK, VersionsApart(rows), [Next]_vars
  PROVE  /\ VersionsApart(rows')
         /\ rows \subseteq rows' \/ rows' \subseteq rows
<1>1. CASE rows' = rows
  BY <1>1
<1>2. ASSUME NEW p \in Writers, NEW s \in Streams, Publish(p, s)
      PROVE  VersionsApart(rows') /\ rows \subseteq rows'
  <2>1. PICK n \in NextVersion(s) : rows' = rows \cup {[id |-> writes, stream |-> s, version |-> n]}
    BY <1>2 DEF Publish
  <2>2. \A r \in rows : r.stream = s => r.version < n
    BY DEF NextVersion, RowsOf
  <2>3. n \in Nat /\ \A r \in rows : r.version \in Nat
    BY DEF NextVersion, RowsOf, TypeOK, Row
  <2>4. \A r \in rows : r.stream = s => r.version # n
    BY <2>2, <2>3
  <2> QED
    BY <2>1, <2>4 DEF VersionsApart
<1>3. ASSUME NEW R, DeleteRows(R)
      PROVE  VersionsApart(rows') /\ rows' \subseteq rows
  BY <1>3 DEF DeleteRows, VersionsApart
<1>4. CASE UNCHANGED vars
  BY <1>1, <1>4 DEF vars
<1>5. ASSUME NEW o, NEW on, SetOption(o, on)
      PROVE  rows' = rows
  BY <1>5 DEF SetOption
<1>6. ASSUME NEW a \in Agents, get_rules_markdown(a)
      PROVE  rows' = rows
  BY <1>6 DEF get_rules_markdown, CacheHit, CacheMiss, ReadGlobal, ResolvePattern, ReadRepo,
     ReadRepoOption, ReadAppMeta, ReadOption, ReadRepoDefault, ReadAppOption, ReadApp, ReadAppDefault, Store, Read, Tables
<1>7. ASSUME \/ \E a \in Agents : check_rule_versions(a)
             \/ \E k \in Keys : Expire(k)
             \/ \E p \in Writers : invalidate_rule(p) \/ InvalidateFail(p)
      PROVE  rows' = rows
  BY <1>7 DEF check_rule_versions, Expire, invalidate_rule, InvalidateFail, Tables
<1> QED
  BY <1>1, <1>2, <1>3, <1>4, <1>5, <1>6, <1>7, StepsOfNext

\* check_rule_versions tells of every change of an answer, but for the default
\* streams that options merge: for any apps, patterns, sections and requests.
THEOREM NumbersTellOfChanges == Spec => SnapshotTellsOfEveryChange
<1>1. Init => TypeOK /\ VersionsApart(rows)
  BY InitTypes DEF Init, VersionsApart
<1>2. TypeOK /\ VersionsApart(rows) /\ [Next]_vars => TypeOK' /\ VersionsApart(rows)'
  BY NextKeepsTypes, NextKeepsVersionsApart
<1>3. TypeOK /\ VersionsApart(rows) /\ [Next]_vars =>
        [\A k \in Keys :
            (\E l \in OwnLayers : Bundle(k)'[l] # Bundle(k)[l]) =>
               get_rule_version_snapshot(k)' # get_rule_version_snapshot(k)]_vars
  BY NextKeepsVersionsApart, SameNumbersSameLayers
<1> QED
  BY <1>1, <1>2, <1>3, PTL DEF Spec, SnapshotTellsOfEveryChange
=============================================================================
