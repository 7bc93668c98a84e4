---------------------------- MODULE MCRuleServing ----------------------------
(* Small instances of RuleServing for TLC. *)
EXTENDS RuleServing, TLC

WebIn == ("github" :> {"web"}) @@ ("server" :> {})

\* "" comes last.
PatternOrder == ("web" :> 0) @@ ("def" :> 1)

ForShop(origin) == [app |-> "shop", origin |-> origin, version |-> 0]

Global == [app |-> "none", origin |-> "server", version |-> 0]

\* The glob "shop[1]:*" matches keys of the app "shop1" and not its own.
GlobMeets == ("shop" :> {"shop"}) @@ ("default" :> {"default"}) @@ ("shop[1]" :> {})

Scene(s, t, request) == [streams |-> {s, t}, request |-> request, legacy |-> FALSE]

Legacy(sc) == [sc EXCEPT !.legacy = TRUE]

\* Two streams that show up in one answer: two sections, a default and what
\* stands for it, and two layers; a database with the flag of old; an app
\* whose name is a glob that misses it.
AllScenes ==
    {Scene(Stream("global", "none", "main"), Stream("global", "none", "more"), Global),
     Scene(Stream("app", "shop", "main"), Stream("app", "default", "main"), ForShop("github")),
     Scene(Stream("app", "shop", "more"), Stream("app", "default", "main"), ForShop("github")),
     Scene(Stream("repo", "web", "main"), Stream("repo", "def", "main"), ForShop("github")),
     Scene(Stream("repo", "web", "main"), Stream("repo", "web", "more"), ForShop("github")),
     Scene(Stream("repo", "web", "main"), Stream("repo", "def", "main"), ForShop("server")),
     Scene(Stream("app", "shop", "main"), Stream("repo", "def", "main"), ForShop("github")),
     Legacy(Scene(Stream("repo", "web", "main"), Stream("repo", "def", "main"),
                  ForShop("github"))),
     Scene(Stream("app", "shop[1]", "main"), Stream("app", "default", "main"),
           [ForShop("github") EXCEPT !.app = "shop[1]"])}
=============================================================================
