----------------------------- MODULE MCRuleStore -----------------------------
(* Small instances of RuleStore for TLC. *)
EXTENDS RuleStore, TLC

Stream(scope, owner, section) == [scope |-> scope, owner |-> owner, section |-> section]

RepoSeeds == {Stream("global", "def", "main"), Stream("repo", "def", "main")}
AllSeeds == RepoSeeds \cup {Stream("app", "def", "main")}

\* A pattern of its own with two sections, whose first publishes race.
PatternStreams == RepoSeeds \cup {Stream("repo", "web", "main"), Stream("repo", "web", "more")}

\* An app of its own, which falls back to "__default__".
AppStreams == AllSeeds \cup {Stream("app", "shop", "main")}

\* A stream an admin can empty, beside those an admin cannot.
AdminStreams == AllSeeds \cup {Stream("repo", "web", "more")}

\* The re-seed also fills a pattern that an admin can delete.
ResetSeeds == AllSeeds \cup {Stream("repo", "web", "main")}
ResetStreams == ResetSeeds \cup {Stream("app", "shop", "main")}

PublisherSymmetry == Permutations(Publishers)
=============================================================================
