----------------------------- MODULE MCHarness ------------------------------
(* Small instances of Harness for TLC. *)
EXTENDS Harness

\* Two streams that a handler of one scope can mix up: two sections of an
\* owner, or one section of two patterns.
Two(kind, scope, o1, c1, o2, c2) ==
    {Stream(kind, scope, o1, c1), Stream(kind, scope, o2, c2)}

PairsOf(kind) ==
    {Two(kind, "global", "def", "main", "def", "more"),
     Two(kind, "app", "shop", "main", "shop", "more"),
     Two(kind, "repo", "def", "main", "web", "more")}

OnePatternSection == Two("doc", "repo", "def", "main", "web", "main")

\* Sections with the address of a form, and a pattern that no address holds.
Hidden ==
    {Two("skill", "global", "def", "main", "def", "new"),
     Two("workflow", "app", "shop", "new", "shop", "more"),
     Two("doc", "repo", "org/web", "main", "web", "new")}

\* What an upload mixes: skills and rules, of an app and of a pattern.
UploadStores ==
    {{Stream("skill", "repo", "web", "main"), Stream("rule", "app", "shop", "main")}}

Scene(stores, sessions) == {[streams |-> S, sessions |-> sessions] : S \in stores}

AllScenes ==
    Scene(PairsOf("skill") \cup PairsOf("workflow") \cup PairsOf("doc")
              \cup {OnePatternSection} \cup Hidden,
          {"agent", "admin"})
        \cup Scene({{Stream("skill", "app", "shop", "main")},
                    {Stream("workflow", "global", "def", "main")},
                    OnePatternSection}, {"admin", "script"})
        \cup Scene(UploadStores, {"uploader", "admin"})
=============================================================================
