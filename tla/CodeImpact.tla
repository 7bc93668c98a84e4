------------------------------ MODULE CodeImpact ------------------------------
(***************************************************************************)
(* analyze_code_impact: the search for the nodes to start from and the     *)
(* breadth-first walks down and up the edges (services/search_hybrid.py),  *)
(* one statement after the other, while workers go on writing the graph.   *)
(* Of the graph only what GraphTable promises is used.                     *)
(***************************************************************************)
EXTENDS Integers, FiniteSets, SequencesExt, FiniteSetsExt

CONSTANTS
    Id,         \* row ids of code_nodes
    Graphs,     \* [ids, edges] a behaviour starts from
    RRF_K,      \* 60
    TopN,       \* seeds of an analysis
    MaxRank,    \* limit of a ranking
    MaxDown,    \* max_depth_down
    MaxUp,      \* max_depth_up
    MaxNodes,   \* max_nodes
    MaxChanges  \* bound: changes of the graph

ASSUME LimitsAssumption ==
    /\ RRF_K \in Nat /\ TopN \in Nat /\ MaxRank \in Nat
    /\ MaxDown \in Nat /\ MaxUp \in Nat /\ MaxNodes \in Nat /\ MaxChanges \in Nat

VARIABLES
    ids, edges, fresh,  \* the graph
    changes,            \* how often it changed
    reader              \* the analysis

graph == <<ids, edges, fresh>>
vars == <<graph, changes, reader>>

Table == INSTANCE GraphTable

ASSUME GraphsAssumption ==
    \A g \in Graphs : g.ids \subseteq Id /\ g.edges \subseteq {e \in Table!Edge : Table!Within(e, g.ids)}

-----------------------------------------------------------------------------
(* reciprocal_rank_fusion *)

\* A ranking is a sequence of distinct ids, best first.
Rankings(S) == UNION {{q \in [1 .. n -> S] : \A i, j \in 1 .. n : q[i] = q[j] => i = j} :
                        n \in 0 .. MaxRank}

RankIn(q, i) == CHOOSE rank \in DOMAIN q : q[rank] = i

\* Scores are fractions.
Plus(x, y) == [num |-> x.num * y.den + y.num * x.den, den |-> x.den * y.den]
Higher(x, y) == x.num * y.den > y.num * x.den
Equal(x, y) == x.num * y.den = y.num * x.den

\* 1 / (RRF_K + rank)
Weight(rank) == [num |-> 1, den |-> RRF_K + rank]

WeightIn(q, i) == IF i \in ToSet(q) THEN Weight(RankIn(q, i)) ELSE [num |-> 0, den |-> 1]

\* Mutant: the second list replaces the score of the first.
ScoreOfLast(v, f, i) == IF i \in ToSet(f) THEN WeightIn(f, i) ELSE WeightIn(v, i)

Score(v, f, i) == Plus(WeightIn(v, i), WeightIn(f, i))

\* The place in which the scores have got an id.
Met(v, f, i) == IF i \in ToSet(v) THEN RankIn(v, i) ELSE Len(v) + RankIn(f, i)

Before(v, f, i, j) ==
    \/ Higher(Score(v, f, i), Score(v, f, j))
    \/ Equal(Score(v, f, i), Score(v, f, j)) /\ Met(v, f, i) < Met(v, f, j)

\* The first n: best score first, and of equal scores the one met first.
reciprocal_rank_fusion(v, f, n) ==
    LET found == ToSet(v) \cup ToSet(f)
    IN  {i \in found : Cardinality({j \in found : Before(v, f, j, i)}) < n}

-----------------------------------------------------------------------------
(* The analysis *)

Steps == {"idle", "fuse", "down", "up", "nodes", "edges", "answered"}

Walk == [seeds : SUBSET Id, down : SUBSET Id, up : SUBSET Id,
         frontier : SUBSET Id, next : SUBSET Id, depth : Nat]

Reader == [step : Steps, vector : Seq(Id), fts : Seq(Id), changes : Nat,
           walk : Walk, nodes : SUBSET Id, edges : SUBSET Table!Edge]

Idle == [step |-> "idle", vector |-> <<>>, fts |-> <<>>, changes |-> 0,
         walk |-> [seeds |-> {}, down |-> {}, up |-> {}, frontier |-> {},
                  next |-> {}, depth |-> 0],
         nodes |-> {}, edges |-> {}]

\* The two rankings of hybrid_code_seed_ids; without an embedding there is
\* only the full-text one.  They are two statements, one step here: both rank
\* the ids of one moment.
Search(v, f) ==
    /\ reader.step = "idle"
    /\ reader' = [reader EXCEPT !.step = "fuse", !.vector = v, !.fts = f, !.changes = changes]
    /\ UNCHANGED <<graph, changes>>

StartWalk(seeds) ==
    [seeds |-> seeds, down |-> {}, up |-> {}, frontier |-> seeds, next |-> {}, depth |-> 0]

\* No seeds, no graph.
Fuse ==
    LET seeds == reciprocal_rank_fusion(reader.vector, reader.fts, TopN)
    IN  /\ reader.step = "fuse"
        /\ reader' = [reader EXCEPT
              !.step = IF seeds = {} THEN "answered" ELSE "down",
              !.vector = <<>>, !.fts = <<>>, !.walk = StartWalk(seeds)]
        /\ UNCHANGED <<graph, changes>>

\* Mutant: one level more.
GoesOnTooFar(found, max) ==
    reader.walk.frontier # {} /\ reader.walk.depth <= max /\ Cardinality(found) < MaxNodes

GoesOn(found, max) ==
    reader.walk.frontier # {} /\ reader.walk.depth < max /\ Cardinality(found) < MaxNodes

Targets(i) == {e.target : e \in {e \in edges : e.source = i}} \ (reader.walk.down \cup reader.walk.seeds)
Sources(i) == {e.source : e \in {e \in edges : e.target = i}} \ (reader.walk.up \cup reader.walk.seeds)

\* The edges of the node i have been read; "next" are the nodes of the next
\* level so far, and all of them when i was the last of its level.
Onward(w, i, next) == [w EXCEPT !.frontier = @ \ {i}, !.next = next]
DeeperDown(w, next) ==
    [w EXCEPT !.down = @ \cup next, !.next = {}, !.frontier = next, !.depth = @ + 1]
DeeperUp(w, next) ==
    [w EXCEPT !.up = @ \cup next, !.next = {}, !.frontier = next, !.depth = @ + 1]
StartUp(w) == [w EXCEPT !.frontier = w.seeds, !.depth = 0]

WalkOn(step, w) == reader' = [reader EXCEPT !.step = step, !.walk = w]

\* A statement of a walk reads the edges of one node of the frontier; after the
\* last one the next level begins.  The limits hold a walk up between levels
\* only.
WalkDown ==
    LET w == reader.walk
        next(i) == w.next \cup Targets(i)
    IN  /\ reader.step = "down"
        /\ \/ \E i \in w.frontier :
                /\ GoesOn(w.down, MaxDown)
                /\ \/ w.frontier = {i} /\ WalkOn("down", DeeperDown(w, next(i)))
                   \/ w.frontier # {i} /\ WalkOn("down", Onward(w, i, next(i)))
           \/ ~GoesOn(w.down, MaxDown) /\ WalkOn("up", StartUp(w))
        /\ UNCHANGED <<graph, changes>>

WalkUp ==
    LET w == reader.walk
        next(i) == w.next \cup Sources(i)
    IN  /\ reader.step = "up"
        /\ \/ \E i \in w.frontier :
                /\ GoesOn(w.up, MaxUp)
                /\ \/ w.frontier = {i} /\ WalkOn("up", DeeperUp(w, next(i)))
                   \/ w.frontier # {i} /\ WalkOn("up", Onward(w, i, next(i)))
           \/ ~GoesOn(w.up, MaxUp) /\ WalkOn("nodes", w)
        /\ UNCHANGED <<graph, changes>>

AllIds == reader.walk.seeds \cup reader.walk.down \cup reader.walk.up

ReadNodes ==
    /\ reader.step = "nodes"
    /\ reader' = [reader EXCEPT !.step = "edges", !.nodes = AllIds \cap ids]
    /\ UNCHANGED <<graph, changes>>

\* Mutant: edges with one end among the nodes.
AmongAny(e, I) == e.source \in I \/ e.target \in I

Among(e, I) == e.source \in I /\ e.target \in I

ReadEdges ==
    /\ reader.step = "edges"
    /\ reader' = [reader EXCEPT !.step = "answered", !.edges = {e \in edges : Among(e, AllIds)}]
    /\ UNCHANGED <<graph, changes>>

traverse_code_graph == WalkDown \/ WalkUp \/ ReadNodes \/ ReadEdges

-----------------------------------------------------------------------------
\* Workers write the graph between two statements of the analysis.
Change ==
    /\ changes < MaxChanges /\ changes' = changes + 1
    /\ reader.step # "fuse"
    /\ \/ \E gone \in (SUBSET ids) \ {{}} : Table!Remove(gone) /\ UNCHANGED fresh
       \/ \E new \in (SUBSET fresh) \ {{}} : Table!Insert(new) /\ fresh' = fresh \ new
       \/ \E e \in Table!Edge : Table!Join({e}) /\ UNCHANGED fresh
    /\ UNCHANGED reader

Init ==
    /\ \E g \in Graphs : ids = g.ids /\ edges = g.edges /\ fresh = Id \ g.ids
    /\ changes = 0
    /\ reader = Idle

Next ==
    \/ \E v, f \in Rankings(ids) : Search(v, f)
    \/ Fuse
    \/ traverse_code_graph
    \/ Change

Spec == Init /\ [][Next]_vars /\ WF_vars(Fuse \/ traverse_code_graph)

-----------------------------------------------------------------------------
(* Properties *)

\* Every variable has its type.
TypeOK ==
    /\ ids \subseteq Id /\ edges \subseteq Table!Edge /\ fresh \subseteq Id
    /\ changes \in 0 .. MaxChanges
    /\ reader \in Reader
    /\ reader.walk.depth <= IF reader.step = "down" THEN MaxDown ELSE MaxUp

\* The edges of an answer join nodes of the answer, although rows come and go
\* between the statement that reads the nodes and the one that reads the edges.
AnswerIsClosed == \A e \in reader.edges : {e.source, e.target} \subseteq reader.nodes

\* Reference: what is reached from S in at most n steps of a relation.
Reached(S, n, R) ==
    LET r[i \in 0 .. n] ==
            IF i = 0 THEN S ELSE r[i - 1] \cup {p[2] : p \in {p \in R : p[1] \in r[i - 1]}}
    IN  r[n]

Calls == {<<e.source, e.target>> : e \in edges}
CalledBy == {<<e.target, e.source>> : e \in edges}

\* An answer that no change of the graph came between is the neighbourhood of
\* its seeds, as deep as asked for, unless it has max_nodes nodes.
AnswerIsNeighbourhood ==
    LET w == reader.walk
    IN  reader.step = "answered" /\ reader.changes = changes /\ w.seeds # {} =>
        /\ w.down \subseteq Reached(w.seeds, MaxDown, Calls) \ w.seeds
        /\ w.up \subseteq Reached(w.seeds, MaxUp, CalledBy) \ w.seeds
        /\ Cardinality(w.down) < MaxNodes => w.down = Reached(w.seeds, MaxDown, Calls) \ w.seeds
        /\ Cardinality(w.up) < MaxNodes => w.up = Reached(w.seeds, MaxUp, CalledBy) \ w.seeds
        /\ reader.nodes = AllIds

\* A node that both searches found comes before every node that only one of
\* them found, however badly they ranked it: so is RRF_K chosen.
FoundByBothComesFirst ==
    [][Fuse => \A i \in ToSet(reader.vector) \cap ToSet(reader.fts) :
                 reader'.walk.seeds \subseteq ToSet(reader.vector) \cap ToSet(reader.fts)
                   \/ i \in reader'.walk.seeds]_vars
=============================================================================
