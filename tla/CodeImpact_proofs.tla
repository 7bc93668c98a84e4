--------------------------- MODULE CodeImpact_proofs ---------------------------
(***************************************************************************)
(* For every graph, however often workers change it and however the seeds  *)
(* are ranked: the edges of an answer join nodes of the answer, and an     *)
(* answer that no change came between is the neighbourhood of its seeds;   *)
(* nodes that both searches found are seeds before any other.              *)
(***************************************************************************)
EXTENDS CodeImpact, FiniteSetTheorems, TLAPS

\* What GraphTable promises, kept by every change.
GraphSound ==
    /\ ids \subseteq Id /\ fresh \subseteq Id /\ ids \cap fresh = {}
    /\ edges \subseteq Table!Edge
    /\ \A e \in edges : Table!Within(e, ids)

Known ==
    reader.walk.seeds \cup reader.walk.down \cup reader.walk.up \cup reader.walk.frontier
        \cup reader.walk.next \cup ToSet(reader.vector) \cup ToSet(reader.fts)

\* No row to come has an id that the analysis has seen; the nodes read are at
\* least those of its ids that still name a row.
IInv ==
    /\ GraphSound
    /\ changes \in 0 .. MaxChanges
    /\ reader \in Reader
    /\ reader.step # "idle" => Known \cap fresh = {}
    /\ reader.step = "idle" => reader = Idle
    /\ reader.step = "edges" => AllIds \cap ids \subseteq reader.nodes
    /\ reader.step # "answered" => reader.edges = {}
    /\ AnswerIsClosed

USE DEF GraphSound

-----------------------------------------------------------------------------
(* What the statements of an analysis leave behind *)

\* What no statement of a walk touches.
WalkKeeps ==
    /\ UNCHANGED <<ids, edges, fresh, changes>>
    /\ reader'.changes = reader.changes /\ reader'.nodes = reader.nodes
    /\ reader'.vector = reader.vector /\ reader'.fts = reader.fts
    /\ reader'.walk.seeds = reader.walk.seeds

\* One node of the frontier is done with, the last one or another.
Moves(found, foundNext, new, i) ==
    LET w == reader.walk
        x == reader'.walk
    IN  \/ /\ w.frontier = {i} /\ foundNext = found \cup new
           /\ x.frontier = new /\ x.next = {} /\ x.depth = w.depth + 1
        \/ /\ w.frontier # {i} /\ foundNext = found
           /\ x.frontier = w.frontier \ {i} /\ x.next = new /\ x.depth = w.depth

\* Walks that have read the edges of a node.
LEMMA WalkGoes ==
    ASSUME NEW w \in Walk, NEW S \in SUBSET Id, NEW i
    PROVE  /\ DeeperDown(w, S) \in Walk /\ DeeperUp(w, S) \in Walk
           /\ Onward(w, i, S) \in Walk /\ StartUp(w) \in Walk
<1> DEFINE d == w.depth + 1
<1>1. d \in Nat
  BY DEF Walk
<1> HIDE DEF d
<1>2. [w EXCEPT !.down = @ \cup S, !.next = {}, !.frontier = S, !.depth = d] \in Walk
  BY <1>1 DEF Walk
<1>3. [w EXCEPT !.up = @ \cup S, !.next = {}, !.frontier = S, !.depth = d] \in Walk
  BY <1>1 DEF Walk
<1>4. Onward(w, i, S) \in Walk
  BY DEF Walk, Onward
<1>5. StartUp(w) \in Walk
  BY DEF Walk, StartUp
<1> QED
  BY <1>2, <1>3, <1>4, <1>5 DEF d, DeeperDown, DeeperUp

\* Their fields.
LEMMA DeeperDownFields ==
    ASSUME NEW w \in Walk, NEW S
    PROVE  LET x == DeeperDown(w, S)
           IN /\ x.seeds = w.seeds /\ x.down = w.down \cup S /\ x.up = w.up
              /\ x.frontier = S /\ x.next = {} /\ x.depth = w.depth + 1
<1>1. w = [seeds |-> w.seeds, down |-> w.down, up |-> w.up, frontier |-> w.frontier,
           next |-> w.next, depth |-> w.depth]
  BY DEF Walk
<1> QED
  BY <1>1 DEF DeeperDown

LEMMA DeeperUpFields ==
    ASSUME NEW w \in Walk, NEW S
    PROVE  LET x == DeeperUp(w, S)
           IN /\ x.seeds = w.seeds /\ x.down = w.down /\ x.up = w.up \cup S
              /\ x.frontier = S /\ x.next = {} /\ x.depth = w.depth + 1
<1>1. w = [seeds |-> w.seeds, down |-> w.down, up |-> w.up, frontier |-> w.frontier,
           next |-> w.next, depth |-> w.depth]
  BY DEF Walk
<1> QED
  BY <1>1 DEF DeeperUp

LEMMA OnwardFields ==
    ASSUME NEW w \in Walk, NEW i, NEW S
    PROVE  LET x == Onward(w, i, S)
           IN /\ x.seeds = w.seeds /\ x.down = w.down /\ x.up = w.up
              /\ x.frontier = w.frontier \ {i} /\ x.next = S /\ x.depth = w.depth
<1>1. w = [seeds |-> w.seeds, down |-> w.down, up |-> w.up, frontier |-> w.frontier,
           next |-> w.next, depth |-> w.depth]
  BY DEF Walk
<1> QED
  BY <1>1 DEF Onward

LEMMA StartUpFields ==
    ASSUME NEW w \in Walk
    PROVE  LET x == StartUp(w)
           IN /\ x.seeds = w.seeds /\ x.down = w.down /\ x.up = w.up
              /\ x.frontier = w.seeds /\ x.next = w.next /\ x.depth = 0
<1>1. w = [seeds |-> w.seeds, down |-> w.down, up |-> w.up, frontier |-> w.frontier,
           next |-> w.next, depth |-> w.depth]
  BY DEF Walk
<1> QED
  BY <1>1 DEF StartUp

AfterWalk(step, w) ==
    /\ reader'.step = step /\ reader'.walk = w
    /\ reader'.changes = reader.changes /\ reader'.nodes = reader.nodes
    /\ reader'.vector = reader.vector /\ reader'.fts = reader.fts

LEMMA WalkOnFields ==
    ASSUME reader \in Reader, NEW step, NEW w, WalkOn(step, w)
    PROVE  AfterWalk(step, w)
  BY DEF Reader, WalkOn, AfterWalk

LEMMA DownStep ==
    ASSUME reader \in Reader, WalkDown
    PROVE  /\ reader.step = "down" /\ WalkKeeps /\ reader'.walk.up = reader.walk.up
           /\ \/ /\ GoesOn(reader.walk.down, MaxDown) /\ reader'.step = "down"
                 /\ \E i \in reader.walk.frontier :
                       Moves(reader.walk.down, reader'.walk.down,
                             reader.walk.next \cup Targets(i), i)
              \/ /\ ~GoesOn(reader.walk.down, MaxDown) /\ reader'.step = "up"
                 /\ reader'.walk.down = reader.walk.down
                 /\ reader'.walk.next = reader.walk.next
                 /\ reader'.walk.frontier = reader.walk.seeds /\ reader'.walk.depth = 0
<1> DEFINE w == reader.walk
<1>1. w \in Walk /\ reader.step = "down" /\ UNCHANGED <<ids, edges, fresh, changes>>
  <2>1. w \in Walk
    BY DEF Reader
  <2> QED
    BY <2>1 DEF WalkDown, graph
<1>2. ASSUME NEW i \in w.frontier, GoesOn(w.down, MaxDown),
             \/ w.frontier = {i} /\ WalkOn("down", DeeperDown(w, w.next \cup Targets(i)))
             \/ w.frontier # {i} /\ WalkOn("down", Onward(w, i, w.next \cup Targets(i)))
      PROVE  /\ WalkKeeps /\ reader'.walk.up = w.up /\ reader'.step = "down"
             /\ Moves(w.down, reader'.walk.down, w.next \cup Targets(i), i)
  <2> DEFINE S == w.next \cup Targets(i)
  <2> HIDE DEF S, w
  <2>1. CASE w.frontier = {i} /\ WalkOn("down", DeeperDown(w, S))
    <3> DEFINE x == DeeperDown(w, S)
    <3>1. AfterWalk("down", x)
      BY <2>1, WalkOnFields
    <3>2. /\ x.seeds = w.seeds /\ x.down = w.down \cup S /\ x.up = w.up
          /\ x.frontier = S /\ x.next = {} /\ x.depth = w.depth + 1
      BY <1>1, DeeperDownFields
    <3> HIDE DEF x
    <3> QED
      BY <1>1, <2>1, <3>1, <3>2 DEF AfterWalk, WalkKeeps, Moves, w, S
  <2>2. CASE w.frontier # {i} /\ WalkOn("down", Onward(w, i, S))
    <3> DEFINE x == Onward(w, i, S)
    <3>1. AfterWalk("down", x)
      BY <2>2, WalkOnFields
    <3>2. /\ x.seeds = w.seeds /\ x.down = w.down /\ x.up = w.up
          /\ x.frontier = w.frontier \ {i} /\ x.next = S /\ x.depth = w.depth
      BY <1>1, OnwardFields
    <3> HIDE DEF x
    <3> QED
      BY <1>1, <2>2, <3>1, <3>2 DEF AfterWalk, WalkKeeps, Moves, w, S
  <2> QED
    BY <1>2, <2>1, <2>2 DEF S, w
<1>3. CASE ~GoesOn(w.down, MaxDown) /\ WalkOn("up", StartUp(w))
  <2>1. AfterWalk("up", StartUp(w))
    BY <1>3, WalkOnFields
  <2> HIDE DEF w
  <2> QED
    BY <1>1, <1>3, <2>1, StartUpFields DEF AfterWalk, WalkKeeps, w
<1> QED
  BY <1>1, <1>2, <1>3 DEF WalkDown

LEMMA UpStep ==
    ASSUME reader \in Reader, WalkUp
    PROVE  /\ reader.step = "up" /\ WalkKeeps /\ reader'.walk.down = reader.walk.down
           /\ \/ /\ GoesOn(reader.walk.up, MaxUp) /\ reader'.step = "up"
                 /\ \E i \in reader.walk.frontier :
                       Moves(reader.walk.up, reader'.walk.up,
                             reader.walk.next \cup Sources(i), i)
              \/ /\ ~GoesOn(reader.walk.up, MaxUp) /\ reader'.step = "nodes"
                 /\ reader'.walk.up = reader.walk.up
                 /\ reader'.walk.next = reader.walk.next
                 /\ reader'.walk.depth = reader.walk.depth
<1> DEFINE w == reader.walk
<1>1. w \in Walk /\ reader.step = "up" /\ UNCHANGED <<ids, edges, fresh, changes>>
  <2>1. w \in Walk
    BY DEF Reader
  <2> QED
    BY <2>1 DEF WalkUp, graph
<1>2. ASSUME NEW i \in w.frontier, GoesOn(w.up, MaxUp),
             \/ w.frontier = {i} /\ WalkOn("up", DeeperUp(w, w.next \cup Sources(i)))
             \/ w.frontier # {i} /\ WalkOn("up", Onward(w, i, w.next \cup Sources(i)))
      PROVE  /\ WalkKeeps /\ reader'.walk.down = w.down /\ reader'.step = "up"
             /\ Moves(w.up, reader'.walk.up, w.next \cup Sources(i), i)
  <2> DEFINE S == w.next \cup Sources(i)
  <2> HIDE DEF S, w
  <2>1. CASE w.frontier = {i} /\ WalkOn("up", DeeperUp(w, S))
    <3> DEFINE x == DeeperUp(w, S)
    <3>1. AfterWalk("up", x)
      BY <2>1, WalkOnFields
    <3>2. /\ x.seeds = w.seeds /\ x.up = w.up \cup S /\ x.down = w.down
          /\ x.frontier = S /\ x.next = {} /\ x.depth = w.depth + 1
      BY <1>1, DeeperUpFields
    <3> HIDE DEF x
    <3> QED
      BY <1>1, <2>1, <3>1, <3>2 DEF AfterWalk, WalkKeeps, Moves, w, S
  <2>2. CASE w.frontier # {i} /\ WalkOn("up", Onward(w, i, S))
    <3> DEFINE x == Onward(w, i, S)
    <3>1. AfterWalk("up", x)
      BY <2>2, WalkOnFields
    <3>2. /\ x.seeds = w.seeds /\ x.down = w.down /\ x.up = w.up
          /\ x.frontier = w.frontier \ {i} /\ x.next = S /\ x.depth = w.depth
      BY <1>1, OnwardFields
    <3> HIDE DEF x
    <3> QED
      BY <1>1, <2>2, <3>1, <3>2 DEF AfterWalk, WalkKeeps, Moves, w, S
  <2> QED
    BY <1>2, <2>1, <2>2 DEF S, w
<1>3. CASE ~GoesOn(w.up, MaxUp) /\ WalkOn("nodes", w)
  <2>1. AfterWalk("nodes", w)
    BY <1>3, WalkOnFields
  <2> QED
    BY <1>1, <1>3, <2>1 DEF AfterWalk, WalkKeeps
<1> QED
  BY <1>1, <1>2, <1>3 DEF WalkUp

-----------------------------------------------------------------------------
(* The invariant *)

\* The ids of a ranking are ids of rows.
LEMMA RankingOf ==
    ASSUME NEW S, NEW q \in Rankings(S)
    PROVE  /\ q \in Seq(S) /\ ToSet(q) \subseteq S
  BY DEF Rankings, ToSet

\* A change keeps the tables sound, and brings no id that was gone.
LEMMA ChangeIsSound ==
    ASSUME GraphSound, Change
    PROVE  GraphSound' /\ fresh' \subseteq fresh /\ ids' \subseteq ids \cup fresh /\ UNCHANGED reader
<1>1. CASE \E gone \in (SUBSET ids) \ {{}} : Table!Remove(gone) /\ UNCHANGED fresh
  BY <1>1 DEF Change, Table!Remove, Table!Within, Table!Edge
<1>2. CASE \E new \in (SUBSET fresh) \ {{}} : Table!Insert(new) /\ fresh' = fresh \ new
  BY <1>2 DEF Change, Table!Insert, Table!Within, Table!Edge
<1>3. CASE \E e \in Table!Edge : Table!Join({e}) /\ UNCHANGED fresh
  BY <1>3 DEF Change, Table!Join, Table!Within, Table!Edge
<1>4. QED  BY <1>1, <1>2, <1>3 DEF Change

LEMMA InitIInv == Init => IInv
<1>1. SUFFICES ASSUME Init PROVE IInv
  OBVIOUS
<1>2. GraphSound
  BY <1>1, GraphsAssumption DEF Init
<1>3. Idle \in Reader
  BY DEF Idle, Reader, Steps, Walk
<1>4. QED
  BY <1>1, <1>2, <1>3, LimitsAssumption DEF Init, IInv, Idle, AnswerIsClosed

WalkSees(w) == w.seeds \cup w.down \cup w.up \cup w.frontier \cup w.next

\* A walk that goes on to rows that exist keeps the invariant.
LEMMA WalkStep ==
    ASSUME IInv, NEW w \in Walk, NEW step \in {"down", "up", "nodes"},
           reader.step \in {"down", "up"},
           WalkSees(w) \subseteq WalkSees(reader.walk) \cup ids,
           WalkOn(step, w), UNCHANGED <<graph, changes>>
    PROVE  IInv'
<1> USE DEF IInv, WalkOn
<1>1. /\ reader'.step = step /\ reader'.walk = w
      /\ reader'.edges = reader.edges /\ reader'.nodes = reader.nodes
      /\ reader'.vector = reader.vector /\ reader'.fts = reader.fts
  BY DEF Reader
<1>2. reader' \in Reader
  BY DEF Reader, Steps
<1>3. Known' \subseteq Known \cup ids
  BY <1>1 DEF Known, WalkSees
<1>4. AnswerIsClosed'
  BY <1>1 DEF AnswerIsClosed
<1> QED
  BY <1>1, <1>2, <1>3, <1>4 DEF graph

LEMMA StepIInv == IInv /\ [Next]_vars => IInv'
<1> SUFFICES ASSUME IInv, [Next]_vars PROVE IInv'
  OBVIOUS
<1> USE DEF IInv
<1>1. ASSUME NEW v \in Rankings(ids), NEW f \in Rankings(ids), Search(v, f) PROVE IInv'
  <2>1. v \in Seq(Id) /\ f \in Seq(Id) /\ ToSet(v) \subseteq ids /\ ToSet(f) \subseteq ids
    <3>1. v \in Seq(ids) /\ f \in Seq(ids) /\ ToSet(v) \subseteq ids /\ ToSet(f) \subseteq ids
      BY RankingOf
    <3> QED BY <3>1
  <2>2. reader = Idle /\ reader.step = "idle"
    BY <1>1 DEF Search
  <2>3. reader' = [reader EXCEPT !.step = "fuse", !.vector = v, !.fts = f, !.changes = changes]
    BY <1>1 DEF Search
  <2>4. /\ reader'.step = "fuse" /\ reader'.vector = v /\ reader'.fts = f
        /\ reader'.walk = Idle.walk /\ reader'.edges = {} /\ reader'.nodes = {}
    BY <2>2, <2>3 DEF Idle, Reader
  <2>5. reader' \in Reader
    <3>1. changes \in Nat
      BY LimitsAssumption
    <3> QED BY <2>1, <2>3, <3>1 DEF Reader, Steps
  <2>6. Known' = ToSet(v) \cup ToSet(f)
    BY <2>4 DEF Known, Idle
  <2>7. AnswerIsClosed'
    BY <2>4 DEF AnswerIsClosed
  <2> QED
    BY <1>1, <2>1, <2>4, <2>5, <2>6, <2>7 DEF Search, graph
<1>2. CASE Fuse
  <2> DEFINE seeds == reciprocal_rank_fusion(reader.vector, reader.fts, TopN)
             step == IF seeds = {} THEN "answered" ELSE "down"
  <2>1. seeds \subseteq ToSet(reader.vector) \cup ToSet(reader.fts)
    BY DEF reciprocal_rank_fusion
  <2>2. ToSet(reader.vector) \cup ToSet(reader.fts) \subseteq Id
    BY DEF Reader, ToSet
  <2>3. reader' = [reader EXCEPT !.step = step, !.vector = <<>>, !.fts = <<>>,
                                 !.walk = StartWalk(seeds)]
    BY <1>2 DEF Fuse
  <2>4. reader.step = "fuse" /\ UNCHANGED <<graph, changes>>
    BY <1>2 DEF Fuse
  <2>5. step \in {"answered", "down"}
    OBVIOUS
  <2> HIDE DEF seeds, step
  <2>6. /\ reader'.step = step /\ reader'.vector = <<>> /\ reader'.fts = <<>>
        /\ reader'.walk = StartWalk(seeds)
        /\ reader'.edges = reader.edges /\ reader'.nodes = reader.nodes
    <3>1. reader \in Reader
      OBVIOUS
    <3>2. reader'.step = step
      BY ONLY <2>3, <3>1 DEF Reader
    <3>3. reader'.vector = <<>>
      BY ONLY <2>3, <3>1 DEF Reader
    <3>4. reader'.fts = <<>>
      BY ONLY <2>3, <3>1 DEF Reader
    <3>5. reader'.walk = StartWalk(seeds)
      BY ONLY <2>3, <3>1 DEF Reader
    <3>6. reader'.edges = reader.edges /\ reader'.nodes = reader.nodes
      BY ONLY <2>3, <3>1 DEF Reader
    <3> QED BY <3>2, <3>3, <3>4, <3>5, <3>6
  <2>7. reader' \in Reader
    <3>1. StartWalk(seeds) \in Walk
      BY <2>1, <2>2 DEF Walk, StartWalk
    <3>2. step \in Steps /\ <<>> \in Seq(Id) /\ reader \in Reader
      BY <2>5 DEF Steps
    <3> QED BY ONLY <2>3, <3>1, <3>2 DEF Reader
  <2>8. Known' = seeds
    BY <2>6 DEF Known, StartWalk, ToSet
  <2>9. AnswerIsClosed'
    BY <2>4, <2>6 DEF AnswerIsClosed
  <2>10. seeds \cap fresh = {}
    BY <2>1, <2>4 DEF Known
  <2> QED
    BY <2>4, <2>5, <2>6, <2>7, <2>8, <2>9, <2>10 DEF graph
<1>3. CASE WalkDown
  <2> DEFINE w == reader.walk
  <2>1. reader.step = "down" /\ UNCHANGED <<graph, changes>>
    BY <1>3 DEF WalkDown
  <2>2. w \in Walk
    BY DEF Reader
  <2>3. ASSUME NEW i \in w.frontier, NEW x \in {DeeperDown(w, w.next \cup Targets(i)),
                                                Onward(w, i, w.next \cup Targets(i))},
               WalkOn("down", x)
        PROVE  IInv'
    <3> DEFINE S == w.next \cup Targets(i)
    <3>1. Targets(i) \subseteq ids
      BY DEF Targets, Table!Within
    <3>2. S \in SUBSET Id /\ S \subseteq w.next \cup ids
      BY <2>2, <3>1 DEF Walk
    <3> HIDE DEF S, w
    <3>3. x \in {DeeperDown(w, S), Onward(w, i, S)}
      BY <2>3 DEF S
    <3>4. x \in Walk
      BY <2>2, <3>2, <3>3, WalkGoes
    <3>5. WalkSees(x) \subseteq WalkSees(w) \cup S
      <4>1. CASE x = DeeperDown(w, S)
        BY <2>2, <4>1, DeeperDownFields DEF WalkSees
      <4>2. CASE x = Onward(w, i, S)
        BY <2>2, <4>2, OnwardFields DEF WalkSees
      <4> QED
        BY <3>3, <4>1, <4>2
    <3>6. WalkSees(x) \subseteq WalkSees(w) \cup ids
      BY <3>2, <3>5 DEF WalkSees
    <3> QED
      BY <2>1, <2>3, <3>4, <3>6, WalkStep DEF w
  <2>4. CASE WalkOn("up", StartUp(w))
    <3> HIDE DEF w
    <3>1. StartUp(w) \in Walk /\ WalkSees(StartUp(w)) \subseteq WalkSees(w)
      BY <2>2, WalkGoes, StartUpFields DEF WalkSees
    <3> QED
      BY <2>1, <2>4, <3>1, WalkStep DEF w
  <2> QED
    BY <1>3, <2>3, <2>4 DEF WalkDown
<1>4. CASE WalkUp
  <2> DEFINE w == reader.walk
  <2>1. reader.step = "up" /\ UNCHANGED <<graph, changes>>
    BY <1>4 DEF WalkUp
  <2>2. w \in Walk
    BY DEF Reader
  <2>3. ASSUME NEW i \in w.frontier, NEW x \in {DeeperUp(w, w.next \cup Sources(i)),
                                                Onward(w, i, w.next \cup Sources(i))},
               WalkOn("up", x)
        PROVE  IInv'
    <3> DEFINE S == w.next \cup Sources(i)
    <3>1. Sources(i) \subseteq ids
      BY DEF Sources, Table!Within
    <3>2. S \in SUBSET Id /\ S \subseteq w.next \cup ids
      BY <2>2, <3>1 DEF Walk
    <3> HIDE DEF S, w
    <3>3. x \in {DeeperUp(w, S), Onward(w, i, S)}
      BY <2>3 DEF S
    <3>4. x \in Walk
      BY <2>2, <3>2, <3>3, WalkGoes
    <3>5. WalkSees(x) \subseteq WalkSees(w) \cup S
      <4>1. CASE x = DeeperUp(w, S)
        BY <2>2, <4>1, DeeperUpFields DEF WalkSees
      <4>2. CASE x = Onward(w, i, S)
        BY <2>2, <4>2, OnwardFields DEF WalkSees
      <4> QED
        BY <3>3, <4>1, <4>2
    <3>6. WalkSees(x) \subseteq WalkSees(w) \cup ids
      BY <3>2, <3>5 DEF WalkSees
    <3> QED
      BY <2>1, <2>3, <3>4, <3>6, WalkStep DEF w
  <2>4. CASE WalkOn("nodes", w)
    BY <2>1, <2>2, <2>4, WalkStep
  <2> QED
    BY <1>4, <2>3, <2>4 DEF WalkUp
<1>5. CASE ReadNodes
  <2>1. reader' = [reader EXCEPT !.step = "edges", !.nodes = AllIds \cap ids]
    BY <1>5 DEF ReadNodes
  <2>2. reader.step = "nodes" /\ UNCHANGED <<graph, changes>>
    BY <1>5 DEF ReadNodes
  <2>3. /\ reader'.step = "edges" /\ reader'.nodes = AllIds \cap ids
        /\ reader'.edges = {} /\ reader'.walk = reader.walk
        /\ reader'.vector = reader.vector /\ reader'.fts = reader.fts
    BY <2>1, <2>2 DEF Reader
  <2>4. reader' \in Reader
    BY <2>1 DEF Reader, Steps
  <2>5. Known' = Known /\ AllIds' = AllIds /\ AnswerIsClosed'
    BY <2>3 DEF Known, AllIds, AnswerIsClosed
  <2> QED
    BY <2>2, <2>3, <2>4, <2>5 DEF graph
<1>6. CASE ReadEdges
  <2> DEFINE E == {e \in edges : Among(e, AllIds)}
  <2>1. reader' = [reader EXCEPT !.step = "answered", !.edges = E]
    BY <1>6 DEF ReadEdges
  <2>2. reader.step = "edges" /\ UNCHANGED <<graph, changes>>
    BY <1>6 DEF ReadEdges
  <2>3. E \subseteq Table!Edge
    OBVIOUS
  <2>4. \A e \in E : {e.source, e.target} \subseteq AllIds \cap ids
    BY DEF Among, Table!Within
  <2> HIDE DEF E
  <2>5. /\ reader'.step = "answered" /\ reader'.nodes = reader.nodes
        /\ reader'.edges = E /\ reader'.walk = reader.walk
        /\ reader'.vector = reader.vector /\ reader'.fts = reader.fts
    BY <2>1, <2>2 DEF Reader
  <2>6. reader' \in Reader
    BY <2>1, <2>3 DEF Reader, Steps
  <2>7. AnswerIsClosed'
    BY <2>2, <2>4, <2>5 DEF AnswerIsClosed
  <2>8. Known' = Known
    BY <2>5 DEF Known
  <2> QED
    BY <2>2, <2>5, <2>6, <2>7, <2>8 DEF graph
<1>7. CASE Change
  <2>1. GraphSound' /\ fresh' \subseteq fresh /\ ids' \subseteq ids \cup fresh /\ UNCHANGED reader
    BY <1>7, ChangeIsSound
  <2>2. Known' = Known /\ AllIds' = AllIds /\ AnswerIsClosed' /\ changes' \in 0 .. MaxChanges
    BY <1>7, <2>1, LimitsAssumption DEF Change, Known, AllIds, AnswerIsClosed
  <2>3. AllIds \cap fresh = {} \/ reader.step = "idle"
    BY DEF AllIds, Known
  <2> QED BY <2>1, <2>2, <2>3
<1>8. CASE UNCHANGED vars
  BY <1>8 DEF vars, graph, Known, AllIds, AnswerIsClosed
<1> QED
  BY <1>1, <1>2, <1>3, <1>4, <1>5, <1>6, <1>7, <1>8 DEF Next, traverse_code_graph

\* No walk gets deeper than it may.
DepthFits == reader.walk.depth <= IF reader.step = "down" THEN MaxDown ELSE MaxUp

LEMMA DepthStep == IInv /\ DepthFits /\ [Next]_vars => DepthFits'
<1> SUFFICES ASSUME IInv, DepthFits, [Next]_vars PROVE DepthFits'
  OBVIOUS
<1> USE LimitsAssumption DEF DepthFits
<1>1. reader \in Reader /\ reader.walk \in Walk /\ reader.walk.depth \in Nat
  BY DEF IInv, Reader, Walk
<1>2. ASSUME NEW v \in Rankings(ids), NEW f \in Rankings(ids), Search(v, f) PROVE DepthFits'
  <2>1. reader'.step = "fuse" /\ reader'.walk = reader.walk
    BY <1>1, <1>2 DEF Search, Reader
  <2> QED BY <1>2, <2>1 DEF Search
<1>3. CASE Fuse
  <2>1. reader'.walk = StartWalk(reciprocal_rank_fusion(reader.vector, reader.fts, TopN))
    BY <1>1, <1>3 DEF Fuse, Reader
  <2>2. reader'.walk.depth = 0
    BY <2>1 DEF StartWalk
  <2> QED BY <2>2
<1>4. CASE WalkDown
  BY <1>1, <1>4, DownStep DEF GoesOn, Moves
<1>5. CASE WalkUp
  BY <1>1, <1>5, UpStep DEF GoesOn, Moves
<1>6. CASE ReadNodes \/ ReadEdges
  <2>1. reader'.step \in {"edges", "answered"} /\ reader'.walk = reader.walk
    BY <1>1, <1>6 DEF ReadNodes, ReadEdges, Reader
  <2> QED BY <1>6, <2>1 DEF ReadNodes, ReadEdges
<1>7. CASE Change \/ UNCHANGED vars
  BY <1>7 DEF Change, vars
<1> QED
  BY <1>2, <1>3, <1>4, <1>5, <1>6, <1>7 DEF Next, traverse_code_graph

\* Every variable has its type, and the walks stay within their depths.
THEOREM TypeCorrect == Spec => []TypeOK
<1>1. Init => IInv /\ DepthFits
  BY InitIInv, LimitsAssumption DEF Init, DepthFits, Idle
<1>2. IInv /\ DepthFits /\ [Next]_vars => (IInv /\ DepthFits)'
  BY StepIInv, DepthStep
<1>3. IInv /\ DepthFits => TypeOK
  BY DEF IInv, DepthFits, TypeOK
<1> QED
  BY <1>1, <1>2, <1>3, PTL DEF Spec

\* The edges of an answer join nodes of the answer.
THEOREM AnswersAreClosed == Spec => []AnswerIsClosed
<1>1. IInv => AnswerIsClosed
  BY DEF IInv
<1> QED
  BY <1>1, InitIInv, StepIInv, PTL DEF Spec
-----------------------------------------------------------------------------
(* What is reached in n steps; the definition of Reached is recursive, and  *)
(* a function on 0 .. n exists and is unique by least counterexample.      *)

FiniteSetsOf(F, S) == F \in SUBSET SUBSET S /\ F # {} /\ \A T \in F : IsFiniteSet(T)

Smallest(T, F) == T \in F /\ \A U \in F : U \subseteq T => U = T

\* A family of finite sets has a member that holds no other one.
LEMMA SmallestSet ==
    ASSUME NEW S, NEW F, FiniteSetsOf(F, S)
    PROVE  \E T \in F : Smallest(T, F)
<1> DEFINE R == StrictSubsetOrdering(S)
<1>1. F \subseteq FiniteSubsetsOf(S) /\ F # {}
  BY DEF FiniteSubsetsOf, FiniteSetsOf
<1>2. IsWellFoundedOn(R, FiniteSubsetsOf(S))
  BY FS_StrictSubsetOrderingWellFounded
<1> HIDE DEF R
<1>3. PICK T \in F : \A U \in F : <<U, T>> \notin R
  BY <1>1, <1>2, WFMin
<1>4. ASSUME NEW U \in F, U \subseteq T PROVE U = T
  <2>1. <<U, T>> \in (SUBSET S) \X (SUBSET S) /\ <<U, T>>[1] = U /\ <<U, T>>[2] = T
    BY DEF FiniteSetsOf
  <2>2. <<U, T>> \notin R
    BY <1>3
  <2> QED
    BY <1>4, <2>1, <2>2 DEF R, StrictSubsetOrdering
<1> QED
  BY <1>3, <1>4 DEF Smallest

Least(n, S) == n \in S /\ \A m \in S : n <= m

\* A set of numbers that is not empty has a least one.
LEMMA LeastNumber ==
    ASSUME NEW S \in SUBSET Nat, S # {}
    PROVE  \E n \in S : Least(n, S)
<1> DEFINE F == {0 .. n : n \in S}
<1>1. FiniteSetsOf(F, Nat)
  <2>1. ASSUME NEW n \in S PROVE IsFiniteSet(0 .. n) /\ 0 .. n \in SUBSET Nat
    BY 0 \in Int, n \in Int, FS_Interval
  <2> QED
    BY <2>1 DEF FiniteSetsOf
<1>2. PICK T \in F : Smallest(T, F)
  <2> HIDE DEF F
  <2> QED
    BY <1>1, SmallestSet
<1>3. PICK n \in S : T = 0 .. n
  BY <1>2
<1>4. ASSUME NEW m \in S PROVE n <= m
  <2>1. SUFFICES ASSUME m < n PROVE FALSE
    BY <1>3
  <2>2. 0 .. m \subseteq T /\ n \in T /\ n \notin 0 .. m
    BY <1>3, <2>1
  <2> QED
    BY <1>2, <2>2 DEF Smallest
<1> QED
  BY <1>3, <1>4 DEF Least

Image(X, R) == {p[2] : p \in {p \in R : p[1] \in X}}

\* f is what Reached(S, n, R) defines by recursion.
Reaches(f, n, S, R) ==
    f = [i \in 0 .. n |-> IF i = 0 THEN S ELSE f[i - 1] \cup Image(f[i - 1], R)]

Follows(f, n, S, R) == f[0] = S /\ \A i \in 1 .. n : f[i] = f[i - 1] \cup Image(f[i - 1], R)

LEMMA ReachesSays ==
    ASSUME NEW f, NEW n \in Nat, NEW S, NEW R, Reaches(f, n, S, R)
    PROVE  Follows(f, n, S, R)
<1>1. 0 \in 0 .. n
  OBVIOUS
<1>2. \A i \in 1 .. n : i \in 0 .. n /\ i # 0
  OBVIOUS
<1>3. f[0] = S
  BY <1>1 DEF Reaches
<1>4. ASSUME NEW i \in 1 .. n PROVE f[i] = f[i - 1] \cup Image(f[i - 1], R)
  BY <1>2 DEF Reaches
<1> QED
  BY <1>3, <1>4 DEF Follows

LEMMA ReachesIf ==
    ASSUME NEW f, NEW n \in Nat, NEW S, NEW R,
           f = [i \in 0 .. n |-> f[i]], Follows(f, n, S, R)
    PROVE  Reaches(f, n, S, R)
<1>1. \A i \in 0 .. n : f[i] = IF i = 0 THEN S ELSE f[i - 1] \cup Image(f[i - 1], R)
  <2>1. \A i \in 0 .. n : i = 0 \/ i \in 1 .. n
    OBVIOUS
  <2> QED
    BY <2>1 DEF Follows
<1> QED
  BY <1>1 DEF Reaches

\* One more step.
LEMMA ReachesOn ==
    ASSUME NEW f, NEW n \in Nat, NEW S, NEW R, Reaches(f, n, S, R)
    PROVE  \E g : Reaches(g, n + 1, S, R)
<1> DEFINE g == [i \in 0 .. (n + 1) |-> IF i \in 0 .. n THEN f[i] ELSE f[n] \cup Image(f[n], R)]
<1>1. \A i \in 0 .. n : g[i] = f[i] /\ i \in 0 .. (n + 1)
  OBVIOUS
<1>2. g[n + 1] = f[n] \cup Image(f[n], R)
  BY n + 1 \in 0 .. (n + 1), n + 1 \notin 0 .. n
<1>3. g = [i \in 0 .. (n + 1) |-> g[i]]
  OBVIOUS
<1> HIDE DEF g
<1>4. f[0] = S /\ \A i \in 1 .. n : f[i] = f[i - 1] \cup Image(f[i - 1], R)
  BY ReachesSays DEF Follows
<1>5. g[0] = S
  BY <1>1, <1>4
<1>6. ASSUME NEW i \in 1 .. (n + 1) PROVE g[i] = g[i - 1] \cup Image(g[i - 1], R)
  <2>1. g[i - 1] = f[i - 1]
    BY <1>1
  <2>2. CASE i = n + 1
    BY <1>2, <2>1, <2>2
  <2>3. CASE i # n + 1
    <3>1. i \in 1 .. n /\ i \in 0 .. n
      BY <2>3
    <3> QED
      BY <1>1, <1>4, <2>1, <3>1
  <2> QED
    BY <2>2, <2>3
<1> DEFINE k == n + 1
<1>7. k \in Nat /\ g = [i \in 0 .. k |-> g[i]] /\ Follows(g, k, S, R)
  BY <1>3, <1>5, <1>6 DEF Follows
<1> HIDE DEF k
<1>8. Reaches(g, k, S, R)
  BY <1>7, ReachesIf
<1> QED
  BY <1>8 DEF k

LEMMA ReachesExists ==
    ASSUME NEW n \in Nat, NEW S, NEW R
    PROVE  \E f : Reaches(f, n, S, R)
<1> DEFINE P(k) == \E f : Reaches(f, k, S, R)
           Bad == {k \in Nat : ~P(k)}
<1>1. P(0)
  <2> DEFINE f == [i \in 0 .. 0 |-> S]
  <2>1. Reaches(f, 0, S, R)
    BY DEF Reaches
  <2> QED
    BY <2>1
<1>2. ASSUME NEW k \in Nat, P(k) PROVE P(k + 1)
  BY <1>2, ReachesOn
<1> HIDE DEF P
<1>3. SUFFICES ASSUME Bad # {} PROVE FALSE
  BY DEF P
<1>4. PICK k \in Bad : Least(k, Bad)
  BY <1>3, LeastNumber
<1>5. k \in Nat /\ k # 0
  BY <1>1, <1>4
<1>6. k - 1 \in Nat /\ k - 1 \notin Bad /\ (k - 1) + 1 = k
  BY <1>4, <1>5 DEF Least
<1> QED
  BY <1>2, <1>4, <1>6

LEMMA ReachesUnique ==
    ASSUME NEW n \in Nat, NEW m \in Nat, n <= m, NEW S, NEW R, NEW f, NEW g,
           Reaches(f, n, S, R), Reaches(g, m, S, R)
    PROVE  \A i \in 0 .. n : f[i] = g[i]
<1> DEFINE Bad == {i \in Nat : i \in 0 .. n /\ f[i] # g[i]}
<1>1. SUFFICES ASSUME Bad # {} PROVE FALSE
  OBVIOUS
<1>2. PICK k \in Bad : Least(k, Bad)
  BY <1>1, LeastNumber
<1>3. Follows(f, n, S, R) /\ Follows(g, m, S, R)
  BY ReachesSays
<1>4. k \in 1 .. n /\ k \in 1 .. m /\ f[k] # g[k]
  BY <1>2, <1>3 DEF Follows
<1>5. k - 1 \in Nat /\ k - 1 \in 0 .. n /\ k - 1 \notin Bad
  BY <1>2, <1>4 DEF Least
<1>6. f[k - 1] = g[k - 1]
  BY <1>5
<1>7. /\ f[k] = f[k - 1] \cup Image(f[k - 1], R)
      /\ g[k] = g[k - 1] \cup Image(g[k - 1], R)
  BY <1>3, <1>4 DEF Follows
<1> QED
  BY <1>4, <1>6, <1>7

LEMMA ReachedValue ==
    ASSUME NEW n \in Nat, NEW S, NEW R
    PROVE  \E f : Reaches(f, n, S, R) /\ Reached(S, n, R) = f[n]
<1>1. \E f : Reaches(f, n, S, R)
  BY ReachesExists
<1>2. \E f : f = [i \in 0 .. n |-> IF i = 0 THEN S
                                   ELSE f[i - 1] \cup {p[2] : p \in {p \in R : p[1] \in f[i - 1]}}]
  BY <1>1 DEF Reaches, Image
<1> DEFINE r == CHOOSE f : f = [i \in 0 .. n |-> IF i = 0 THEN S
                                   ELSE f[i - 1] \cup {p[2] : p \in {p \in R : p[1] \in f[i - 1]}}]
<1>3. Reached(S, n, R) = r[n]
  BY DEF Reached
<1>4. r = [i \in 0 .. n |-> IF i = 0 THEN S
                            ELSE r[i - 1] \cup {p[2] : p \in {p \in R : p[1] \in r[i - 1]}}]
  BY <1>2
<1> HIDE DEF r
<1>5. Reaches(r, n, S, R)
  BY <1>4 DEF Reaches, Image
<1> QED
  BY <1>3, <1>5

LEMMA ReachedStart ==
    ASSUME NEW S, NEW R PROVE Reached(S, 0, R) = S
<1>1. PICK f : Reaches(f, 0, S, R) /\ Reached(S, 0, R) = f[0]
  BY ReachedValue
<1> QED
  BY <1>1, ReachesSays DEF Follows

LEMMA ReachedNext ==
    ASSUME NEW n \in Nat, NEW S, NEW R
    PROVE  Reached(S, n + 1, R) = Reached(S, n, R) \cup Image(Reached(S, n, R), R)
<1>1. PICK f : Reaches(f, n, S, R) /\ Reached(S, n, R) = f[n]
  BY ReachedValue
<1>2. PICK g : Reaches(g, n + 1, S, R) /\ Reached(S, n + 1, R) = g[n + 1]
  BY ReachedValue
<1>3. f[n] = g[n]
  BY <1>1, <1>2, ReachesUnique
<1>4. g[n + 1] = g[n] \cup Image(g[n], R)
  <2> DEFINE k == n + 1
  <2>1. k \in Nat /\ k \in 1 .. k /\ k - 1 = n
    OBVIOUS
  <2> HIDE DEF k
  <2>2. Reaches(g, k, S, R)
    BY <1>2 DEF k
  <2>3. g[k] = g[k - 1] \cup Image(g[k - 1], R)
    BY <2>1, <2>2, ReachesSays DEF Follows
  <2> QED
    BY <2>1, <2>3 DEF k
<1> QED
  BY <1>1, <1>2, <1>3, <1>4

\* More steps reach more ...
LEMMA ReachedGrows ==
    ASSUME NEW n \in Nat, NEW m \in Nat, n <= m, NEW S, NEW R
    PROVE  Reached(S, n, R) \subseteq Reached(S, m, R)
<1> DEFINE Bad == {k \in Nat : n <= k /\ ~(Reached(S, n, R) \subseteq Reached(S, k, R))}
<1>1. SUFFICES ASSUME Bad # {} PROVE FALSE
  OBVIOUS
<1>2. PICK k \in Bad : Least(k, Bad)
  BY <1>1, LeastNumber
<1>3. k \in Nat /\ n < k
  BY <1>2
<1>4. k - 1 \in Nat /\ k - 1 \notin Bad /\ (k - 1) + 1 = k /\ n <= k - 1
  BY <1>2, <1>3 DEF Least
<1>5. Reached(S, k - 1, R) \subseteq Reached(S, k, R)
  BY <1>4, ReachedNext
<1> QED
  BY <1>2, <1>4, <1>5

\* ... unless no step leads out of what is reached.
LEMMA ReachedStays ==
    ASSUME NEW n \in Nat, NEW m \in Nat, n <= m, NEW S, NEW R,
           Image(Reached(S, n, R), R) \subseteq Reached(S, n, R)
    PROVE  Reached(S, m, R) = Reached(S, n, R)
<1> DEFINE Bad == {k \in Nat : n <= k /\ Reached(S, k, R) # Reached(S, n, R)}
<1>1. SUFFICES ASSUME Bad # {} PROVE FALSE
  OBVIOUS
<1>2. PICK k \in Bad : Least(k, Bad)
  BY <1>1, LeastNumber
<1>3. k \in Nat /\ n < k
  BY <1>2
<1>4. k - 1 \in Nat /\ k - 1 \notin Bad /\ (k - 1) + 1 = k /\ n <= k - 1
  BY <1>2, <1>3 DEF Least
<1>5. Reached(S, k, R) = Reached(S, k - 1, R) \cup Image(Reached(S, k - 1, R), R)
  BY <1>4, ReachedNext
<1> QED
  BY <1>2, <1>4, <1>5

-----------------------------------------------------------------------------
(* A walk, level by level *)

\* Level d of a walk from S along R, in the middle: "found" and S are what d
\* steps reach, and whatever is one step from a node that has left the
\* frontier is among them or in "next".
Level(S, found, frontier, next, d, R) ==
    /\ found \cup S = Reached(S, d, R) /\ found \cap S = {}
    /\ frontier \subseteq found \cup S
    /\ next \subseteq Image(found \cup S, R) \ (found \cup S)
    /\ Image((found \cup S) \ frontier, R) \subseteq found \cup S \cup next

\* The answer that a walk from S down to depth max may give.
Done(S, found, max, R) ==
    /\ found \subseteq Reached(S, max, R) \ S
    /\ Cardinality(found) < MaxNodes => found = Reached(S, max, R) \ S

LEMMA ImageOf ==
    ASSUME NEW X, NEW R, NEW y
    PROVE  y \in Image(X, R) <=> \E p \in R : p[1] \in X /\ p[2] = y
  BY DEF Image

LEMMA ImageSplits ==
    ASSUME NEW X, NEW Y, NEW R
    PROVE  Image(X \cup Y, R) = Image(X, R) \cup Image(Y, R)
  BY DEF Image

LEMMA ImageGrows ==
    ASSUME NEW Y, NEW X \in SUBSET Y, NEW R
    PROVE  Image(X, R) \subseteq Image(Y, R)
  BY DEF Image

LEMMA LevelStart ==
    ASSUME NEW S, NEW R PROVE Level(S, {}, S, {}, 0, R)
<1>1. Image({}, R) = {}
  BY DEF Image
<1> QED
  BY <1>1, ReachedStart DEF Level

\* One node of the frontier, which is not the last.
LEMMA LevelOnward ==
    ASSUME NEW S, NEW found, NEW frontier, NEW next, NEW d, NEW R, NEW i \in frontier,
           Level(S, found, frontier, next, d, R)
    PROVE  Level(S, found, frontier \ {i}, next \cup (Image({i}, R) \ (found \cup S)), d, R)
<1> DEFINE L == found \cup S
<1>1. i \in L
  BY DEF Level
<1>2. L \ (frontier \ {i}) = (L \ frontier) \cup {i}
  BY <1>1
<1>3. Image(L \ (frontier \ {i}), R) = Image(L \ frontier, R) \cup Image({i}, R)
  BY <1>2, ImageSplits
<1>4. Image({i}, R) \subseteq Image(L, R)
  BY <1>1, ImageGrows
<1> QED
  BY <1>3, <1>4 DEF Level

\* The last node of the frontier: a level more.
LEMMA LevelDeeper ==
    ASSUME NEW S, NEW found, NEW next, NEW d \in Nat, NEW R, NEW i, NEW new,
           Level(S, found, {i}, next, d, R),
           new = next \cup (Image({i}, R) \ (found \cup S))
    PROVE  Level(S, found \cup new, new, {}, d + 1, R)
<1> DEFINE L == found \cup S
<1>1. Level(S, found, {i} \ {i}, new, d, R)
  BY LevelOnward
<1>2. Image(L, R) \subseteq L \cup new /\ new \subseteq Image(L, R) \ L
  BY <1>1 DEF Level
<1>3. Reached(S, d + 1, R) = L \cup Image(L, R) /\ found \cap S = {}
  BY ReachedNext DEF Level
<1>4. (found \cup new) \cup S = Reached(S, d + 1, R) /\ (found \cup new) \cap S = {}
  BY <1>2, <1>3
<1>5. ((found \cup new) \cup S) \ new = L
  BY <1>2
<1> QED
  BY <1>2, <1>4, <1>5 DEF Level

\* Where a walk stops between two levels, it has found what it should.
LEMMA LevelDone ==
    ASSUME NEW S, NEW found, NEW frontier, NEW d \in Nat, NEW max \in Nat, NEW R,
           Level(S, found, frontier, {}, d, R), d <= max,
           frontier = {} \/ ~(d < max) \/ ~(Cardinality(found) < MaxNodes)
    PROVE  Done(S, found, max, R)
<1>1. found = Reached(S, d, R) \ S
  BY DEF Level
<1>2. CASE frontier = {}
  <2>1. Image(Reached(S, d, R), R) \subseteq Reached(S, d, R)
    BY <1>2 DEF Level
  <2>2. Reached(S, max, R) = Reached(S, d, R)
    BY <2>1, ReachedStays
  <2> QED
    BY <1>1, <2>2 DEF Done
<1>3. CASE ~(d < max)
  <2>1. d = max
    BY <1>3
  <2> QED
    BY <1>1, <2>1 DEF Done
<1>4. CASE ~(Cardinality(found) < MaxNodes)
  <2>1. Reached(S, d, R) \subseteq Reached(S, max, R)
    BY ReachedGrows
  <2> QED
    BY <1>1, <1>4, <2>1 DEF Done
<1> QED
  BY <1>2, <1>3, <1>4

LEMMA TargetsAreAhead ==
    ASSUME NEW i
    PROVE  /\ Targets(i) = Image({i}, Calls) \ (reader.walk.down \cup reader.walk.seeds)
           /\ Sources(i) = Image({i}, CalledBy) \ (reader.walk.up \cup reader.walk.seeds)
<1>1. {e.target : e \in {e \in edges : e.source = i}} = Image({i}, Calls)
  <2>1. ASSUME NEW y
        PROVE  y \in {e.target : e \in {e \in edges : e.source = i}} <=> y \in Image({i}, Calls)
    <3>1. y \in Image({i}, Calls) <=> \E e \in edges : e.source = i /\ e.target = y
      <4>1. y \in Image({i}, Calls) <=> \E p \in Calls : p[1] \in {i} /\ p[2] = y
        BY ImageOf
      <4>2. ASSUME NEW e \in edges
            PROVE  <<e.source, e.target>>[1] = e.source /\ <<e.source, e.target>>[2] = e.target
        OBVIOUS
      <4>3. ASSUME NEW p \in Calls, p[1] \in {i}, p[2] = y
            PROVE  \E e \in edges : e.source = i /\ e.target = y
        <5>1. PICK e \in edges : p = <<e.source, e.target>>
          BY DEF Calls
        <5> QED
          BY <4>2, <4>3, <5>1
      <4>4. ASSUME NEW e \in edges, e.source = i, e.target = y
            PROVE  \E p \in Calls : p[1] \in {i} /\ p[2] = y
        <5> DEFINE p == <<e.source, e.target>>
        <5>1. p \in Calls
          BY DEF Calls
        <5>2. p[1] = i /\ p[2] = y
          BY <4>2, <4>4
        <5> HIDE DEF p
        <5> QED
          BY <5>1, <5>2
      <4> QED
        BY <4>1, <4>3, <4>4
    <3> QED
      BY <3>1
  <2> QED
    BY <2>1
<1>2. {e.source : e \in {e \in edges : e.target = i}} = Image({i}, CalledBy)
  <2>1. ASSUME NEW y
        PROVE  y \in {e.source : e \in {e \in edges : e.target = i}} <=> y \in Image({i}, CalledBy)
    <3>1. y \in Image({i}, CalledBy) <=> \E e \in edges : e.target = i /\ e.source = y
      <4>1. y \in Image({i}, CalledBy) <=> \E p \in CalledBy : p[1] \in {i} /\ p[2] = y
        BY ImageOf
      <4>2. ASSUME NEW e \in edges
            PROVE  <<e.target, e.source>>[1] = e.target /\ <<e.target, e.source>>[2] = e.source
        OBVIOUS
      <4>3. ASSUME NEW p \in CalledBy, p[1] \in {i}, p[2] = y
            PROVE  \E e \in edges : e.target = i /\ e.source = y
        <5>1. PICK e \in edges : p = <<e.target, e.source>>
          BY DEF CalledBy
        <5> QED
          BY <4>2, <4>3, <5>1
      <4>4. ASSUME NEW e \in edges, e.target = i, e.source = y
            PROVE  \E p \in CalledBy : p[1] \in {i} /\ p[2] = y
        <5> DEFINE p == <<e.target, e.source>>
        <5>1. p \in CalledBy
          BY DEF CalledBy
        <5>2. p[1] = i /\ p[2] = y
          BY <4>2, <4>4
        <5> HIDE DEF p
        <5> QED
          BY <5>1, <5>2
      <4> QED
        BY <4>1, <4>3, <4>4
    <3> QED
      BY <3>1
  <2> QED
    BY <2>1
<1> QED
  BY <1>1, <1>2 DEF Targets, Sources

-----------------------------------------------------------------------------
(* An analysis that no change of the graph came between *)

LevelOf(found, max, R) ==
    LET w == reader.walk
    IN  /\ Level(w.seeds, found, w.frontier, w.next, w.depth, R)
        /\ w.depth <= max
        /\ w.next # {} => GoesOn(found, max)

\* What it has found so far.
Found ==
    LET w == reader.walk
    IN  /\ Known \subseteq ids
        /\ reader.step = "down" => w.up = {} /\ LevelOf(w.down, MaxDown, Calls)
        /\ reader.step = "up" => Done(w.seeds, w.down, MaxDown, Calls)
                                 /\ LevelOf(w.up, MaxUp, CalledBy)
        /\ reader.step \in {"nodes", "edges", "answered"} /\ w.seeds # {} =>
              Done(w.seeds, w.down, MaxDown, Calls) /\ Done(w.seeds, w.up, MaxUp, CalledBy)
        /\ reader.step \in {"edges", "answered"} /\ w.seeds # {} => reader.nodes = AllIds

Undisturbed == reader.step # "idle" /\ reader.changes = changes

WalkInv == reader.changes <= changes /\ (Undisturbed => Found)

\* One more node of a level.
LEMMA LevelMoves ==
    ASSUME NEW R, NEW max \in Nat, NEW found, NEW foundNext, NEW i \in reader.walk.frontier,
           reader.walk.depth \in Nat, LevelOf(found, max, R), GoesOn(found, max),
           reader'.walk.seeds = reader.walk.seeds,
           Moves(found, foundNext,
                 reader.walk.next \cup (Image({i}, R) \ (found \cup reader.walk.seeds)), i)
    PROVE  LET x == reader'.walk
           IN  /\ Level(x.seeds, foundNext, x.frontier, x.next, x.depth, R)
               /\ x.depth <= max
               /\ x.next # {} => x.frontier # {} /\ x.depth < max /\ Cardinality(foundNext) < MaxNodes
<1> DEFINE w == reader.walk
           x == reader'.walk
           new == w.next \cup (Image({i}, R) \ (found \cup w.seeds))
<1>1. /\ Level(w.seeds, found, w.frontier, w.next, w.depth, R)
      /\ w.frontier # {} /\ w.depth < max /\ Cardinality(found) < MaxNodes
  BY DEF LevelOf, GoesOn
<1>2. x.seeds = w.seeds /\ Moves(found, foundNext, new, i)
  OBVIOUS
<1> HIDE DEF new
<1>3. CASE /\ w.frontier = {i} /\ foundNext = found \cup new
           /\ x.frontier = new /\ x.next = {} /\ x.depth = w.depth + 1
  <2>1. Level(w.seeds, found, {i}, w.next, w.depth, R)
    BY <1>1, <1>3
  <2>2. Level(w.seeds, found \cup new, new, {}, w.depth + 1, R)
    BY <2>1, LevelDeeper DEF new
  <2>3. w.depth + 1 <= max
    BY <1>1
  <2> QED
    BY <1>2, <1>3, <2>2, <2>3
<1>4. CASE /\ w.frontier # {i} /\ foundNext = found
           /\ x.frontier = w.frontier \ {i} /\ x.next = new /\ x.depth = w.depth
  <2>1. Level(w.seeds, found, w.frontier \ {i}, new, w.depth, R)
    BY <1>1, LevelOnward DEF new
  <2>2. w.frontier \ {i} # {}
    BY <1>4
  <2> QED
    BY <1>1, <1>2, <1>4, <2>1, <2>2
<1> QED
  BY <1>2, <1>3, <1>4 DEF Moves

\* The walk is over.
LEMMA LevelEnds ==
    ASSUME NEW R, NEW max \in Nat, NEW found, reader.walk.depth \in Nat,
           LevelOf(found, max, R), ~GoesOn(found, max)
    PROVE  reader.walk.next = {} /\ Done(reader.walk.seeds, found, max, R)
<1> DEFINE w == reader.walk
<1>1. /\ Level(w.seeds, found, w.frontier, w.next, w.depth, R) /\ w.depth <= max
      /\ w.next = {}
  BY DEF LevelOf
<1>2. w.frontier = {} \/ ~(w.depth < max) \/ ~(Cardinality(found) < MaxNodes)
  BY DEF GoesOn
<1>3. Level(w.seeds, found, w.frontier, {}, w.depth, R)
  BY <1>1
<1> HIDE DEF w
<1>4. w.depth \in Nat
  BY DEF w
<1>5. Done(w.seeds, found, max, R)
  BY <1>1, <1>2, <1>3, <1>4, LevelDone
<1> QED
  BY <1>1, <1>5 DEF w

LEMMA DownFinds ==
    ASSUME IInv, WalkInv, WalkDown PROVE WalkInv'
<1> DEFINE w == reader.walk
           x == reader'.walk
<1>1. /\ reader \in Reader /\ w \in Walk /\ w.depth \in Nat
      /\ MaxDown \in Nat /\ MaxUp \in Nat
  BY LimitsAssumption DEF IInv, Reader, Walk
<1>2. /\ reader.step = "down" /\ WalkKeeps /\ x.up = w.up
  BY <1>1, DownStep
<1>3. /\ reader'.changes = reader.changes /\ changes' = changes /\ edges' = edges /\ ids' = ids
      /\ x.seeds = w.seeds /\ reader'.vector = reader.vector /\ reader'.fts = reader.fts
  BY <1>2 DEF WalkKeeps
<1>4. SUFFICES ASSUME reader.changes = changes PROVE Found'
  BY <1>3 DEF WalkInv, Undisturbed
<1>5. Known \subseteq ids /\ w.up = {} /\ LevelOf(w.down, MaxDown, Calls)
  BY <1>2, <1>4 DEF WalkInv, Undisturbed, Found
<1>6. Calls' = Calls /\ CalledBy' = CalledBy
  BY <1>3 DEF Calls, CalledBy
<1>7. ASSUME NEW i \in w.frontier, reader'.step = "down", GoesOn(w.down, MaxDown),
             Moves(w.down, x.down, w.next \cup Targets(i), i)
      PROVE  Found'
  <2> DEFINE new == w.next \cup Targets(i)
  <2>1. Targets(i) = Image({i}, Calls) \ (w.down \cup w.seeds) /\ Targets(i) \subseteq ids
    <3>1. Targets(i) \subseteq ids
      BY DEF IInv, Targets, Table!Within
    <3> QED
      BY <3>1, TargetsAreAhead
  <2>2. /\ Level(x.seeds, x.down, x.frontier, x.next, x.depth, Calls)
        /\ x.depth <= MaxDown
        /\ x.next # {} => x.frontier # {} /\ x.depth < MaxDown /\ Cardinality(x.down) < MaxNodes
    BY <1>1, <1>3, <1>5, <1>7, <2>1, LevelMoves
  <2>3. LevelOf(w.down, MaxDown, Calls)'
    BY <1>6, <2>2 DEF LevelOf, GoesOn
  <2>4. Known' \subseteq ids'
    <3>1. x.down \subseteq w.down \cup new /\ x.frontier \subseteq w.frontier \cup new /\ x.next \subseteq new
      BY <1>7 DEF Moves
    <3>2. new \subseteq ids
      BY <1>5, <2>1 DEF Known
    <3> HIDE DEF new
    <3> QED
      BY <1>2, <1>3, <1>5, <3>1, <3>2 DEF Known
  <2> QED
    BY <1>2, <1>5, <1>7, <2>3, <2>4 DEF Found
<1>8. ASSUME ~GoesOn(w.down, MaxDown), reader'.step = "up", x.down = w.down, x.next = w.next,
             x.frontier = w.seeds, x.depth = 0
      PROVE  Found'
  <2>1. w.next = {} /\ Done(w.seeds, w.down, MaxDown, Calls)
    BY <1>1, <1>5, <1>8, LevelEnds
  <2>2. Level(x.seeds, x.up, x.frontier, x.next, x.depth, CalledBy)
    BY <1>2, <1>3, <1>5, <1>8, <2>1, LevelStart
  <2>3. LevelOf(w.up, MaxUp, CalledBy)'
    BY <1>1, <1>6, <1>8, <2>1, <2>2 DEF LevelOf
  <2>4. Known' \subseteq ids'
    BY <1>2, <1>3, <1>5, <1>8 DEF Known
  <2>5. Done(w.seeds, w.down, MaxDown, Calls)'
    BY <1>3, <1>6, <1>8, <2>1 DEF Done
  <2> QED
    BY <1>8, <2>3, <2>4, <2>5 DEF Found
<1>9. \/ GoesOn(w.down, MaxDown) /\ reader'.step = "down"
         /\ \E i \in w.frontier : Moves(w.down, x.down, w.next \cup Targets(i), i)
      \/ ~GoesOn(w.down, MaxDown) /\ reader'.step = "up" /\ x.down = w.down /\ x.next = w.next
         /\ x.frontier = w.seeds /\ x.depth = 0
  BY <1>1, DownStep
<1> QED
  BY <1>7, <1>8, <1>9

LEMMA UpFinds ==
    ASSUME IInv, WalkInv, WalkUp PROVE WalkInv'
<1> DEFINE w == reader.walk
           x == reader'.walk
<1>1. reader \in Reader /\ w \in Walk /\ w.depth \in Nat /\ MaxUp \in Nat
  BY LimitsAssumption DEF IInv, Reader, Walk
<1>2. reader.step = "up" /\ WalkKeeps /\ x.down = w.down
  BY <1>1, UpStep
<1>3. /\ reader'.changes = reader.changes /\ changes' = changes /\ edges' = edges /\ ids' = ids
      /\ x.seeds = w.seeds /\ reader'.vector = reader.vector /\ reader'.fts = reader.fts
  BY <1>2 DEF WalkKeeps
<1>4. SUFFICES ASSUME reader.changes = changes PROVE Found'
  BY <1>3 DEF WalkInv, Undisturbed
<1>5. /\ Known \subseteq ids /\ Done(w.seeds, w.down, MaxDown, Calls)
      /\ LevelOf(w.up, MaxUp, CalledBy)
  BY <1>2, <1>4 DEF WalkInv, Undisturbed, Found
<1>6. Calls' = Calls /\ CalledBy' = CalledBy
  BY <1>3 DEF Calls, CalledBy
<1>7. Done(w.seeds, w.down, MaxDown, Calls)'
  BY <1>2, <1>3, <1>5, <1>6 DEF Done
<1>8. ASSUME NEW i \in w.frontier, reader'.step = "up", GoesOn(w.up, MaxUp),
             Moves(w.up, x.up, w.next \cup Sources(i), i)
      PROVE  Found'
  <2> DEFINE new == w.next \cup Sources(i)
  <2>1. Sources(i) = Image({i}, CalledBy) \ (w.up \cup w.seeds) /\ Sources(i) \subseteq ids
    <3>1. Sources(i) \subseteq ids
      BY DEF IInv, Sources, Table!Within
    <3> QED
      BY <3>1, TargetsAreAhead
  <2>2. /\ Level(x.seeds, x.up, x.frontier, x.next, x.depth, CalledBy)
        /\ x.depth <= MaxUp
        /\ x.next # {} => x.frontier # {} /\ x.depth < MaxUp /\ Cardinality(x.up) < MaxNodes
    BY <1>1, <1>3, <1>5, <1>8, <2>1, LevelMoves
  <2>3. LevelOf(w.up, MaxUp, CalledBy)'
    BY <1>6, <2>2 DEF LevelOf, GoesOn
  <2>4. Known' \subseteq ids'
    <3>1. x.up \subseteq w.up \cup new /\ x.frontier \subseteq w.frontier \cup new /\ x.next \subseteq new
      BY <1>8 DEF Moves
    <3>2. new \subseteq ids
      BY <1>5, <2>1 DEF Known
    <3> HIDE DEF new
    <3> QED
      BY <1>2, <1>3, <1>5, <3>1, <3>2 DEF Known
  <2> QED
    BY <1>7, <1>8, <2>3, <2>4 DEF Found
<1>9. ASSUME ~GoesOn(w.up, MaxUp), reader'.step = "nodes", reader'.walk = reader.walk
      PROVE  Found'
  <2>1. Done(w.seeds, w.up, MaxUp, CalledBy)
    BY <1>1, <1>5, <1>9, LevelEnds
  <2>2. Done(w.seeds, w.up, MaxUp, CalledBy)'
    BY <1>6, <1>9, <2>1 DEF Done
  <2>3. Known' \subseteq ids'
    BY <1>3, <1>5, <1>9 DEF Known
  <2> QED
    BY <1>7, <1>9, <2>2, <2>3 DEF Found
<1>10. CASE ~GoesOn(w.up, MaxUp) /\ WalkOn("nodes", w)
  <2>1. reader'.step = "nodes" /\ reader'.walk = reader.walk
    BY <1>1, <1>10, WalkOnFields DEF AfterWalk
  <2> QED
    BY <1>9, <1>10, <2>1
<1>11. GoesOn(w.up, MaxUp) => reader'.step = "up" /\ \E i \in w.frontier :
                                  Moves(w.up, x.up, w.next \cup Sources(i), i)
  BY <1>1, UpStep
<1>12. ~GoesOn(w.up, MaxUp) => WalkOn("nodes", w)
  BY DEF WalkUp
<1> QED
  BY <1>8, <1>10, <1>11, <1>12

LEMMA InitFinds == Init => WalkInv
  BY DEF Init, Idle, WalkInv, Undisturbed

LEMMA StepFinds == IInv /\ WalkInv /\ [Next]_vars => WalkInv'
<1> SUFFICES ASSUME IInv, WalkInv, [Next]_vars PROVE WalkInv'
  OBVIOUS
<1>1. reader \in Reader /\ changes \in Nat
  BY LimitsAssumption DEF IInv
<1>2. ASSUME NEW v \in Rankings(ids), NEW f \in Rankings(ids), Search(v, f) PROVE WalkInv'
  <2>1. reader = Idle
    BY <1>2 DEF Search, IInv
  <2>2. /\ reader'.step = "fuse" /\ reader'.vector = v /\ reader'.fts = f
        /\ reader'.walk = Idle.walk /\ reader'.changes = changes
    BY <1>2, <2>1 DEF Search, Idle
  <2>3. UNCHANGED <<ids, changes>>
    BY <1>2 DEF Search, graph
  <2>4. Known' \subseteq ids'
    BY <2>2, <2>3, RankingOf DEF Known, Idle
  <2> QED
    BY <1>1, <2>2, <2>3, <2>4 DEF WalkInv, Undisturbed, Found
<1>3. CASE Fuse
  <2> DEFINE seeds == reciprocal_rank_fusion(reader.vector, reader.fts, TopN)
  <2>1. seeds \subseteq ToSet(reader.vector) \cup ToSet(reader.fts)
    BY DEF reciprocal_rank_fusion
  <2>2. /\ reader'.step = IF seeds = {} THEN "answered" ELSE "down"
        /\ reader'.vector = <<>> /\ reader'.fts = <<>>
        /\ reader'.walk = StartWalk(seeds) /\ reader'.changes = reader.changes
    <3> DEFINE step == IF seeds = {} THEN "answered" ELSE "down"
    <3>1. reader' = [reader EXCEPT !.step = step, !.vector = <<>>, !.fts = <<>>,
                                   !.walk = StartWalk(seeds)]
      BY <1>3 DEF Fuse
    <3> HIDE DEF step, seeds
    <3>2. /\ reader'.step = step /\ reader'.vector = <<>> /\ reader'.fts = <<>>
          /\ reader'.walk = StartWalk(seeds) /\ reader'.changes = reader.changes
      BY ONLY <1>1, <3>1 DEF Reader
    <3> QED
      BY <3>2 DEF step
  <2>3. reader.step = "fuse" /\ UNCHANGED <<ids, edges, changes>>
    BY <1>3 DEF Fuse, graph
  <2> HIDE DEF seeds
  <2>4. /\ reader'.walk.seeds = seeds /\ reader'.walk.down = {} /\ reader'.walk.up = {}
        /\ reader'.walk.frontier = seeds /\ reader'.walk.next = {} /\ reader'.walk.depth = 0
    BY <2>2 DEF StartWalk
  <2>5. SUFFICES ASSUME reader.changes = changes PROVE Found'
    BY <2>2, <2>3 DEF WalkInv, Undisturbed
  <2>6. Known \subseteq ids
    BY <2>3, <2>5 DEF WalkInv, Undisturbed, Found
  <2>7. Known' \subseteq ids'
    BY <2>1, <2>2, <2>3, <2>4, <2>6 DEF Known, ToSet
  <2>8. LevelOf(reader.walk.down, MaxDown, Calls)'
    <3>1. Level(seeds, {}, seeds, {}, 0, Calls')
      BY LevelStart
    <3> QED
      BY <2>4, <3>1, LimitsAssumption DEF LevelOf
  <2> QED
    BY <2>2, <2>4, <2>7, <2>8 DEF Found
<1>4. CASE ReadNodes
  <2>1. /\ reader'.step = "edges" /\ reader'.nodes = AllIds \cap ids
        /\ reader'.walk = reader.walk /\ reader'.changes = reader.changes
        /\ reader'.vector = reader.vector /\ reader'.fts = reader.fts
    BY <1>1, <1>4 DEF ReadNodes, Reader
  <2>2. reader.step = "nodes" /\ UNCHANGED <<ids, edges, changes>>
    BY <1>4 DEF ReadNodes, graph
  <2>3. SUFFICES ASSUME reader.changes = changes PROVE Found'
    BY <2>1, <2>2 DEF WalkInv, Undisturbed
  <2>4. Found
    BY <2>2, <2>3 DEF WalkInv, Undisturbed
  <2>5. Known' = Known /\ AllIds' = AllIds /\ AllIds \subseteq Known /\ Calls' = Calls /\ CalledBy' = CalledBy
    BY <2>1, <2>2 DEF Known, AllIds, Calls, CalledBy
  <2>6. reader'.nodes = AllIds
    BY <2>1, <2>4, <2>5 DEF Found
  <2> QED
    BY <2>1, <2>2, <2>4, <2>5, <2>6 DEF Found, Done
<1>5. CASE ReadEdges
  <2>1. /\ reader'.step = "answered" /\ reader'.nodes = reader.nodes
        /\ reader'.walk = reader.walk /\ reader'.changes = reader.changes
        /\ reader'.vector = reader.vector /\ reader'.fts = reader.fts
    BY <1>1, <1>5 DEF ReadEdges, Reader
  <2>2. reader.step = "edges" /\ UNCHANGED <<ids, edges, changes>>
    BY <1>5 DEF ReadEdges, graph
  <2>3. SUFFICES ASSUME reader.changes = changes PROVE Found'
    BY <2>1, <2>2 DEF WalkInv, Undisturbed
  <2>4. Found
    BY <2>2, <2>3 DEF WalkInv, Undisturbed
  <2>5. Known' = Known /\ AllIds' = AllIds /\ Calls' = Calls /\ CalledBy' = CalledBy
    BY <2>1, <2>2 DEF Known, AllIds, Calls, CalledBy
  <2> QED
    BY <2>1, <2>2, <2>4, <2>5 DEF Found, Done
<1>6. CASE Change
  <2>1. changes' = changes + 1 /\ reader' = reader
    BY <1>6 DEF Change
  <2>2. reader.changes \in Nat
    BY <1>1 DEF Reader
  <2> QED
    BY <1>1, <2>1, <2>2 DEF WalkInv, Undisturbed
<1>7. CASE UNCHANGED vars
  BY <1>7 DEF vars, graph, WalkInv, Undisturbed, Found, Known, AllIds, LevelOf, GoesOn, Calls, CalledBy, Done
<1> QED
  BY <1>2, <1>3, <1>4, <1>5, <1>6, <1>7, DownFinds, UpFinds DEF Next, traverse_code_graph

\* An answer that no change of the graph came between is the neighbourhood of its
\* seeds, as deep as asked for, unless it has max_nodes nodes.
THEOREM AnswersAreNeighbourhoods == Spec => []AnswerIsNeighbourhood
<1>1. WalkInv => AnswerIsNeighbourhood
  <2> SUFFICES ASSUME WalkInv, reader.step = "answered", reader.changes = changes,
                      reader.walk.seeds # {}
               PROVE  /\ Done(reader.walk.seeds, reader.walk.down, MaxDown, Calls)
                      /\ Done(reader.walk.seeds, reader.walk.up, MaxUp, CalledBy)
                      /\ reader.nodes = AllIds
    BY DEF AnswerIsNeighbourhood, Done
  <2> QED
    BY DEF WalkInv, Undisturbed, Found
<1>2. Init => IInv /\ WalkInv
  BY InitIInv, InitFinds
<1>3. IInv /\ WalkInv /\ [Next]_vars => (IInv /\ WalkInv)'
  BY StepIInv, StepFinds
<1> QED
  BY <1>1, <1>2, <1>3, PTL DEF Spec

-----------------------------------------------------------------------------
(* The fusion of two rankings *)

Zero == [num |-> 0, den |-> 1]

LEMMA ZeroShare ==
    ASSUME NEW q, NEW i, i \notin ToSet(q)
    PROVE  WeightIn(q, i) = Zero
BY DEF WeightIn, Zero

LEMMA RankedShare ==
    ASSUME NEW S, NEW q \in Rankings(S), NEW i \in ToSet(q)
    PROVE  \E r \in 1 .. MaxRank : WeightIn(q, i) = Weight(r)
<1>1. PICK n \in 0 .. MaxRank : q \in [1 .. n -> S]
    BY DEF Rankings
<1>2. \E rank \in DOMAIN q : q[rank] = i
    BY DEF ToSet
<1>3. RankIn(q, i) \in DOMAIN q
    BY <1>2 DEF RankIn
<1>4. RankIn(q, i) \in 1 .. MaxRank
    BY <1>1, <1>3, LimitsAssumption
<1> QED
    BY <1>4 DEF WeightIn

LEMMA RankingIsFinite ==
    ASSUME NEW S, NEW q \in Rankings(S)
    PROVE  IsFiniteSet(ToSet(q)) /\ ToSet(q) \subseteq S
<1>1. PICK n \in 0 .. MaxRank : q \in [1 .. n -> S]
    BY DEF Rankings
<1>2. IsFiniteSet(1 .. n)
    BY <1>1, FS_Interval
<1>3. q \in Surjection(1 .. n, ToSet(q))
    BY <1>1 DEF Surjection, ToSet
<1>4. IsFiniteSet(ToSet(q))
    BY <1>2, <1>3, FS_Surjection
<1> QED
    BY <1>1, <1>4 DEF ToSet

LEMMA MoreThanOneShare ==
    ASSUME NEW a \in Nat, NEW c \in Nat, NEW e \in Nat,
           0 < a, 0 < c, a < 2 * e, c < 2 * e
    PROVE  a * c < (a + c) * e
<1>1. a * c < (2 * e) * c
    BY Z3
<1>2. a * c < (2 * e) * a
    BY Z3
<1> QED
    BY <1>1, <1>2, Z3

\* Two ranks, however bad, have a higher score than one, however good.
LEMMA TwoBeatOne ==
    ASSUME MaxRank < RRF_K + 2,
           NEW r \in 1 .. MaxRank, NEW s \in 1 .. MaxRank, NEW t \in 1 .. MaxRank,
           NEW y \in {Plus(Weight(t), Zero), Plus(Zero, Weight(t))}
    PROVE  LET x == Plus(Weight(r), Weight(s))
           IN  Higher(x, y) /\ ~Higher(y, x) /\ ~Equal(y, x)
<1> DEFINE a == RRF_K + r
           c == RRF_K + s
           e == RRF_K + t
           x == Plus(Weight(r), Weight(s))
<1>1. /\ a \in Nat /\ c \in Nat /\ e \in Nat
      /\ 0 < a /\ 0 < c /\ a < 2 * e /\ c < 2 * e
    BY LimitsAssumption
<1>2. Weight(r) = [num |-> 1, den |-> a] /\ Weight(s) = [num |-> 1, den |-> c]
    BY DEF Weight
<1>3. Weight(t) = [num |-> 1, den |-> e]
    BY DEF Weight
<1> HIDE DEF a, c, e
<1>4. x.num = a + c /\ x.den = a * c
    BY <1>1, <1>2 DEF Plus
<1>5. y.num = 1 /\ y.den = e
    BY <1>1, <1>3 DEF Plus, Zero
<1> HIDE DEF x
<1>6. a * c < (a + c) * e
    BY <1>1, MoreThanOneShare
<1>7. a * c \in Nat /\ (a + c) * e \in Nat
    BY <1>1
<1>8. x.num * y.den = (a + c) * e /\ y.num * x.den = a * c
    BY <1>1, <1>4, <1>5, <1>7
<1>9. Higher(x, y) /\ ~Higher(y, x) /\ ~Equal(y, x)
    BY <1>6, <1>7, <1>8 DEF Higher, Equal
<1> QED
    BY <1>9 DEF x

\* Among the ids of two rankings those of both come before the others.
LEMMA BothBeforeOne ==
    ASSUME MaxRank < RRF_K + 2, NEW S, NEW v \in Rankings(S), NEW f \in Rankings(S),
           NEW i \in ToSet(v) \cap ToSet(f),
           NEW j \in ToSet(v) \cup ToSet(f), j \notin ToSet(v) \cap ToSet(f)
    PROVE  Before(v, f, i, j) /\ ~Before(v, f, j, i)
<1>1. PICK r \in 1 .. MaxRank : WeightIn(v, i) = Weight(r)
    BY RankedShare
<1>2. PICK s \in 1 .. MaxRank : WeightIn(f, i) = Weight(s)
    BY RankedShare
<1>3. \E t \in 1 .. MaxRank : Score(v, f, j) \in {Plus(Weight(t), Zero), Plus(Zero, Weight(t))}
  <2>1. CASE j \in ToSet(v)
    <3>1. PICK t \in 1 .. MaxRank : WeightIn(v, j) = Weight(t)
      BY <2>1, RankedShare
    <3>2. WeightIn(f, j) = Zero
      BY <2>1, ZeroShare
    <3> QED
      BY <3>1, <3>2 DEF Score
  <2>2. CASE j \notin ToSet(v)
    <3>1. PICK t \in 1 .. MaxRank : WeightIn(f, j) = Weight(t)
      BY <2>2, RankedShare
    <3>2. WeightIn(v, j) = Zero
      BY <2>2, ZeroShare
    <3> QED
      BY <3>1, <3>2 DEF Score
  <2> QED
    BY <2>1, <2>2
<1>4. Score(v, f, i) = Plus(Weight(r), Weight(s))
    BY <1>1, <1>2 DEF Score
<1>5. /\ Higher(Score(v, f, i), Score(v, f, j))
      /\ ~Higher(Score(v, f, j), Score(v, f, i)) /\ ~Equal(Score(v, f, j), Score(v, f, i))
    BY <1>3, <1>4, TwoBeatOne
<1> QED
    BY <1>5 DEF Before

\* So one that is found once is a seed only if all found twice are.
LEMMA BothAreFirst ==
    ASSUME MaxRank < RRF_K + 2, NEW S, NEW v \in Rankings(S), NEW f \in Rankings(S),
           NEW n \in Nat, NEW i \in ToSet(v) \cap ToSet(f),
           NEW j \in reciprocal_rank_fusion(v, f, n), j \notin ToSet(v) \cap ToSet(f)
    PROVE  i \in reciprocal_rank_fusion(v, f, n)
<1> DEFINE found == ToSet(v) \cup ToSet(f)
           First(k) == {m \in found : Before(v, f, m, k)}
<1>1. j \in found /\ Cardinality(First(j)) < n
    BY DEF reciprocal_rank_fusion
<1>2. First(i) \subseteq ToSet(v) \cap ToSet(f)
    BY BothBeforeOne
<1>3. ToSet(v) \cap ToSet(f) \subseteq First(j)
    BY <1>1, BothBeforeOne
<1>4. IsFiniteSet(found)
    BY RankingIsFinite, FS_Union
<1>5. IsFiniteSet(First(j)) /\ First(i) \subseteq First(j)
    BY <1>2, <1>3, <1>4, FS_Subset
<1>6. /\ Cardinality(First(i)) <= Cardinality(First(j))
      /\ Cardinality(First(i)) \in Nat /\ Cardinality(First(j)) \in Nat
    BY <1>5, FS_Subset, FS_CardinalityType
<1>7. Cardinality(First(i)) < n
    BY <1>1, <1>6
<1> QED
    BY <1>7 DEF reciprocal_rank_fusion

\* What is to be fused are rankings.
RankInv ==
    reader.step = "fuse" => reader.vector \in Rankings(Id) /\ reader.fts \in Rankings(Id)

LEMMA RankingsGrow ==
    ASSUME NEW S, NEW T, S \subseteq T
    PROVE  Rankings(S) \subseteq Rankings(T)
BY DEF Rankings

LEMMA RankStep == IInv /\ RankInv /\ [Next]_vars => RankInv'
<1> SUFFICES ASSUME IInv, RankInv, [Next]_vars PROVE RankInv'
    OBVIOUS
<1>1. reader \in Reader /\ ids \subseteq Id
    BY DEF IInv
<1>2. ASSUME NEW v \in Rankings(ids), NEW f \in Rankings(ids), Search(v, f) PROVE RankInv'
  <2>1. reader'.vector = v /\ reader'.fts = f
    BY <1>1, <1>2 DEF Search, Reader
  <2> QED
    BY <1>1, <2>1, RankingsGrow DEF RankInv
<1>3. CASE Fuse
  <2>1. reader'.step \in {"answered", "down"}
    BY <1>1, <1>3 DEF Fuse, Reader
  <2> QED
    BY <2>1 DEF RankInv
<1>4. CASE WalkDown \/ WalkUp
  BY <1>1, <1>4, DownStep, UpStep DEF RankInv
<1>5. CASE ReadNodes \/ ReadEdges
  <2>1. reader'.step \in {"edges", "answered"}
    BY <1>1, <1>5 DEF ReadNodes, ReadEdges, Reader
  <2> QED
    BY <2>1 DEF RankInv
<1>6. CASE Change \/ UNCHANGED vars
  BY <1>6 DEF Change, vars, RankInv
<1> QED
  BY <1>2, <1>3, <1>4, <1>5, <1>6 DEF Next, traverse_code_graph

FusesBothFirst ==
    Fuse => \A i \in ToSet(reader.vector) \cap ToSet(reader.fts) :
                reader'.walk.seeds \subseteq ToSet(reader.vector) \cap ToSet(reader.fts)
                    \/ i \in reader'.walk.seeds

\* A node that both searches found is a seed before any that one of them
\* found, as long as the rankings are no longer than RRF_K and one more; the
\* searches for seeds have a limit of 25.
THEOREM BothSearchesFirst ==
    MaxRank < RRF_K + 2 /\ Spec => FoundByBothComesFirst
<1> SUFFICES ASSUME MaxRank < RRF_K + 2 PROVE Spec => FoundByBothComesFirst
    OBVIOUS
<1>1. Init => RankInv
    BY DEF Init, Idle, RankInv
<1>2. ASSUME IInv, RankInv, Fuse PROVE FusesBothFirst
  <2> DEFINE v == reader.vector
             f == reader.fts
             seeds == reciprocal_rank_fusion(v, f, TopN)
  <2>1. v \in Rankings(Id) /\ f \in Rankings(Id)
    BY <1>2 DEF RankInv, Fuse
  <2>2. reader'.walk = StartWalk(seeds)
    BY <1>2 DEF Fuse, IInv, Reader
  <2>3. reader'.walk.seeds = seeds
    BY <2>2 DEF StartWalk
  <2>4. ASSUME NEW i \in ToSet(v) \cap ToSet(f), NEW j \in seeds, j \notin ToSet(v) \cap ToSet(f)
        PROVE  i \in seeds
    BY <2>1, <2>4, BothAreFirst, LimitsAssumption
  <2> QED
    BY <2>3, <2>4 DEF FusesBothFirst
<1>3. IInv /\ RankInv /\ [Next]_vars => [FusesBothFirst]_vars
    BY <1>2 DEF FusesBothFirst
<1> QED
    BY <1>1, <1>3, InitIInv, StepIInv, RankStep, PTL DEF Spec, FoundByBothComesFirst, FusesBothFirst
=============================================================================
