------------------------------ MODULE GraphTable ------------------------------
(***************************************************************************)
(* What the tables of the code graph promise to a reader, whatever workers *)
(* do to them: edges join rows that exist, and the id of a row that is     *)
(* gone never names a row again.                                           *)
(***************************************************************************)
CONSTANT Id  \* row ids of code_nodes

VARIABLES
    ids,    \* rows
    edges,  \* edges between them
    fresh   \* ids that no row has had yet

vars == <<ids, edges, fresh>>

Edge == [source : Id, target : Id]

Within(e, I) == e.source \in I /\ e.target \in I

Init == ids \subseteq Id /\ edges \subseteq {e \in Edge : Within(e, ids)} /\ fresh \subseteq Id \ ids

\* Rows go, with their edges.
Remove(gone) ==
    /\ ids' = ids \ gone
    /\ edges' = {e \in edges : Within(e, ids \ gone)}
    /\ fresh' \in SUBSET fresh

Insert(new) ==
    /\ new \subseteq fresh
    /\ ids' = ids \cup new
    /\ fresh' \in SUBSET (fresh \ new)
    /\ UNCHANGED edges

Join(E) ==
    /\ \A e \in E : Within(e, ids)
    /\ edges' = edges \cup E
    /\ fresh' \in SUBSET fresh
    /\ UNCHANGED ids

\* An attempt ends, and with it the ids it might have given.
Forget == fresh' \in SUBSET fresh /\ UNCHANGED <<ids, edges>>

Next ==
    \/ \E gone \in SUBSET ids : Remove(gone)
    \/ \E new \in SUBSET fresh : Insert(new)
    \/ \E E \in SUBSET {e \in Edge : Within(e, ids)} : Join(E)
    \/ Forget

Spec == Init /\ [][Next]_vars
=============================================================================
