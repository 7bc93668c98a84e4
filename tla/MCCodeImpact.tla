---------------------------- MODULE MCCodeImpact ----------------------------
EXTENDS CodeImpact

\* Chains, cycles and forks over four rows, with a fifth id to come.
MCEdges == {<<1, 2>>, <<2, 3>>, <<3, 4>>, <<2, 1>>, <<4, 1>>}
MCGraphs == {[ids |-> 1 .. 4, edges |-> {[source |-> p[1], target |-> p[2]] : p \in E}] :
               E \in SUBSET MCEdges}
=============================================================================
