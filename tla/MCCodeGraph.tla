----------------------------- MODULE MCCodeGraph -----------------------------
EXTENDS CodeGraph

CONSTANTS f1, f2, a, b, c

Code(F, N, E) == [files |-> F, nodes |-> {[symbol |-> n[1], file |-> n[2]] : n \in N}, edges |-> E]

\* A file in two versions, a file that calls into it, a symbol that moved
\* there, and a file that was deleted.
MCPayloads == {
    Code({f1}, {<<a, f1>>, <<b, f1>>}, {<<a, b>>}),
    Code({f1}, {<<a, f1>>}, {}),
    Code({f2}, {<<b, f2>>, <<c, f2>>}, {<<c, a>>, <<c, b>>}),
    Code({f1}, {}, {})}
=============================================================================
