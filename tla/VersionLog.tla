----------------------------- MODULE VersionLog -----------------------------
(***************************************************************************)
(* What the versioned rule tables promise their readers: for every stream  *)
(* (a scope, an owner and a section) an append-only log whose entries are  *)
(* numbered 1, 2, 3, ... and never change afterwards.  The promise is      *)
(* stated over the whole log, so that one step may extend several streams  *)
(* at once, as the boot-time seed does.                                    *)
(***************************************************************************)
EXTENDS Naturals

CONSTANTS Streams,  \* the version streams
          Bodies    \* the rule bodies

VARIABLE log        \* the published versions

Entries == [stream : Streams, version : Nat \ {0}, body : Bodies]

\* e is the entry that comes next in its stream: above every version the
\* stream has, with no number left out below it.
IsNext(e) ==
    /\ \A f \in log : f.stream = e.stream => f.version < e.version
    /\ \A k \in 1 .. (e.version - 1) :
          \E f \in log : f.stream = e.stream /\ f.version = k

Init == log = {}

\* At most one new version for each stream; nothing is lost or rewritten.
Append ==
    /\ log \subseteq log'
    /\ log' \subseteq Entries
    /\ \A e \in log' \ log :
          /\ IsNext(e)
          /\ \A f \in log' \ log : f.stream = e.stream => f = e

Next == Append

Spec == Init /\ [][Next]_log
=============================================================================
