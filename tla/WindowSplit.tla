----------------------------- MODULE WindowSplit -----------------------------
(***************************************************************************)
(* The splitter with an overlap: _split_recursive, which is in             *)
(* services/chunking.py (the index of a deployment without a broker) and   *)
(* again in spec/chunking.py (FixedSizeChunker).  A step is one round of   *)
(* its loop.                                                               *)
(***************************************************************************)
EXTENDS TextSplit

CONSTANT Overlap

ASSUME OverlapAssumption == Overlap \in Nat /\ Overlap <= Third

VARIABLES
    from,     \* where the next window starts
    end,      \* where the last one ended
    chunks,   \* chunks so far, with their numbers
    count,    \* how many they are
    done

windowVars == <<text, length, from, end, chunks, count, done>>

WindowInit ==
    /\ SomeText
    /\ from = 0 /\ end = 0
    /\ chunks = {} /\ count = 0 /\ done = FALSE

\* A chunk is numbered by its place in the list; blank ones are dropped.
Add(piece) ==
    IF piece = {} THEN UNCHANGED <<chunks, count>>
    ELSE /\ chunks' = chunks \cup {[index |-> count, body |-> piece]}
         /\ count' = count + 1

\* A text that fits one window is one chunk, which is not stripped.
Whole ==
    /\ ~done /\ length <= Size
    /\ Add(IF \E i \in 0 .. length - 1 : Solid(i) THEN 0 .. length - 1 ELSE {})
    /\ done' = TRUE
    /\ UNCHANGED <<text, length, from, end>>

\* Where a separator starts in the window.
Breaks ==
    UNION {Occurrences(Separators[k], from, WindowEnd(from, length)) : k \in DOMAIN Separators}

IsLast(b) == b \in Breaks /\ \A c \in Breaks : c <= b

\* The window ends behind its last break, unless that is in its first third or
\* the text ends here.  The code counts two characters for every separator.
WindowCut(e) ==
    \/ /\ from + Size < length
       /\ \E b \in Breaks : IsLast(b) /\ b - from > Third /\ e = b + 2
    \/ /\ from + Size < length => \A b \in Breaks : b - from <= Third
       /\ e = WindowEnd(from, length)

\* Mutant: no overlap.
NextWindowWithout(e) == e

NextWindow(e) == IF e - Overlap > from THEN e - Overlap ELSE e

PastEnd(s) == s >= length

Round(e) ==
    /\ ~done /\ length > Size
    /\ WindowCut(e)
    /\ end' = e
    /\ Add(Strip(from, e))
    /\ from' = NextWindow(e)
    /\ done' = PastEnd(from')
    /\ UNCHANGED <<text, length>>

WindowNext ==
    \/ Whole
    \/ \E e \in 0 .. length : Round(e)

WindowSpec == WindowInit /\ [][WindowNext]_windowVars

-----------------------------------------------------------------------------
(* Properties *)

\* The variables keep their types; positions stay within the text.
WindowTypeOK ==
    /\ TextIs
    /\ from \in 0 .. length /\ end \in 0 .. length
    /\ done \in BOOLEAN
    /\ count \in Nat
    /\ chunks \subseteq [index : 0 .. count - 1, body : SUBSET (0 .. length - 1)]

\* Nothing is lost, and what the overlap is for: a phrase no longer than the
\* overlap is found whole in one chunk, wherever the windows were cut.
PhrasesStayWhole ==
    done => \A f, l \in 0 .. length - 1 :
              Solid(f) /\ Solid(l) /\ f <= l /\ l - f <= Overlap =>
                \E c \in chunks : f .. l \subseteq c.body

\* No chunk is longer than the size asked for by more than the one character
\* that counting two for every separator can add.
ChunksFit == \A c \in chunks : \A i, j \in c.body : j - i <= Size
=============================================================================
