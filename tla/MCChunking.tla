------------------------------ MODULE MCChunking ------------------------------
(***************************************************************************)
(* The two strategies behind IChunkingStrategy, both on the same text: the *)
(* sections first, then the windows with an overlap.                       *)
(***************************************************************************)
EXTENDS SectionSplit, WindowSplit

TextsOf(n, S) == [0 .. n - 1 -> S]

\* Every text of at most five characters, all of six without a heading or with
\* one at the start, longer ones with one kind of blank, and the longest with
\* headings among words, where two sections have a parent.
MCTexts ==
    UNION {TextsOf(n, Chars) : n \in 0 .. 5}
        \cup TextsOf(6, Chars \ {Heading})
        \cup {[i \in 0 .. 5 |-> IF i = 0 THEN Heading ELSE t[i - 1]] :
                t \in TextsOf(5, Chars \ {Heading})}
        \cup UNION {TextsOf(n, {Word, Space, Heading}) : n \in 6 .. 7}
        \cup UNION {TextsOf(n, {Word, Heading}) : n \in 8 .. MaxLength}

MCInit == Init /\ WindowInit

MCNext ==
    \/ Next /\ UNCHANGED <<from, end, chunks, count, done>>
    \/ /\ step = "done" /\ WindowNext
       /\ UNCHANGED <<step, section, start, stop, records, sequence>>

MCSpec == MCInit /\ [][MCNext]_<<vars, windowVars>>
=============================================================================
