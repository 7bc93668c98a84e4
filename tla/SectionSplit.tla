----------------------------- MODULE SectionSplit -----------------------------
(***************************************************************************)
(* HeadingAwareParentChildChunker, which cuts every document that is       *)
(* indexed by a service: a section for each heading, children of at most   *)
(* Size characters that are embedded, and for a longer section a parent    *)
(* that search answers with its children.  A step is one round of chunk    *)
(* or of the loop of _split_text.                                          *)
(***************************************************************************)
EXTENDS TextSplit

CONSTANTS
    NoParent,    \* parent_chunk_index of an independent child
    NoHeading    \* section_heading before the first heading

ASSUME NoParentAssumption == NoParent \notin Int /\ NoHeading \notin Int

VARIABLES
    step,       \* "section", "pieces" or "done"
    section,    \* where the current section starts
    start,      \* where the next piece starts ...
    stop,       \* ... and the stripped section ends
    records,    \* the records so far
    parentSeq,
    childSeq

sequence == <<parentSeq, childSeq>>
vars == <<text, length, step, section, start, stop, records, sequence>>

Positions == 0 .. length - 1
HeadingOf(b) == IF b = 0 THEN NoHeading ELSE b - 1

Init ==
    /\ SomeText
    /\ step = "section" /\ section = 0
    /\ start = 0 /\ stop = 0
    /\ records = {}
    /\ parentSeq = -1 /\ childSeq = 0

\* Mutant: sections end at blank lines too.
EndsSectionAtNewline(e) ==
    /\ e \in section .. length
    /\ \A i \in section .. e - 1 : text[i] # Heading
    /\ e < length => text[e] \in {Heading, Newline}

\* The current section ends before the next heading, or with the text.
EndsSection(e) ==
    /\ e \in section .. length
    /\ \A i \in section .. e - 1 : text[i] # Heading
    /\ e < length => text[e] = Heading

\* To the section behind the heading at e.
GoOn(e) ==
    IF e = length THEN step' = "done" /\ UNCHANGED section
    ELSE step' = "section" /\ section' = e + 1

\* First and last solid character of a section that ends at e.
Within(e, f, l) ==
    /\ f \in section .. e - 1 /\ l \in f .. e - 1
    /\ Solid(f) /\ Solid(l)
    /\ \A i \in section .. e - 1 : Solid(i) => f <= i /\ i <= l

Child(piece, parent) ==
    [type |-> "child", index |-> childSeq, body |-> piece,
     parent |-> parent, heading |-> HeadingOf(section)]

\* A section without text is left out, and its heading with it.
SkipSection(e) ==
    /\ step = "section" /\ EndsSection(e)
    /\ \A i \in section .. e - 1 : ~Solid(i)
    /\ GoOn(e)
    /\ UNCHANGED <<text, length, start, stop, records, sequence>>

\* A section that fits a child is a child of its own.
SmallSection(e, f, l) ==
    /\ step = "section" /\ EndsSection(e) /\ Within(e, f, l)
    /\ l - f < Size
    /\ records' = records \cup {Child(f .. l, NoParent)}
    /\ childSeq' = childSeq + 1
    /\ GoOn(e)
    /\ UNCHANGED <<text, length, start, stop, parentSeq>>

\* Mutant: the number of the parent is counted when it is given.
OpenSectionCounted(e, f, l) ==
    /\ step = "section" /\ EndsSection(e) /\ Within(e, f, l)
    /\ l - f >= Size
    /\ records' = records \cup
           {[type |-> "parent", index |-> parentSeq, body |-> f .. l,
             parent |-> NoParent, heading |-> HeadingOf(section)]}
    /\ parentSeq' = parentSeq - 1
    /\ step' = "pieces" /\ start' = f /\ stop' = l + 1
    /\ UNCHANGED <<text, length, section, childSeq>>

\* A longer one gets a parent with all its text.
OpenSection(e, f, l) ==
    /\ step = "section" /\ EndsSection(e) /\ Within(e, f, l)
    /\ l - f >= Size
    /\ records' = records \cup
           {[type |-> "parent", index |-> parentSeq, body |-> f .. l,
             parent |-> NoParent, heading |-> HeadingOf(section)]}
    /\ step' = "pieces" /\ start' = f /\ stop' = l + 1
    /\ UNCHANGED <<text, length, section, sequence>>

\* Where the k-th separator stands in the last two thirds of a window, but not
\* at its start.
Found(k) ==
    {i \in Occurrences(Separators[k], start + Third, WindowEnd(start, stop)) : i > start}

\* A piece ends behind the last of the first separator that is found, if the
\* section goes on behind the window.
Cut(e) ==
    \/ /\ start + Size < stop
       /\ \E k \in DOMAIN Separators :
            /\ \A j \in 1 .. k - 1 : Found(j) = {}
            /\ \E i \in Found(k) : /\ \A h \in Found(k) : h <= i
                                   /\ e = i + Len(Separators[k])
    \/ /\ start + Size < stop => \A k \in DOMAIN Separators : Found(k) = {}
       /\ e = WindowEnd(start, stop)

\* Mutant: the character behind the cut is skipped.
NextStartBehind(e) == e + 1

NextStart(e) == e

Piece(e) ==
    /\ step = "pieces" /\ start < stop
    /\ Cut(e)
    /\ IF Strip(start, e) = {} THEN UNCHANGED <<records, childSeq>>
       ELSE /\ records' = records \cup {Child(Strip(start, e), parentSeq)}
            /\ childSeq' = childSeq + 1
    /\ start' = NextStart(e)
    /\ UNCHANGED <<text, length, step, section, stop, parentSeq>>

CloseSection(e) ==
    /\ step = "pieces" /\ start >= stop
    /\ EndsSection(e) /\ GoOn(e)
    /\ parentSeq' = parentSeq - 1
    /\ UNCHANGED <<text, length, start, stop, records, childSeq>>

Next ==
    \/ \E e \in 0 .. length : SkipSection(e)
    \/ \E e \in 0 .. length, f, l \in Positions : SmallSection(e, f, l)
    \/ \E e \in 0 .. length, f, l \in Positions : OpenSection(e, f, l)
    \/ \E e \in 0 .. length : Piece(e)
    \/ \E e \in 0 .. length : CloseSection(e)

Spec == Init /\ [][Next]_vars

-----------------------------------------------------------------------------
(* Properties *)

Record ==
    [type : {"parent", "child"}, index : Int, body : SUBSET Positions,
     parent : Int \cup {NoParent}, heading : Positions \cup {NoHeading}]

\* The variables keep their types; positions stay within the text.
TypeOK ==
    /\ TextIs
    /\ step \in {"section", "pieces", "done"}
    /\ section \in 0 .. length /\ start \in 0 .. length /\ stop \in 0 .. length
    /\ records \subseteq Record
    /\ parentSeq \in Int /\ childSeq \in Nat

\* The unique constraint on (spec, chunk_index) can hold: no two records of a
\* text have one number, and the sign tells parents from children.
NumbersAreUnique ==
    /\ \A r, s \in records : r.index = s.index => r = s
    /\ \A r \in records : r.type = "parent" <=> r.index < 0

\* Every word of a text outside its headings is in exactly one child, so what
\* is not a heading is found, and found once.
WordsAreFoundOnce ==
    step = "done" => \A i \in Positions : Solid(i) /\ text[i] # Heading =>
        \E r \in records : /\ r.type = "child" /\ i \in r.body
                           /\ \A s \in records : s.type = "child" /\ i \in s.body => s = r

\* The context that search shows with a child is its own section: the parent
\* it names is in the index and contains it, under the same heading.
ParentsContainTheirChildren ==
    \A r \in records : r.parent # NoParent =>
        \E p \in records : /\ p.type = "parent" /\ p.index = r.parent
                           /\ r.body \subseteq p.body /\ r.heading = p.heading

\* The heading of a chunk, with which it is embedded, is the nearest one above
\* all of its text; no chunk reaches across a heading.
ChunksKeepTheirHeading ==
    \A r \in records : \A i \in r.body :
        /\ r.heading # NoHeading => r.heading < i /\ text[r.heading] = Heading
        /\ \A h \in 0 .. i : text[h] = Heading => r.heading # NoHeading /\ h <= r.heading

\* No child is longer than what is embedded.
ChildrenFit == \A r \in records : r.type = "child" => \A i, j \in r.body : j - i < Size
=============================================================================
