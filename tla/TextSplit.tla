------------------------------ MODULE TextSplit ------------------------------
(***************************************************************************)
(* What the two splitters of mcper have in common: a text as a function    *)
(* from its positions (0, 1, 2, ... as in the code) to the kinds of        *)
(* characters that the splitters tell apart, its separators, and the       *)
(* stripped pieces that windows of it leave.                               *)
(***************************************************************************)
EXTENDS Integers, Sequences

CONSTANTS
    Word,     \* a character of a word
    Space,
    Newline,
    Dot,
    Heading,  \* one match of the heading pattern: a line "# ..." or "## ..."
    Texts,    \* the texts to split
    MaxLength,\* bound: characters of a text
    Size      \* chunk_size: length of a window

\* Blanks are the ones that separators are made of; tabs and the others, which
\* only strip() knows, have no kind of their own.
Chars == {Word, Space, Newline, Dot, Heading}
Third == Size \div 3

ASSUME SizeAssumption == Size \in Nat \ {0}
ASSUME TextsAssumption ==
    /\ MaxLength \in Nat
    /\ \A t \in Texts : \E n \in 0 .. MaxLength : t \in [0 .. n - 1 -> Chars]

VARIABLES
    text,
    length    \* len(text)

\* The text and its length, which no step changes.
SomeText ==
    /\ text \in Texts /\ length \in 0 .. MaxLength
    /\ DOMAIN text = 0 .. length - 1

TextIs == length \in 0 .. MaxLength /\ text \in [0 .. length - 1 -> Chars]

Solid(i) == text[i] \notin {Space, Newline}

\* The separators, in their order of preference.
Separators == <<<<Newline, Newline>>, <<Newline>>, <<Dot, Space>>, <<Space>>>>

\* Where a separator stands within the positions a .. b - 1.
Occurrences(sep, a, b) ==
    {i \in a .. b - Len(sep) : \A k \in 1 .. Len(sep) : text[i + k - 1] = sep[k]}

\* What strip() leaves of the positions a .. b - 1: all from its first solid
\* character to its last.
Strip(a, b) ==
    {i \in a .. b - 1 : \E f, l \in a .. b - 1 : Solid(f) /\ Solid(l) /\ f <= i /\ i <= l}

\* The end of a window, if no separator is looked for.
WindowEnd(a, limit) == IF a + Size < limit THEN a + Size ELSE limit
=============================================================================
