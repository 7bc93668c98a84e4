-------------------------- MODULE WindowSplit_proofs --------------------------
(***************************************************************************)
(* For every text, every size and every overlap up to a third of it: a     *)
(* phrase no longer than the overlap is found whole in one chunk, and no   *)
(* chunk is longer than the size asked for by more than one character.     *)
(***************************************************************************)
EXTENDS WindowSplit, TLAPS

\* Phrases that end before b are whole in some chunk of C.
WholeBefore(b, C) ==
    \A f, l \in 0 .. length - 1 :
        Solid(f) /\ Solid(l) /\ f <= l /\ l - f <= Overlap /\ l < b =>
            \E c \in C : f .. l \subseteq c.body

\* The next window starts the overlap before the end of the last one, but at
\* the start of the text, and at its end.
Place ==
    \/ from = 0 /\ end = 0
    \/ from = end - Overlap /\ end > 0
    \/ end = length

IInv ==
    /\ WindowTypeOK
    /\ length > Size => WholeBefore(end, chunks) /\ Place
    /\ length > Size /\ done => end = length
    /\ PhrasesStayWhole
    /\ ChunksFit

USE SizeAssumption, OverlapAssumption

LEMMA ThirdIs == Third \in Nat /\ 3 * Third <= Size
  BY DEF Third

LEMMA OccurrenceIn ==
    ASSUME NEW sep, NEW a, NEW b, NEW i \in Occurrences(sep, a, b)
    PROVE  i \in a .. b - Len(sep)
  BY DEF Occurrences

\* A window ends behind its start by more than the overlap, unless the text
\* ends; never more than one character beyond the size.
LEMMA CutEnds ==
    ASSUME WindowTypeOK, NEW e \in 0 .. length, WindowCut(e), from < length
    PROVE  /\ from < e /\ e <= from + Size + 1
           /\ e < length => e > from + Overlap
<1>1. length \in Nat /\ from \in 0 .. length /\ Third \in Nat /\ 3 * Third <= Size
  BY ThirdIs, TextsAssumption DEF WindowTypeOK, TextIs
<1>2. CASE from + Size < length /\ \E b \in Breaks : IsLast(b) /\ b - from > Third /\ e = b + 2
  <2>1. PICK b \in Breaks : b - from > Third /\ e = b + 2
    BY <1>2
  <2>2. PICK k \in DOMAIN Separators : b \in Occurrences(Separators[k], from, WindowEnd(from, length))
    BY DEF Breaks
  <2>3. Len(Separators[k]) = 1 \/ Len(Separators[k]) = 2
    BY DEF Separators
  <2>4. b \in from .. from + Size - 1
    <3>1. WindowEnd(from, length) = from + Size /\ Size \in Nat
      BY <1>2 DEF WindowEnd
    <3>2. b \in from .. WindowEnd(from, length) - Len(Separators[k])
      BY <2>2, OccurrenceIn
    <3>3. CASE Len(Separators[k]) = 1
      <4>1. b \in from .. WindowEnd(from, length) - 1  BY <3>2, <3>3, Zenon
      <4>2. QED  BY <1>1, <3>1, <4>1
    <3>4. CASE Len(Separators[k]) = 2
      <4>1. b \in from .. WindowEnd(from, length) - 2  BY <3>2, <3>4, Zenon
      <4>2. QED  BY <1>1, <3>1, <4>1
    <3>5. QED  BY <2>3, <3>3, <3>4, Zenon
  <2>5. QED
    BY <1>1, <2>1, <2>4
<1>3. CASE e = WindowEnd(from, length)
  BY <1>1, <1>3 DEF WindowEnd
<1>4. QED
  BY <1>2, <1>3 DEF WindowCut

\* What a chunk added does to the chunks.
LEMMA AddChunk ==
    ASSUME WindowTypeOK, NEW piece \in SUBSET (0 .. length - 1), Add(piece),
           UNCHANGED <<text, length>>
    PROVE  /\ count' \in Nat
           /\ chunks' \subseteq [index : 0 .. count' - 1, body : SUBSET (0 .. length' - 1)]
           /\ chunks \subseteq chunks'
           /\ piece # {} => \E c \in chunks' : c.body = piece
           /\ \A c \in chunks' : c \in chunks \/ c.body = piece
<1>1. count \in Nat /\ chunks \subseteq [index : 0 .. count - 1, body : SUBSET (0 .. length - 1)]
  BY DEF WindowTypeOK
<1>2. CASE piece = {}
  BY <1>1, <1>2 DEF Add
<1>3. CASE piece # {}
  <2>1. /\ chunks' = chunks \cup {[index |-> count, body |-> piece]}
        /\ count' = count + 1
    BY <1>3 DEF Add
  <2>2. [index |-> count, body |-> piece] \in [index : 0 .. count' - 1, body : SUBSET (0 .. length' - 1)]
    BY <1>1, <2>1
  <2>3. \A c \in chunks : c \in [index : 0 .. count' - 1, body : SUBSET (0 .. length' - 1)]
    BY <1>1, <2>1
  <2>4. chunks' \subseteq [index : 0 .. count' - 1, body : SUBSET (0 .. length' - 1)]
    BY <2>1, <2>2, <2>3
  <2>5. [index |-> count, body |-> piece].body = piece
    OBVIOUS
  <2>6. \E c \in chunks' : c.body = piece
    BY <2>1, <2>5
  <2>7. \A c \in chunks' : c \in chunks \/ c.body = piece
    BY <2>1, <2>5
  <2>8. QED
    BY <1>1, <2>1, <2>4, <2>6, <2>7
<1>4. QED  BY <1>2, <1>3

LEMMA InitIInv == WindowInit => IInv
<1>1. SUFFICES ASSUME WindowInit PROVE IInv
  OBVIOUS
<1>2. length \in Nat
  BY <1>1, TextsAssumption DEF WindowInit, SomeText
<1>3. text \in [0 .. length - 1 -> Chars]
  BY <1>1, <1>2, TextsAssumption DEF WindowInit, SomeText
<1>4. WindowTypeOK
  <2>1. TextIs
    BY <1>1, <1>3 DEF WindowInit, TextIs, SomeText
  <2>2. from \in 0 .. length /\ end \in 0 .. length /\ count \in Nat
    BY <1>1, <1>2 DEF WindowInit
  <2>3. QED
    BY <1>1, <2>1, <2>2 DEF WindowInit, WindowTypeOK
<1>5. WholeBefore(end, chunks)
  BY <1>1, <1>2 DEF WindowInit, WholeBefore
<1>6. QED
  BY <1>1, <1>4, <1>5 DEF WindowInit, IInv, Place, PhrasesStayWhole, ChunksFit

LEMMA WholeKeeps ==
    ASSUME IInv, Whole
    PROVE  IInv'
<1>1. WindowTypeOK /\ length \in Nat /\ UNCHANGED <<text, length, from, end>>
  BY TextsAssumption DEF IInv, Whole, WindowTypeOK, TextIs
<1> DEFINE piece == IF \E i \in 0 .. length - 1 : Solid(i) THEN 0 .. length - 1 ELSE {}
<1>2. piece \in SUBSET (0 .. length - 1) /\ Add(piece) /\ length <= Size /\ done'
  BY DEF Whole
<1>3. /\ count' \in Nat
      /\ chunks' \subseteq [index : 0 .. count' - 1, body : SUBSET (0 .. length' - 1)]
      /\ chunks \subseteq chunks'
      /\ piece # {} => \E c \in chunks' : c.body = piece
      /\ \A c \in chunks' : c \in chunks \/ c.body = piece
  BY <1>1, <1>2, AddChunk
<1>4. WindowTypeOK'
  BY <1>1, <1>2, <1>3 DEF WindowTypeOK, TextIs, Whole
<1>5. PhrasesStayWhole'
  <2>1. ASSUME NEW f \in 0 .. length - 1, NEW l \in 0 .. length - 1, Solid(f)
        PROVE  \E c \in chunks' : f .. l \subseteq c.body
    <3>1. piece = 0 .. length - 1 /\ piece # {}
      BY <2>1
    <3>2. f .. l \subseteq 0 .. length - 1
      BY <1>1
    <3>3. QED  BY <1>3, <3>1, <3>2
  <2>2. QED
    BY <1>1, <2>1 DEF PhrasesStayWhole, Solid
<1>6. ChunksFit'
  <2>1. \A i, j \in piece : j - i <= Size
    BY <1>1, <1>2
  <2>2. ChunksFit
    BY DEF IInv
  <2>3. QED
    BY <1>3, <2>1, <2>2 DEF ChunksFit
<1>7. QED
  BY <1>1, <1>2, <1>4, <1>5, <1>6 DEF IInv

LEMMA RoundKeeps ==
    ASSUME IInv, NEW e \in 0 .. length, Round(e)
    PROVE  IInv'
<1>1. /\ WindowTypeOK /\ length \in Nat /\ from \in 0 .. length /\ end \in 0 .. length
      /\ UNCHANGED <<text, length>> /\ length > Size /\ ~done
      /\ Overlap \in Nat /\ WholeBefore(end, chunks) /\ Place
  BY TextsAssumption DEF IInv, Round, WindowTypeOK, TextIs
<1>2. /\ WindowCut(e) /\ end' = e /\ Add(Strip(from, e))
      /\ from' = NextWindow(e) /\ done' = (from' >= length)
  BY DEF Round, PastEnd
<1>3. CASE from = length
  \* Only a loop that has ended leaves the start there.
  <2>1. e = length
    <3>1. WindowEnd(from, length) = length /\ ~(from + Size < length)
      BY <1>1, <1>3 DEF WindowEnd
    <3>2. QED  BY <1>2, <3>1 DEF WindowCut
  <2>2. Strip(from, e) = {}
    BY <1>1, <1>3, <2>1 DEF Strip
  <2>3. UNCHANGED <<chunks, count>>
    BY <1>2, <2>2 DEF Add
  <2>4. from' = length
    BY <1>1, <1>2, <1>3, <2>1 DEF NextWindow
  <2>5. WindowTypeOK'
    BY <1>1, <1>2, <2>1, <2>3, <2>4 DEF WindowTypeOK, TextIs
  <2>6. WholeBefore(end', chunks)
    <3>1. end = length
      BY <1>1, <1>3 DEF Place
    <3>2. QED  BY <1>1, <1>2, <2>1, <3>1
  <2>7. WholeBefore(end, chunks)'
    BY <1>1, <2>3, <2>6 DEF WholeBefore, Solid
  <2>8. PhrasesStayWhole'
    BY <1>1, <1>2, <2>1, <2>7 DEF WholeBefore, PhrasesStayWhole, Solid
  <2>9. ChunksFit'
    BY <2>3 DEF IInv, ChunksFit
  <2>10. QED
    BY <1>1, <1>2, <2>1, <2>5, <2>7, <2>8, <2>9 DEF IInv, Place
<1>4. CASE from < length
  <2>1. from < e /\ e <= from + Size + 1 /\ (e < length => e > from + Overlap)
    BY <1>1, <1>2, <1>4, CutEnds
  <2>2. Strip(from, e) \in SUBSET (0 .. length - 1)
    BY <1>1 DEF Strip
  <2>3. /\ count' \in Nat
        /\ chunks' \subseteq [index : 0 .. count' - 1, body : SUBSET (0 .. length' - 1)]
        /\ chunks \subseteq chunks'
        /\ Strip(from, e) # {} => \E c \in chunks' : c.body = Strip(from, e)
        /\ \A c \in chunks' : c \in chunks \/ c.body = Strip(from, e)
    BY <1>1, <1>2, <2>2, AddChunk
  <2>4. from' \in 0 .. length
    BY <1>1, <1>2, <2>1 DEF NextWindow
  <2>5. WindowTypeOK'
    BY <1>1, <1>2, <2>3, <2>4 DEF WindowTypeOK, TextIs
  <2>6. Place'
    BY <1>1, <1>2, <2>1 DEF Place, NextWindow
  <2>7. WholeBefore(end, chunks)'
    <3>1. SUFFICES ASSUME NEW f \in 0 .. length - 1, NEW l \in 0 .. length - 1,
                          Solid(f), Solid(l), f <= l, l - f <= Overlap, l < e
                   PROVE  \E c \in chunks' : f .. l \subseteq c.body
      BY <1>1, <1>2 DEF WholeBefore, Solid
    <3>2. CASE l < end
      BY <1>1, <2>3, <3>1, <3>2 DEF WholeBefore
    <3>3. CASE l >= end
      <4>1. from <= f
        BY <1>1, <3>1, <3>3 DEF Place
      <4>2. f \in from .. e - 1 /\ l \in from .. e - 1
        BY <1>1, <3>1, <4>1
      <4>3. f .. l \subseteq Strip(from, e)
        BY <1>1, <3>1, <4>2 DEF Strip
      <4>4. Strip(from, e) # {}
        BY <1>1, <3>1, <4>3
      <4>5. QED  BY <2>3, <4>3, <4>4
    <3>4. QED  BY <1>1, <3>2, <3>3
  <2>8. done' => end' = length
    <3>1. e < length => ~(from' >= length)
      BY <1>1, <1>2, <2>1 DEF NextWindow
    <3>2. e = length \/ e < length
      BY <1>1
    <3>3. QED  BY <1>2, <3>1, <3>2
  <2>9. PhrasesStayWhole'
    BY <1>1, <1>2, <2>7, <2>8 DEF WholeBefore, PhrasesStayWhole, Solid
  <2>10. ChunksFit'
    <3>1. \A i, j \in Strip(from, e) : j - i <= Size
      BY <1>1, <2>1 DEF Strip
    <3>2. ChunksFit
      BY DEF IInv
    <3>3. QED  BY <2>3, <3>1, <3>2 DEF ChunksFit
  <2>11. QED
    BY <1>1, <2>5, <2>6, <2>7, <2>8, <2>9, <2>10 DEF IInv
<1>5. QED  BY <1>1, <1>3, <1>4

LEMMA StepIInv == IInv /\ [WindowNext]_windowVars => IInv'
<1>1. SUFFICES ASSUME IInv, [WindowNext]_windowVars PROVE IInv'
  OBVIOUS
<1>2. CASE Whole
  BY <1>1, <1>2, WholeKeeps
<1>3. CASE \E e \in 0 .. length : Round(e)
  BY <1>1, <1>3, RoundKeeps
<1>4. CASE UNCHANGED windowVars
  BY <1>1, <1>4 DEF windowVars, IInv, WindowTypeOK, TextIs, WholeBefore, Place, PhrasesStayWhole, ChunksFit, Solid
<1>5. QED  BY <1>1, <1>2, <1>3, <1>4 DEF WindowNext

\* The variables keep their types, positions stay within the text.
THEOREM TypeCorrect == WindowSpec => []WindowTypeOK
<1>1. WindowInit => IInv  BY InitIInv
<1>2. IInv /\ [WindowNext]_windowVars => IInv'  BY StepIInv
<1>3. IInv => WindowTypeOK  BY DEF IInv
<1>4. QED  BY <1>1, <1>2, <1>3, PTL DEF WindowSpec

\* What the overlap is for: a phrase no longer than it is whole in one chunk.
THEOREM OverlapKeepsPhrases == WindowSpec => []PhrasesStayWhole
<1>1. WindowInit => IInv  BY InitIInv
<1>2. IInv /\ [WindowNext]_windowVars => IInv'  BY StepIInv
<1>3. IInv => PhrasesStayWhole  BY DEF IInv
<1>4. QED  BY <1>1, <1>2, <1>3, PTL DEF WindowSpec

\* Chunks exceed the size by one character at most.
THEOREM ChunksNeverOutgrow == WindowSpec => []ChunksFit
<1>1. WindowInit => IInv  BY InitIInv
<1>2. IInv /\ [WindowNext]_windowVars => IInv'  BY StepIInv
<1>3. IInv => ChunksFit  BY DEF IInv
<1>4. QED  BY <1>1, <1>2, <1>3, PTL DEF WindowSpec
=============================================================================
