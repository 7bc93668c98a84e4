-------------------------- MODULE SectionSplit_proofs --------------------------
(***************************************************************************)
(* For every text and every size: what is not a heading is in one child,   *)
(* under its own heading and within its own parent; the records have       *)
(* different numbers, and no child is longer than the size.                *)
(***************************************************************************)
EXTENDS SectionSplit, TLAPS

\* The text in front of this position is dealt with.
Reach == IF step = "section" THEN section ELSE IF step = "pieces" THEN start ELSE length

NoHeadingWithin(a, b) == \A i \in a .. b - 1 : text[i] # Heading

\* The section begins behind a heading; while it is cut, its pieces lie between
\* start and stop, and behind stop it is blank.
Place ==
    /\ section > 0 => text[section - 1] = Heading
    /\ step = "pieces" =>
         /\ section <= start /\ start <= stop
         /\ NoHeadingWithin(section, stop)
         /\ \A i \in stop .. length - 1 : Solid(i) => \E h \in stop .. i : text[h] = Heading

\* Children lie in front of what is dealt with, and so do parents, but for the
\* one whose section is being cut.
Behind ==
    \A r \in records : \A i \in r.body :
        i < Reach \/ (r.type = "parent" /\ step = "pieces" /\ i < stop)

\* The words dealt with are in one child.
Found1(b, R) ==
    \A i \in 0 .. b - 1 : Solid(i) /\ text[i] # Heading =>
        \E r \in R : /\ r.type = "child" /\ i \in r.body
                     /\ \A s \in R : s.type = "child" /\ i \in s.body => s = r

\* The numbers given so far.
Numbers ==
    /\ parentSeq < 0
    /\ \A r \in records :
         IF r.type = "child" THEN 0 <= r.index /\ r.index < childSeq
         ELSE r.index < 0 /\ (r.index > parentSeq \/ (step = "pieces" /\ r.index = parentSeq))

\* While a section is cut, its parent is there with all of it.
Current ==
    step = "pieces" =>
        \E p \in records : /\ p.type = "parent" /\ p.index = parentSeq
                           /\ start .. stop - 1 \subseteq p.body
                           /\ p.heading = HeadingOf(section)

IInv ==
    /\ TypeOK
    /\ Place
    /\ Behind
    /\ Found1(Reach, records)
    /\ Numbers
    /\ Current
    /\ NumbersAreUnique
    /\ ParentsContainTheirChildren
    /\ ChunksKeepTheirHeading
    /\ ChildrenFit

USE SizeAssumption, NoParentAssumption

LEMMA Lengths ==
    ASSUME TypeOK
    PROVE  /\ length \in Nat /\ section \in 0 .. length /\ start \in 0 .. length
           /\ stop \in 0 .. length /\ parentSeq \in Int /\ childSeq \in Nat
           /\ records \subseteq Record
           /\ Size \in Nat /\ Size > 0 /\ Third \in Nat
  BY TextsAssumption DEF TypeOK, TextIs, Third

LEMMA OccurrenceIn ==
    ASSUME NEW sep, NEW a, NEW b, NEW i \in Occurrences(sep, a, b)
    PROVE  i \in a .. b - Len(sep)
  BY DEF Occurrences

\* A piece is not empty, no longer than the size, and ends within its section.
LEMMA CutEnds ==
    ASSUME TypeOK, NEW e \in 0 .. length, Cut(e), start < stop
    PROVE  start < e /\ e <= start + Size /\ e <= stop
<1>1. /\ length \in Nat /\ start \in 0 .. length /\ stop \in 0 .. length
      /\ Size \in Nat /\ Size > 0 /\ Third \in Nat
  BY Lengths
<1>2. ASSUME start + Size < stop, NEW k \in DOMAIN Separators, NEW i \in Found(k),
             e = i + Len(Separators[k])
      PROVE  start < e /\ e <= start + Size
  <2>1. i > start /\ i \in Occurrences(Separators[k], start + Third, WindowEnd(start, stop))
    BY DEF Found
  <2>2. i \in start + Third .. WindowEnd(start, stop) - Len(Separators[k])
    BY <2>1, OccurrenceIn
  <2>3. WindowEnd(start, stop) = start + Size
    BY <1>2 DEF WindowEnd
  <2>4. Len(Separators[k]) = 1 \/ Len(Separators[k]) = 2
    BY DEF Separators
  <2>5. CASE Len(Separators[k]) = 1
    <3>1. i \in start + Third .. WindowEnd(start, stop) - 1 /\ e = i + 1
      BY <1>2, <2>2, <2>5, Zenon
    <3>2. QED  BY <1>1, <2>1, <2>3, <3>1
  <2>6. CASE Len(Separators[k]) = 2
    <3>1. i \in start + Third .. WindowEnd(start, stop) - 2 /\ e = i + 2
      BY <1>2, <2>2, <2>6, Zenon
    <3>2. QED  BY <1>1, <2>1, <2>3, <3>1
  <2>7. QED  BY <2>4, <2>5, <2>6, Zenon
<1>3. CASE e = WindowEnd(start, stop)
  BY <1>1, <1>3 DEF WindowEnd
<1>4. CASE start + Size < stop /\ \E k \in DOMAIN Separators : \E i \in Found(k) : e = i + Len(Separators[k])
  <2>1. PICK k \in DOMAIN Separators : \E i \in Found(k) : e = i + Len(Separators[k])
    BY <1>4
  <2>2. PICK i \in Found(k) : e = i + Len(Separators[k])
    BY <2>1
  <2>3. start < e /\ e <= start + Size
    BY <1>2, <1>4, <2>2
  <2>4. QED  BY <1>1, <1>4, <2>3
<1>5. QED  BY <1>3, <1>4 DEF Cut

LEMMA InitIInv == Init => IInv
<1>1. SUFFICES ASSUME Init PROVE IInv
  OBVIOUS
<1>2. length \in Nat /\ text \in [0 .. length - 1 -> Chars]
  BY <1>1, TextsAssumption DEF Init, SomeText
<1>3. TypeOK
  <2>1. TextIs
    BY <1>1, <1>2 DEF Init, TextIs, SomeText
  <2>2. QED
    BY <1>1, <1>2, <2>1 DEF Init, TypeOK
<1>4. Found1(Reach, records)
  BY <1>1 DEF Init, Reach, Found1
<1>5. QED
  BY <1>1, <1>3, <1>4 DEF Init, IInv, Place, Behind, Numbers, Current, NumbersAreUnique,
     ParentsContainTheirChildren, ChunksKeepTheirHeading, ChildrenFit

\* A record of a section whose text has no heading keeps its heading.
LEMMA KeepsHeading ==
    ASSUME TypeOK, Place, NEW body \in SUBSET Positions, NEW b \in 0 .. length,
           NoHeadingWithin(section, b), \A i \in body : section <= i /\ i < b
    PROVE  \A i \in body :
              /\ HeadingOf(section) # NoHeading =>
                   HeadingOf(section) < i /\ text[HeadingOf(section)] = Heading
              /\ \A h \in 0 .. i : text[h] = Heading =>
                   HeadingOf(section) # NoHeading /\ h <= HeadingOf(section)
<1>1. length \in Nat /\ section \in 0 .. length
  BY Lengths
<1>2. SUFFICES ASSUME NEW i \in body
               PROVE  /\ HeadingOf(section) # NoHeading =>
                           HeadingOf(section) < i /\ text[HeadingOf(section)] = Heading
                      /\ \A h \in 0 .. i : text[h] = Heading =>
                           HeadingOf(section) # NoHeading /\ h <= HeadingOf(section)
  OBVIOUS
<1>3. i \in 0 .. length - 1 /\ section <= i /\ i < b
  BY DEF Positions
<1>4. ASSUME NEW h \in 0 .. i, text[h] = Heading
      PROVE  h < section
  BY <1>1, <1>3, <1>4 DEF NoHeadingWithin
<1>5. CASE section = 0
  BY <1>1, <1>3, <1>4, <1>5 DEF HeadingOf
<1>6. CASE section > 0
  <2>1. HeadingOf(section) = section - 1 /\ section - 1 # NoHeading
    BY <1>1, <1>6 DEF HeadingOf
  <2>2. text[section - 1] = Heading
    BY <1>6 DEF Place
  <2>3. QED
    BY <1>1, <1>3, <1>4, <2>1, <2>2
<1>7. QED  BY <1>1, <1>5, <1>6

\* A child added behind all others, within its section and its parent.
LEMMA AddChild ==
    ASSUME IInv, NEW piece \in SUBSET Positions, NEW parent \in {NoParent, parentSeq},
           NEW b \in 0 .. length, NoHeadingWithin(section, b),
           \A i \in piece : Reach <= i /\ section <= i /\ i < b,
           \A i, j \in piece : j - i < Size,
           parent # NoParent =>
               \E p \in records : /\ p.type = "parent" /\ p.index = parentSeq
                                  /\ piece \subseteq p.body /\ p.heading = HeadingOf(section),
           records' = records \cup {Child(piece, parent)},
           childSeq' = childSeq + 1,
           UNCHANGED <<text, length, parentSeq>>
    PROVE  /\ records' \subseteq Record'
           /\ NumbersAreUnique' /\ ParentsContainTheirChildren'
           /\ ChunksKeepTheirHeading' /\ ChildrenFit'
           /\ \A n \in 0 .. length :
                (\A i \in Reach .. n - 1 : Solid(i) /\ text[i] # Heading => i \in piece)
                  => Found1(n, records)'
<1> DEFINE c == Child(piece, parent)
<1>1. /\ length \in Nat /\ section \in 0 .. length /\ childSeq \in Nat /\ parentSeq \in Int
      /\ records \subseteq Record /\ TypeOK
  BY Lengths DEF IInv
<1>2. /\ c.type = "child" /\ c.index = childSeq /\ c.body = piece /\ c.parent = parent
      /\ c.heading = HeadingOf(section)
  BY DEF Child
<1>3. c \in Record
  <2>1. HeadingOf(section) \in Positions \cup {NoHeading}
    BY <1>1 DEF HeadingOf, Positions
  <2>2. QED
    BY <1>1, <2>1 DEF Child, Record
<1>4. records' \subseteq Record'
  BY <1>1, <1>3 DEF Record, Positions
<1>5. NumbersAreUnique'
  <2>1. \A r \in records : r.index # childSeq
    BY <1>1 DEF IInv, Numbers, Record
  <2>2. NumbersAreUnique
    BY DEF IInv
  <2>3. \A r, s \in records' : r.index = s.index => r = s
    BY <1>2, <2>1, <2>2 DEF NumbersAreUnique
  <2>4. \A r \in records' : r.type = "parent" <=> r.index < 0
    BY <1>1, <1>2, <2>2 DEF NumbersAreUnique
  <2>5. QED  BY <2>3, <2>4 DEF NumbersAreUnique
<1>6. ParentsContainTheirChildren'
  <2>1. SUFFICES ASSUME NEW r \in records', r.parent # NoParent
                 PROVE  \E p \in records : /\ p.type = "parent" /\ p.index = r.parent
                                           /\ r.body \subseteq p.body /\ r.heading = p.heading
    BY DEF ParentsContainTheirChildren
  <2>2. CASE r \in records
    BY <2>1, <2>2 DEF IInv, ParentsContainTheirChildren
  <2>3. CASE r = c
    <3>1. parent # NoParent /\ r.parent = parentSeq
      BY <1>2, <2>1, <2>3
    <3>2. PICK p \in records : /\ p.type = "parent" /\ p.index = parentSeq
                               /\ piece \subseteq p.body /\ p.heading = HeadingOf(section)
      BY <3>1
    <3>3. QED  BY <1>2, <2>3, <3>1, <3>2
  <2>4. QED  BY <2>2, <2>3
<1>7. ChunksKeepTheirHeading'
  <2>1. \A i \in piece :
           /\ HeadingOf(section) # NoHeading =>
                HeadingOf(section) < i /\ text[HeadingOf(section)] = Heading
           /\ \A h \in 0 .. i : text[h] = Heading =>
                HeadingOf(section) # NoHeading /\ h <= HeadingOf(section)
    BY <1>1, KeepsHeading DEF IInv
  <2>2. ChunksKeepTheirHeading
    BY DEF IInv
  <2>3. \A r \in records' : r \in records \/ (r.body = piece /\ r.heading = HeadingOf(section))
    BY <1>2
  <2>4. QED
    BY <2>1, <2>2, <2>3 DEF ChunksKeepTheirHeading
<1>8. ChildrenFit'
  BY <1>2 DEF IInv, ChildrenFit
<1>9. ASSUME NEW n \in 0 .. length,
             \A i \in Reach .. n - 1 : Solid(i) /\ text[i] # Heading => i \in piece
      PROVE  Found1(n, records)'
  <2>1. Reach \in Int
    BY <1>1, Lengths DEF Reach
  <2>2. SUFFICES ASSUME NEW i \in 0 .. n - 1, Solid(i), text[i] # Heading
                 PROVE  \E r \in records' :
                           /\ r.type = "child" /\ i \in r.body
                           /\ \A s \in records' : s.type = "child" /\ i \in s.body => s = r
    BY DEF Found1, Solid
  <2>3. CASE i < Reach
    <3>1. PICK r \in records :
             /\ r.type = "child" /\ i \in r.body
             /\ \A s \in records : s.type = "child" /\ i \in s.body => s = r
      BY <1>1, <2>1, <2>2, <2>3 DEF IInv, Found1
    <3>2. i \notin piece
      BY <1>1, <2>1, <2>3
    <3>3. QED  BY <1>2, <3>1, <3>2
  <2>4. CASE i >= Reach
    <3>1. i \in piece
      BY <1>1, <1>9, <2>1, <2>2, <2>4
    <3>2. \A s \in records : ~(s.type = "child" /\ i \in s.body)
      <4>1. SUFFICES ASSUME NEW s \in records, s.type = "child", i \in s.body PROVE FALSE
        OBVIOUS
      <4>2. i < Reach
        BY <4>1 DEF IInv, Behind
      <4>3. QED  BY <1>1, <2>1, <2>4, <4>2
    <3>3. QED  BY <1>2, <3>1, <3>2
  <2>5. QED  BY <1>1, <2>1, <2>3, <2>4
<1>10. QED  BY <1>4, <1>5, <1>6, <1>7, <1>8, <1>9

\* A step that adds no record.
LEMMA NoRecord ==
    ASSUME IInv, UNCHANGED <<text, length, records>>
    PROVE  /\ records' \subseteq Record'
           /\ NumbersAreUnique' /\ ParentsContainTheirChildren'
           /\ ChunksKeepTheirHeading' /\ ChildrenFit'
           /\ \A n \in 0 .. length :
                (\A i \in Reach .. n - 1 : ~Solid(i) \/ text[i] = Heading) => Found1(n, records)'
<1>1. length \in Nat /\ Reach \in Int /\ records \subseteq Record
  BY Lengths DEF IInv, Reach
<1>2. ASSUME NEW n \in 0 .. length,
             \A i \in Reach .. n - 1 : ~Solid(i) \/ text[i] = Heading
      PROVE  Found1(n, records)'
  <2>1. Found1(Reach, records)
    BY DEF IInv
  <2>2. ASSUME NEW i \in 0 .. n - 1, Solid(i), text[i] # Heading
        PROVE  i \in 0 .. Reach - 1
    BY <1>1, <1>2, <2>2
  <2>3. QED
    BY <2>1, <2>2 DEF Found1, Solid
<1>3. QED
  BY <1>1, <1>2 DEF IInv, NumbersAreUnique, ParentsContainTheirChildren,
     ChunksKeepTheirHeading, ChildrenFit, Record, Positions

LEMMA SkipKeeps ==
    ASSUME IInv, NEW e \in 0 .. length, SkipSection(e)
    PROVE  IInv'
<1>1. /\ length \in Nat /\ section \in 0 .. length /\ start \in 0 .. length /\ stop \in 0 .. length
      /\ step = "section" /\ Reach = section /\ TypeOK
      /\ UNCHANGED <<text, length, start, stop, records, parentSeq, childSeq>>
      /\ e \in section .. length /\ (e < length => text[e] = Heading)
  BY Lengths DEF IInv, SkipSection, EndsSection, Reach, sequence
<1>2. \/ e = length /\ step' = "done" /\ section' = section
      \/ e < length /\ step' = "section" /\ section' = e + 1
  BY <1>1 DEF SkipSection, GoOn
<1>3. TypeOK'
  BY <1>1, <1>2 DEF TypeOK, TextIs, Record, Positions
<1>4. Place'
  BY <1>1, <1>2 DEF IInv, Place
<1>5. Reach' = (IF e = length THEN length ELSE e + 1)
  BY <1>1, <1>2 DEF Reach
<1>6. Behind'
  <2>1. ASSUME NEW r \in records, NEW i \in r.body PROVE i < section /\ i \in Int
    BY <1>1 DEF IInv, Behind, Record, Positions, TypeOK
  <2>2. QED
    BY <1>1, <1>5, <2>1 DEF Behind
<1>7. Found1(Reach, records)'
  <2>1. Reach' \in 0 .. length
    BY <1>1, <1>5
  <2>2. \A i \in Reach .. Reach' - 1 : ~Solid(i) \/ text[i] = Heading
    <3>1. \A i \in section .. e - 1 : ~Solid(i)
      BY DEF SkipSection
    <3>2. QED  BY <1>1, <1>5, <3>1
  <2>3. PICK n \in 0 .. length : n = Reach'
    BY <2>1
  <2>4. Found1(n, records)'
    BY <1>1, <2>2, <2>3, NoRecord
  <2>5. QED  BY <2>3, <2>4 DEF Found1
<1>8. Numbers' /\ Current'
  BY <1>1, <1>2 DEF IInv, Numbers, Current
<1>9. QED
  BY <1>1, <1>3, <1>4, <1>6, <1>7, <1>8, NoRecord DEF IInv

\* To the next section: what is between it and this one.
LEMMA Onward ==
    ASSUME TypeOK, NEW e \in 0 .. length, EndsSection(e), GoOn(e), UNCHANGED <<text, length>>
    PROVE  /\ section' \in 0 .. length /\ step' \in {"section", "done"}
           /\ section <= e /\ NoHeadingWithin(section, e)
           /\ section' > 0 => section' = section \/ text[section' - 1] = Heading
           /\ Reach' = IF e = length THEN length ELSE e + 1
           /\ Reach' \in 0 .. length
           /\ \A i \in e .. Reach' - 1 : text[i] = Heading
<1>1. length \in Nat /\ section \in 0 .. length
  BY Lengths
<1>2. \/ e = length /\ step' = "done" /\ section' = section
      \/ e < length /\ step' = "section" /\ section' = e + 1
  BY <1>1 DEF GoOn
<1>3. e \in section .. length /\ (e < length => text[e] = Heading) /\ NoHeadingWithin(section, e)
  BY DEF EndsSection, NoHeadingWithin
<1>4. Reach' = IF e = length THEN length ELSE e + 1
  BY <1>1, <1>2 DEF Reach
<1>5. QED
  BY <1>1, <1>2, <1>3, <1>4

LEMMA SmallKeeps ==
    ASSUME IInv, NEW e \in 0 .. length, NEW f \in Positions, NEW l \in Positions,
           SmallSection(e, f, l)
    PROVE  IInv'
<1>1. /\ length \in Nat /\ section \in 0 .. length /\ start \in 0 .. length /\ stop \in 0 .. length
      /\ step = "section" /\ Reach = section /\ TypeOK /\ Size \in Nat
      /\ UNCHANGED <<text, length, start, stop, parentSeq>>
      /\ records' = records \cup {Child(f .. l, NoParent)} /\ childSeq' = childSeq + 1
      /\ childSeq \in Nat /\ parentSeq \in Int
  BY Lengths DEF IInv, SmallSection, Reach
<1>2. /\ EndsSection(e) /\ GoOn(e) /\ l - f < Size
      /\ f \in section .. e - 1 /\ l \in f .. e - 1
      /\ \A i \in section .. e - 1 : Solid(i) => f <= i /\ i <= l
  BY DEF SmallSection, Within
<1>3. /\ section' \in 0 .. length /\ step' \in {"section", "done"}
      /\ section <= e /\ NoHeadingWithin(section, e)
      /\ section' > 0 => section' = section \/ text[section' - 1] = Heading
      /\ Reach' = IF e = length THEN length ELSE e + 1
      /\ Reach' \in 0 .. length
      /\ \A i \in e .. Reach' - 1 : text[i] = Heading
  BY <1>1, <1>2, Onward
<1>4. f .. l \in SUBSET Positions /\ \A i \in f .. l : Reach <= i /\ section <= i /\ i < e
  BY <1>1, <1>2 DEF Positions
<1>5. \A i, j \in f .. l : j - i < Size
  BY <1>1, <1>2
<1>6. /\ records' \subseteq Record'
      /\ NumbersAreUnique' /\ ParentsContainTheirChildren'
      /\ ChunksKeepTheirHeading' /\ ChildrenFit'
      /\ \A n \in 0 .. length :
           (\A i \in Reach .. n - 1 : Solid(i) /\ text[i] # Heading => i \in f .. l)
             => Found1(n, records)'
  BY <1>1, <1>3, <1>4, <1>5, AddChild
<1>7. TypeOK'
  BY <1>1, <1>3, <1>6 DEF TypeOK, TextIs
<1>8. Place'
  BY <1>1, <1>3 DEF IInv, Place
<1>9. Behind'
  <2>1. ASSUME NEW r \in records, NEW i \in r.body PROVE i < section /\ i \in Int
    BY <1>1 DEF IInv, Behind, Record, Positions, TypeOK
  <2>2. ASSUME NEW r \in records', NEW i \in r.body PROVE i < Reach'
    <3>1. CASE r \in records
      BY <1>1, <1>3, <2>1, <2>2, <3>1
    <3>2. CASE r = Child(f .. l, NoParent)
      <4>1. i \in f .. l
        BY <2>2, <3>2 DEF Child
      <4>2. QED  BY <1>1, <1>2, <1>3, <4>1
    <3>3. QED  BY <1>1, <2>2, <3>1, <3>2
  <2>3. QED  BY <2>2 DEF Behind
<1>10. Found1(Reach, records)'
  <2>1. PICK n \in 0 .. length : n = Reach'
    BY <1>3
  <2>2. ASSUME NEW i \in Reach .. n - 1, Solid(i), text[i] # Heading PROVE i \in f .. l
    <3>1. i \in section .. e - 1
      BY <1>1, <1>3, <2>1, <2>2
    <3>2. QED  BY <1>1, <1>2, <2>2, <3>1
  <2>3. Found1(n, records)'
    BY <1>6, <2>2
  <2>4. QED  BY <2>1, <2>3 DEF Found1
<1>11. Numbers'
  <2>1. Child(f .. l, NoParent).type = "child" /\ Child(f .. l, NoParent).index = childSeq
    BY DEF Child
  <2>2. \A r \in records : r.index \in Int
    BY <1>1 DEF TypeOK, Record
  <2>3. QED
    BY <1>1, <1>3, <2>1, <2>2 DEF IInv, Numbers
<1>12. Current'
  BY <1>3 DEF Current
<1>13. QED
  BY <1>6, <1>7, <1>8, <1>9, <1>10, <1>11, <1>12 DEF IInv

LEMMA PieceKeeps ==
    ASSUME IInv, NEW e \in 0 .. length, Piece(e)
    PROVE  IInv'
<1>1. /\ length \in Nat /\ section \in 0 .. length /\ start \in 0 .. length /\ stop \in 0 .. length
      /\ step = "pieces" /\ step' = "pieces" /\ Reach = start /\ Reach' = start'
      /\ TypeOK /\ Size \in Nat /\ start < stop /\ Cut(e) /\ start' = e
      /\ UNCHANGED <<text, length, section, stop, parentSeq>>
      /\ childSeq \in Nat /\ parentSeq \in Int
      /\ section <= start /\ NoHeadingWithin(section, stop)
  BY Lengths DEF IInv, Piece, Reach, NextStart, Place
<1>2. start < e /\ e <= start + Size /\ e <= stop
  BY <1>1, CutEnds
<1> DEFINE piece == Strip(start, e)
<1>3. /\ piece \in SUBSET Positions
      /\ \A i \in piece : Reach <= i /\ section <= i /\ i < stop /\ i < e
      /\ \A i, j \in piece : j - i < Size
      /\ \A i \in start .. e - 1 : Solid(i) => i \in piece
  BY <1>1, <1>2 DEF Strip, Positions
<1>4. PICK p \in records : /\ p.type = "parent" /\ p.index = parentSeq
                           /\ start .. stop - 1 \subseteq p.body /\ p.heading = HeadingOf(section)
  BY <1>1 DEF IInv, Current
<1>5. Place'
  BY <1>1, <1>2 DEF IInv, Place, NoHeadingWithin, Solid
<1>6. e .. stop - 1 \subseteq p.body
  BY <1>1, <1>2, <1>4
<1>7. CASE piece = {}
  <2>1. UNCHANGED <<records, childSeq>>
    BY <1>7 DEF Piece
  <2>2. TypeOK'
    BY <1>1, <2>1, NoRecord DEF TypeOK, TextIs
  <2>3. Behind'
    BY <1>1, <1>2, <2>1 DEF IInv, Behind, TypeOK, Record, Positions
  <2>4. Found1(Reach, records)'
    <3>1. \A i \in Reach .. e - 1 : ~Solid(i) \/ text[i] = Heading
      BY <1>1, <1>3, <1>7
    <3>2. Found1(e, records)'
      BY <1>1, <2>1, <3>1, NoRecord
    <3>3. QED  BY <1>1, <3>2 DEF Found1
  <2>5. Numbers' /\ Current'
    BY <1>1, <1>4, <1>6, <2>1 DEF IInv, Numbers, Current, HeadingOf
  <2>6. QED
    BY <1>1, <1>5, <2>1, <2>2, <2>3, <2>4, <2>5, NoRecord DEF IInv
<1>8. CASE piece # {}
  <2>1. records' = records \cup {Child(piece, parentSeq)} /\ childSeq' = childSeq + 1
    BY <1>8 DEF Piece
  <2>2. piece \subseteq p.body
    <3> HIDE DEF piece
    <3>1. piece \subseteq start .. stop - 1
      BY <1>1, <1>3 DEF Positions
    <3>2. QED  BY <1>4, <3>1
  <2>3. /\ records' \subseteq Record'
        /\ NumbersAreUnique' /\ ParentsContainTheirChildren'
        /\ ChunksKeepTheirHeading' /\ ChildrenFit'
        /\ \A n \in 0 .. length :
             (\A i \in Reach .. n - 1 : Solid(i) /\ text[i] # Heading => i \in piece)
               => Found1(n, records)'
    <3>1. \E q \in records : /\ q.type = "parent" /\ q.index = parentSeq
                             /\ piece \subseteq q.body /\ q.heading = HeadingOf(section)
      BY <1>4, <2>2
    <3>2. \A i \in piece : Reach <= i /\ section <= i /\ i < stop
      BY <1>3
    <3>3. parentSeq \in {NoParent, parentSeq} /\ UNCHANGED <<text, length, parentSeq>>
      BY <1>1
    <3> HIDE DEF piece
    <3>4. QED  BY <1>1, <1>3, <2>1, <3>1, <3>2, <3>3, AddChild
  <2>4. TypeOK'
    BY <1>1, <2>1, <2>3 DEF TypeOK, TextIs
  <2>5. Child(piece, parentSeq).type = "child" /\ Child(piece, parentSeq).index = childSeq
        /\ Child(piece, parentSeq).body = piece
    BY DEF Child
  <2>6. Behind'
    <3>1. ASSUME NEW r \in records, NEW i \in r.body
          PROVE  i < e \/ (r.type = "parent" /\ i < stop)
      BY <1>1, <1>2 DEF IInv, Behind, TypeOK, Record, Positions
    <3>2. QED
      BY <1>1, <1>3, <2>1, <2>5, <3>1 DEF Behind
  <2>7. Found1(Reach, records)'
    <3>1. Found1(e, records)'
      BY <1>1, <1>3, <2>3
    <3>2. QED  BY <1>1, <3>1 DEF Found1
  <2>8. Numbers'
    <3>1. \A r \in records : r.index \in Int
      BY <1>1 DEF TypeOK, Record
    <3>2. QED
      BY <1>1, <2>1, <2>5, <3>1 DEF IInv, Numbers
  <2>9. Current'
    BY <1>1, <1>4, <1>6, <2>1 DEF Current, HeadingOf
  <2>10. QED
    BY <1>5, <2>3, <2>4, <2>6, <2>7, <2>8, <2>9 DEF IInv
<1>9. QED  BY <1>7, <1>8

LEMMA OpenKeeps ==
    ASSUME IInv, NEW e \in 0 .. length, NEW f \in Positions, NEW l \in Positions,
           OpenSection(e, f, l)
    PROVE  IInv'
<1> DEFINE c == [type |-> "parent", index |-> parentSeq, body |-> f .. l,
                 parent |-> NoParent, heading |-> HeadingOf(section)]
<1>1. /\ length \in Nat /\ section \in 0 .. length /\ start \in 0 .. length /\ stop \in 0 .. length
      /\ step = "section" /\ Reach = section /\ TypeOK /\ Size \in Nat
      /\ step' = "pieces" /\ start' = f /\ stop' = l + 1 /\ Reach' = f
      /\ UNCHANGED <<text, length, section, parentSeq, childSeq>>
      /\ records' = records \cup {c}
      /\ childSeq \in Nat /\ parentSeq \in Int /\ parentSeq < 0
  BY Lengths DEF IInv, OpenSection, Reach, Numbers, sequence
<1>2. /\ e \in section .. length /\ (e < length => text[e] = Heading)
      /\ NoHeadingWithin(section, e)
      /\ f \in section .. e - 1 /\ l \in f .. e - 1
      /\ \A i \in section .. e - 1 : Solid(i) => f <= i /\ i <= l
  BY DEF OpenSection, Within, EndsSection, NoHeadingWithin
<1>3. c.type = "parent" /\ c.index = parentSeq /\ c.body = f .. l /\ c.parent = NoParent
      /\ c.heading = HeadingOf(section)
  OBVIOUS
<1>4. f .. l \in SUBSET Positions /\ \A i \in f .. l : section <= i /\ i < e
  BY <1>1, <1>2 DEF Positions
<1>5. TypeOK'
  <2>1. HeadingOf(section) \in Positions \cup {NoHeading}
    BY <1>1 DEF HeadingOf, Positions
  <2>2. c \in Record
    BY <1>1, <1>4, <2>1 DEF Record
  <2>3. records' \subseteq Record'
    BY <1>1, <2>2 DEF TypeOK, Record, Positions
  <2>4. start' \in 0 .. length /\ stop' \in 0 .. length
    BY <1>1, <1>2
  <2>5. QED
    BY <1>1, <2>3, <2>4 DEF TypeOK, TextIs
<1> HIDE DEF c
<1>6. Place'
  <2>1. NoHeadingWithin(section, l + 1)
    BY <1>1, <1>2 DEF NoHeadingWithin
  <2>2. ASSUME NEW i \in l + 1 .. length - 1, Solid(i)
        PROVE  \E h \in l + 1 .. i : text[h] = Heading
    <3>1. e <= i
      BY <1>1, <1>2, <2>2
    <3>2. e \in l + 1 .. i /\ text[e] = Heading
      BY <1>1, <1>2, <2>2, <3>1
    <3>3. QED  BY <3>2
  <2>3. QED
    BY <1>1, <1>2, <2>1, <2>2 DEF IInv, Place, NoHeadingWithin, Solid
<1>7. ASSUME NEW r \in records, NEW i \in r.body PROVE i < section /\ i \in Int
  BY <1>1 DEF IInv, Behind, Record, Positions, TypeOK
<1>8. Behind'
  <2>1. ASSUME NEW r \in records', NEW i \in r.body
        PROVE  i < f \/ (r.type = "parent" /\ i < l + 1)
    <3>1. CASE r \in records
      BY <1>1, <1>2, <1>7, <2>1, <3>1
    <3>2. CASE r = c
      BY <1>1, <1>2, <1>3, <2>1, <3>2
    <3>3. QED  BY <1>1, <2>1, <3>1, <3>2
  <2>2. QED  BY <1>1, <2>1 DEF Behind
<1>9. Found1(Reach, records)'
  <2>1. ASSUME NEW i \in 0 .. f - 1, Solid(i), text[i] # Heading
        PROVE  \E r \in records' :
                  /\ r.type = "child" /\ i \in r.body
                  /\ \A s \in records' : s.type = "child" /\ i \in s.body => s = r
    <3>1. i \in 0 .. section - 1
      BY <1>1, <1>2, <2>1
    <3>2. PICK r \in records :
             /\ r.type = "child" /\ i \in r.body
             /\ \A s \in records : s.type = "child" /\ i \in s.body => s = r
      BY <1>1, <2>1, <3>1 DEF IInv, Found1
    <3>3. QED  BY <1>1, <1>3, <3>2
  <2>2. QED  BY <1>1, <2>1 DEF Found1, Solid
<1>10. Numbers'
  <2>1. \A r \in records : r.index \in Int
    BY <1>1 DEF TypeOK, Record
  <2>2. QED
    BY <1>1, <1>3, <2>1 DEF IInv, Numbers
<1>11. Current'
  BY <1>1, <1>2, <1>3 DEF Current, HeadingOf
<1>12. NumbersAreUnique'
  <2>1. \A r \in records : r.index # parentSeq /\ r.index \in Int
    BY <1>1 DEF IInv, Numbers, TypeOK, Record
  <2>2. NumbersAreUnique
    BY DEF IInv
  <2>3. \A r, s \in records' : r.index = s.index => r = s
    BY <1>1, <1>3, <2>1, <2>2 DEF NumbersAreUnique
  <2>4. \A r \in records' : r.type = "parent" <=> r.index < 0
    BY <1>1, <1>3, <2>2 DEF NumbersAreUnique
  <2>5. QED  BY <2>3, <2>4 DEF NumbersAreUnique
<1>13. ParentsContainTheirChildren'
  BY <1>1, <1>3 DEF IInv, ParentsContainTheirChildren
<1>14. ChunksKeepTheirHeading'
  <2>1. \A i \in f .. l :
           /\ HeadingOf(section) # NoHeading =>
                HeadingOf(section) < i /\ text[HeadingOf(section)] = Heading
           /\ \A h \in 0 .. i : text[h] = Heading =>
                HeadingOf(section) # NoHeading /\ h <= HeadingOf(section)
    BY <1>1, <1>2, <1>4, KeepsHeading DEF IInv
  <2>2. ChunksKeepTheirHeading
    BY DEF IInv
  <2>3. \A r \in records' : r \in records \/ (r.body = f .. l /\ r.heading = HeadingOf(section))
    BY <1>1, <1>3
  <2>4. QED
    BY <1>1, <2>1, <2>2, <2>3 DEF ChunksKeepTheirHeading
<1>15. ChildrenFit'
  BY <1>1, <1>3 DEF IInv, ChildrenFit
<1>16. QED
  BY <1>5, <1>6, <1>8, <1>9, <1>10, <1>11, <1>12, <1>13, <1>14, <1>15 DEF IInv

LEMMA CloseKeeps ==
    ASSUME IInv, NEW e \in 0 .. length, CloseSection(e)
    PROVE  IInv'
<1>1. /\ length \in Nat /\ section \in 0 .. length /\ start \in 0 .. length /\ stop \in 0 .. length
      /\ step = "pieces" /\ Reach = start /\ TypeOK /\ start = stop /\ section <= start
      /\ UNCHANGED <<text, length, start, stop, records, childSeq>>
      /\ parentSeq' = parentSeq - 1 /\ parentSeq \in Int
      /\ EndsSection(e) /\ GoOn(e)
  BY Lengths DEF IInv, CloseSection, Reach, Place
<1>2. /\ section' \in 0 .. length /\ step' \in {"section", "done"}
      /\ section <= e /\ NoHeadingWithin(section, e)
      /\ section' > 0 => section' = section \/ text[section' - 1] = Heading
      /\ Reach' = IF e = length THEN length ELSE e + 1
      /\ Reach' \in 0 .. length
      /\ \A i \in e .. Reach' - 1 : text[i] = Heading
  BY <1>1, Onward
<1>3. stop <= e
  <2>1. NoHeadingWithin(section, stop)
    BY <1>1 DEF IInv, Place
  <2>2. e < length => text[e] = Heading
    BY <1>1 DEF EndsSection
  <2>3. QED
    BY <1>1, <1>2, <2>1, <2>2 DEF NoHeadingWithin
<1>4. ASSUME NEW i \in stop .. e - 1, Solid(i) PROVE FALSE
  <2>1. PICK h \in stop .. i : text[h] = Heading
    BY <1>1, <1>4 DEF IInv, Place
  <2>2. h \in section .. e - 1
    BY <1>1, <1>4
  <2>3. QED  BY <1>2, <2>1, <2>2 DEF NoHeadingWithin
<1>5. TypeOK'
  BY <1>1, <1>2, NoRecord DEF TypeOK, TextIs
<1>6. Place'
  BY <1>1, <1>2 DEF IInv, Place
<1>7. Behind'
  <2>1. ASSUME NEW r \in records, NEW i \in r.body PROVE i < stop /\ i \in Int
    BY <1>1 DEF IInv, Behind, Record, Positions, TypeOK
  <2>2. stop <= Reach'
    BY <1>1, <1>2, <1>3
  <2>3. QED
    BY <1>1, <1>2, <2>1, <2>2 DEF Behind
<1>8. Found1(Reach, records)'
  <2>1. PICK n \in 0 .. length : n = Reach'
    BY <1>2
  <2>2. \A i \in Reach .. n - 1 : ~Solid(i) \/ text[i] = Heading
    BY <1>1, <1>2, <1>4, <2>1
  <2>3. Found1(n, records)'
    BY <1>1, <2>2, NoRecord
  <2>4. QED  BY <2>1, <2>3 DEF Found1
<1>9. Numbers' /\ Current'
  <2>1. \A r \in records : r.index \in Int
    BY <1>1 DEF TypeOK, Record
  <2>2. QED
    BY <1>1, <1>2, <2>1 DEF IInv, Numbers, Current
<1>10. QED
  BY <1>1, <1>5, <1>6, <1>7, <1>8, <1>9, NoRecord DEF IInv

LEMMA StepIInv == IInv /\ [Next]_vars => IInv'
<1>1. SUFFICES ASSUME IInv, [Next]_vars PROVE IInv'
  OBVIOUS
<1>2. CASE \E e \in 0 .. length : SkipSection(e)
  BY <1>1, <1>2, SkipKeeps
<1>3. CASE \E e \in 0 .. length, f, l \in Positions : SmallSection(e, f, l)
  BY <1>1, <1>3, SmallKeeps
<1>4. CASE \E e \in 0 .. length, f, l \in Positions : OpenSection(e, f, l)
  BY <1>1, <1>4, OpenKeeps
<1>5. CASE \E e \in 0 .. length : Piece(e)
  BY <1>1, <1>5, PieceKeeps
<1>6. CASE \E e \in 0 .. length : CloseSection(e)
  BY <1>1, <1>6, CloseKeeps
<1>7. CASE UNCHANGED vars
  BY <1>1, <1>7 DEF vars, sequence, IInv, TypeOK, TextIs, Record, Positions, Place, NoHeadingWithin,
     Behind, Reach, Found1, Numbers, Current, HeadingOf, NumbersAreUnique,
     ParentsContainTheirChildren, ChunksKeepTheirHeading, ChildrenFit, Solid
<1>8. QED  BY <1>1, <1>2, <1>3, <1>4, <1>5, <1>6, <1>7 DEF Next

\* What the splitter promises, all at once.
LEMMA Kept == Spec => []IInv
<1>1. Init => IInv  BY InitIInv
<1>2. IInv /\ [Next]_vars => IInv'  BY StepIInv
<1>3. QED  BY <1>1, <1>2, PTL DEF Spec

\* The variables keep their types, positions stay within the text.
THEOREM TypeCorrect == Spec => []TypeOK
<1>1. IInv => TypeOK  BY DEF IInv
<1>2. QED  BY <1>1, Kept, PTL

\* Every word outside the headings is in one child.
THEOREM WordsFound == Spec => []WordsAreFoundOnce
<1>1. IInv => WordsAreFoundOnce
  BY DEF IInv, Reach, Found1, WordsAreFoundOnce, Positions
<1>2. QED  BY <1>1, Kept, PTL

\* The numbers fit the unique constraint.
THEOREM NumbersFit == Spec => []NumbersAreUnique
<1>1. IInv => NumbersAreUnique  BY DEF IInv
<1>2. QED  BY <1>1, Kept, PTL

\* A child is within the parent it names.
THEOREM ParentsContain == Spec => []ParentsContainTheirChildren
<1>1. IInv => ParentsContainTheirChildren  BY DEF IInv
<1>2. QED  BY <1>1, Kept, PTL

\* The heading of a chunk is the nearest above all of its text.
THEOREM HeadingsKept == Spec => []ChunksKeepTheirHeading
<1>1. IInv => ChunksKeepTheirHeading  BY DEF IInv
<1>2. QED  BY <1>1, Kept, PTL

\* No child is longer than the size.
THEOREM ChildrenNeverOutgrow == Spec => []ChildrenFit
<1>1. IInv => ChildrenFit  BY DEF IInv
<1>2. QED  BY <1>1, Kept, PTL
=============================================================================
