CONSTANTS
    Word = Word
    Space = Space
    Newline = Newline
    Dot = Dot
    Heading = Heading
    Texts <- MCTexts
    MaxLength = 10
    Size = 3
    Overlap = 1
    NoParent = NoParent
    NoHeading = NoHeading
SPECIFICATION MCSpec
INVARIANTS
    PhrasesStayWhole
    WordsAreFoundOnce
    ParentsContainTheirChildren
    ChunksKeepTheirHeading
CHECK_DEADLOCK FALSE
