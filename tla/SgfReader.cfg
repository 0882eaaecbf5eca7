\* Trees of depth up to three, cut anywhere, with at most one flaw.
SPECIFICATION Spec
CONSTANTS
    Properties <- SmallProperties
    Trees <- SmallTrees
    MaxNodes = 12
    Numbers <- SmallNumbers
INVARIANT TypeOK
INVARIANT ReadsPrefix
INVARIANT MovesKept
INVARIANT LinesKept
INVARIANT WinnerKnown
PROPERTY ReadsAll
PROPERTY ReadsMore
