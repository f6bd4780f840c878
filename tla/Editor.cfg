CONSTANTS
    NL = "lf"
    CR = "cr"
    SP = " "
    Byte <- MCByte
    Word <- MCWord
    Glyph <- MCGlyph
    Docs <- MCDocs
    Heights <- MCHeights
    Columns <- MCColumns
    PageRows = 2
    WheelRows = 1
    TabWidth = 2
    MaxBytes = 4

SPECIFICATION Spec
VIEW MCView

INVARIANT IInv
INVARIANT CopiesWhatIsShown
INVARIANT RoundTrip
PROPERTY ImplementsFlatText
PROPERTY ViewFollows
