SPECIFICATION Spec
CONSTANTS
    Byte <- Bytes
    NUL = 0
    Inline = 2
    Scratch = 3
    Pieces <- Piece
    Texts <- Text
    NullFormat <- NullFmt
    FormatError <- Error
    MaxDepth = 2
    MaxLines = 2
    MaxText = 5
    MayFail = TRUE
INVARIANTS
    TypeOK
    MessagesWhole
    HeapOnlyWhenLong
