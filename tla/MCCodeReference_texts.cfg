SPECIFICATION ReferenceSpec
CONSTANTS
    MaxLength = 4
    Chars <- MCChars
    Newline <- MCNewline
    NoChar = NoChar
    Texts <- MCTexts
    Whitespace <- MCWhitespace
    Digits <- MCDigits
    Letters <- MCLetters
    Symbols <- MCSymbols
    Keywords <- MCKeywords
INVARIANTS
    TypeOK
    NoReadPastEnd
    IteratorIsFlat
    TokensTile
    MaximalMunch
    ReferenceCoversLine
PROPERTIES
    VerdictIsSticky
    NextReturns
