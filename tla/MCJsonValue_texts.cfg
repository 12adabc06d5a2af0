\* Texts as they were written, cut short anywhere, and arbitrary ones; an escape has one
\* digit, so that it fits.
CONSTANTS
    Alphabet <- Characters
    Letters <- WrittenLetters
    MaxText = 4
    MaxString = 1
    HexDigits = 1
SPECIFICATION Spec
CHECK_DEADLOCK FALSE
INVARIANT ParserIsExact
