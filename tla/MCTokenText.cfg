\* All texts of at most six symbols, the largest integer being 22; two groups of
\* bytes and a bit, with the widths of base64 scaled down; a clock of at most 7
\* ticks, two to the second; builders that are set twice, with identities of at
\* most two characters.
CONSTANTS
  MaxInteger = 22
  Digits <- BoundaryDigits
  DigitValue <- BoundaryValues
  Texts <- ShortTexts
  MaxLength = 6
  ByteBits = 4
  SymbolBits = 3
  WordBits = 8
  Pad = Pad
  Other = Other
  Bodies <- BoundaryData
  Encodings <- BoundaryTexts
  MaxClock = 7
  TicksPerSecond = 2
  Moments <- BoundaryMoments
  MaxSets = 2
  MaxText = 2
  MaxInput = 1
  Lengths <- BoundaryLengths
SPECIFICATION TokenText
INVARIANTS
  ExactOrTooLarge
  ReadsTheField
  CryptoExact
  LifetimeFits
  ClaimsAsAsked
