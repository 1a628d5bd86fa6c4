CONSTANTS
  IntegerTexts <- Integers12
  UnsignedTexts <- Unsigned
  FloatTexts <- Floats
  Letters <- LetterA
  Digits <- DigitOne
  Bases <- SomeStatements
  Conditions <- SomeConditions
  EditTokens <- SomeTokens
  Chars <- SomeChars
  MaxChars = 4
  MaxTokens = 14
  MaxStatements = 2
SPECIFICATION Spec
CHECK_DEADLOCK FALSE
INVARIANTS RoundTrip AcceptedIsComplete BindIsWriting TokensExact
