CONSTANTS
  WordBits = 4
  NativeBits = 8
  ImmediateBits = 7
  NibbleBits = 2
  Numerals <- SomeNumerals
  MaxWords = 4
  MaxFactorial = 6
  MaxSteps = 3
  Alphabets <- SomeAlphabets
  MaxTyped <- SomeMaxTyped
  MaxAround <- SomeMaxAround
SPECIFICATION Spec
INVARIANT IntegersAgree
INVARIANT ComparesAndReadsBack
INVARIANT TokensTile
INVARIANT NothingLost
INVARIANT ReadsWhatIsWritten
INVARIANT PositionsSpell
CHECK_DEADLOCK FALSE
