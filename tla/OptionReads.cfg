CONSTANTS
  Values <- MCValues
  Terminator = terminator
  Junk = junk
  MaxSet = 3
SPECIFICATION OptionSpec
INVARIANTS
  OneRetry
PROPERTIES
  ReadsAreAtomic
