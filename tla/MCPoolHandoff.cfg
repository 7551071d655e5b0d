SPECIFICATION FairSpec
CONSTANTS
  Handler = {h1, h2, h3, h4}
  None = None
  Punctual = TRUE
  MaxBreaks = 4
INVARIANTS
  OnePool
  NoPanic
PROPERTY Recovered
CHECK_DEADLOCK FALSE
