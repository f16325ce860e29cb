\* A backslash escapes another one at the end of a line.
SPECIFICATION FairSpec
CONSTANTS
  Source <- MCBackslashes
CHECK_DEADLOCK FALSE
INVARIANT TokensOfGrammar
