\* Tokens of every kind.
SPECIFICATION FairSpec
CONSTANTS
  Source <- MCWords
CHECK_DEADLOCK FALSE
INVARIANTS TypeOK TokensOfGrammar HereDocsOfLines SourceShown TildeExpansions
INVARIANTS NewlineEndsReading ContentEndsAtParenthesis
PROPERTY Terminates
