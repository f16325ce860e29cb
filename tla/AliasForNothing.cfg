\* An alias for nothing before a newline after `|`.
SPECIFICATION FairSpec
CONSTANTS
  Alias <- MCAlias
  Offer <- MCOffer
  Source <- MCNoCommand
CHECK_DEADLOCK FALSE
INVARIANT AcceptsGrammar
