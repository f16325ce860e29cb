\* A here-document on the line of a for loop.
SPECIFICATION FairSpec
CONSTANTS
  Alias <- MCAlias
  Offer <- MCOffer
  Source <- MCHereDocsInFor
CHECK_DEADLOCK FALSE
INVARIANT HereDocsOnTime
