\* Every construct, and aliases and here-documents in them.
SPECIFICATION FairSpec
CONSTANTS
  Alias <- MCAlias
  Offer <- MCOffer
  Source <- MCSources
CHECK_DEADLOCK FALSE
INVARIANTS TypeOK AcceptsGrammar HereDocsOnTime FilledInOrder RoundTrip ErrorsExplained MissingContentLocated
PROPERTY Terminates
