\* A here-document with a delimiter in double quotes.
SPECIFICATION FairSpec
CONSTANTS
  Source <- MCQuotedDelimiter
CHECK_DEADLOCK FALSE
INVARIANT HereDocsOfLines
