\* All pairs of two aliases with replacements of up to two words.
SPECIFICATION FairSpec
CONSTANTS
  Name <- MCName
  Letter <- MCLetter
  Line <- MCLine
  AliasSets <- MCAliasSets
  MaxLines = 2
CHECK_DEADLOCK FALSE
INVARIANTS TypeOK ChainsInjective BlankRuleExact LocationsTruthful
PROPERTIES SubstitutionIsLocal Terminates
