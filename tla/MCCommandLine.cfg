CONSTANTS
  Words <- MCWords
  MaxWords = 5
SPECIFICATION FairSpec
INVARIANTS
  TypeOK
  ProgramAsGiven
  OptionsAsGiven
PROPERTY
  Terminates
