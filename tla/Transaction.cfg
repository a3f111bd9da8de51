SPECIFICATION FairSpec
CONSTANTS
  N = 4
  MaxFailures = 3
INVARIANTS NoSilentPartial OwnsWhatIsThere
PROPERTIES StackSpec TeardownCompletes
