SPECIFICATION FairSpec
CONSTANTS
  N = 3
  MaxFaults = 3
  MaxForeign = 1
INVARIANTS TypeOK DiskTruth AlwaysDecodable CleanReport NeverAdopts
PROPERTIES IntentFirst StackSpec Recovered
