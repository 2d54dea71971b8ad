SPECIFICATION FairSpec
CONSTANTS
  p1 = p1
  p2 = p2
  main = main
  writer = writer
  Producers <- MCProducers
  Main = main
  Writer = writer
  MaxPending = 2
  NotifyBatch = 2
  Policies <- MCPolicies
  MaxRecords = 6
INVARIANTS FileIsComplete
PROPERTIES CallsReturn
