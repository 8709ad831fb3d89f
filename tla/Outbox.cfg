SPECIFICATION FairSpec
CONSTANTS
  m1 = m1
  m2 = m2
  m3 = m3
  a = a
  b = b
  r1 = r1
  r2 = r2
  r3 = r3
  Messages = {m1, m2, m3}
  CreatedAt <- MessageTimes
  QueueOf <- MessageQueues
  Queues <- OrderThenEffects
  Instances = {a, b}
  Runs = {r1, r2, r3}
  InstanceOf <- RunHomes
  Limit = 2
  MaxFaults = 1
INVARIANTS
  TypeOK
  RowsAreHeld
  SentAgainOnlyAfterFault
  OneRunAtATime
PROPERTIES
  DeliversReliably
  DeliversEventually
  ShutdownEnds
