SPECIFICATION FairSpec
CONSTANTS
  w1 = w1  w2 = w2  c1 = c1  c2 = c2
  s1 = s1  s2 = s2  s3 = s3
  q1 = q1  q2 = q2
  Threads <- TwoThreads
  Writers = {w1, w2}
  Publishers = {c1, c2}
  Stores = {s1, s2, s3}
  NoThread = NoThread  NoStore = NoStore  NoActor = NoActor
  RolloutOf <- Rollouts
  StoreOf <- TwoRequestsAndPass
  Processes = {q1, q2}
  ProcessOf <- TwoProcesses
  MaxDeaths = 1
INVARIANTS SingleWriterKept PublicationKept AllOrNothing
PROPERTIES OwnershipKept CallsReturn
