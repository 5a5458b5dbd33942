SPECIFICATION FairSpec
CONSTANTS
  Address = {a}
  Session = {s}
  None = None
  IslandId = {1, 2}
  NoIsland = 0
  MaxIslandSize = 2
  MaxToCore = 2
  MaxToStats = 1
  MaxToClients = 1
  Faults = {"connector"}
  MaxFaults = 1
PROPERTY EverySessionTold
