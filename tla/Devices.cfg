SPECIFICATION Spec
CONSTANTS
  MaxLoads = 2
  MaxFaults = 1
  MaxGames = 2
INVARIANTS UsbAsNoted PowerFollows GameFollowsMenu ScalerFollows
ACTION_CONSTRAINT Bounded
