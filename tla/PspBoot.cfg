SPECIFICATION FairSpec
CONSTANTS
  Stored = {{"high1", "plugins2"}, {"force", "high2", "speed", "notusexmbplugins"}}
  MaxBoots = 3
  WordSize = 256
INVARIANTS TypeOK PluginsOnce OneBootPerRequest BootMatchesRequest ClockFixed
PROPERTIES BootCompletes
CHECK_DEADLOCK FALSE
