SPECIFICATION FairSpec
CONSTANTS
  Thread = {t1}
  Self = self
  NoThread = none
  MAX_THREADS = 3
  Host = TRUE
  PsButton = 0
  NoState = noState
  Actions = {}
  Options = {"suspend_threads", "ms_location"}
  WithStates = FALSE
  MaxLeaves = 1
INVARIANTS TypeOK ThreadsResumed NoLostWakeup
PROPERTIES CommandTaken SettingsReleased
