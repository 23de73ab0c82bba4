SPECIFICATION Spec
CONSTANTS
  Thread = {}
  Self = self
  NoThread = none
  MAX_THREADS = 2
  Host = FALSE
  PsButton = 0
  NoState = noState
  Actions = {"EXIT_VSH"}
  Options = {}
  WithStates = TRUE
  MaxLeaves = 0
PROPERTIES StateCommandOnce
