SPECIFICATION Spec
CONSTANTS
  Host = FALSE
  MAX_STATES = 3
  MAX_POSITION = 2
  LoadStates = {0, 3}
INVARIANTS TypeOK ListShown OptionsStored
PROPERTIES CursorDrawn
ACTION_CONSTRAINT Bounded
