SPECIFICATION Spec
CONSTANTS
  Title = {host, bubble}
  Adrenaline = host
  PspemuNamed = {host}
  Device = {ux0, ur0}
  MsDevice = {ux0, ur0}
  Ux0 = ux0
  File = {game}
  NoFile = noFile
  Slot = {2}
  Settings = {zero, mine}
  ZeroSettings = zero
  Crashes = FALSE
  WriteFaults = FALSE
INVARIANTS TypeOK LocationSetForGame
PROPERTIES GameKept SettingsKept
