SPECIFICATION FairSpec
CONSTANTS
  Title = {host, b1, b2}
  Adrenaline = host
  PspemuNamed = {host}
  Device = {ux0}
  MsDevice = {ux0}
  Ux0 = ux0
  File = {game}
  NoFile = noFile
  Slot = {}
  Settings = {zero}
  ZeroSettings = zero
  Crashes = TRUE
  WriteFaults = TRUE
INVARIANTS SettingsWrittenForBubbles
PROPERTIES LaunchSettles Implements
