SPECIFICATION Spec
CONSTANTS
  Title = {host, bubble}
  Adrenaline = host
  PspemuNamed = {host}
  Device = {ux0}
  MsDevice = {ux0}
  Ux0 = ux0
  File = {game}
  NoFile = noFile
  Slot = {}
  Settings = {zero}
  ZeroSettings = zero
  Crashes = FALSE
  WriteFaults = TRUE
PROPERTIES RemovedOnlyAfterWrite
