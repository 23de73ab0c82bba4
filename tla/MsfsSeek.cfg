SPECIFICATION Spec
CONSTANTS
  MaxDescriptors = 1
  Device = {ux0}
  Ux0 = ux0
  File = {f}
  Dir = {root}
  Root = root
  MaxPos = 2
  Entries = 0
  Flags = {{"creat", "trunc"}}
  Absent = absent
  Envs = {{"seek", "data"}}
PROPERTIES ClosedAsOnPsp
