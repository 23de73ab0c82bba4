SPECIFICATION FairSpec
CONSTANTS
  MaxDescriptors = 2
  Device = {ux0, ur0}
  Ux0 = ux0
  File = {f}
  Dir = {root, dir}
  Root = root
  MaxPos = 3
  Entries = 1
  Flags = {{}, {"creat", "trunc"}, {"creat", "append"}}
  Absent = absent
  Envs = {{"remount", "fault", "share", "two"}, {"remount", "state", "seek"}, {"remount", "seek", "dir"}, {"state", "seek", "dir"}, {"remount", "crash", "fault", "location", "share"}, {"crash", "fault", "two", "data"}, {"remount", "append", "fault"}, {"crash", "share", "seek", "two"}}
INVARIANTS TypeOK SlotsHeld OffsetTracks CopyFound
PROPERTIES RequestAnswered ClosedAsOnPsp
