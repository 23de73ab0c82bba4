SPECIFICATION FairSpec
CONSTANTS
  Location = {ux0}
  Num = {0, 1}
  Moment = {m1, m2}
  Absent = absent
  Hole = hole
  None = none
  Damaged = damaged
  Selected = {0}
  MaxFaults = 1
  MaxRequests = 2
INVARIANTS StatesWhole
PROPERTIES OldKept PspGoesOn Implements
