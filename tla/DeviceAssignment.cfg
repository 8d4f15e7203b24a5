CONSTANTS
  Vehicle = {v1, v2}
  Device = {d1, d2}
  MaxOps = 3
  Together = 2
  MaxFaults = 1
SYMMETRY Interchangeable
SPECIFICATION Spec
INVARIANTS
  TypeOK
  OneActiveUnlessOverlapped
  SettingsKept
  
