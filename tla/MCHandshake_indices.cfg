SPECIFICATION Spec
CONSTANTS
  a = a
  b = b
  wa = wa
  wa2 = wa2
  ta = ta
  wb = wb
  wb2 = wb2
  tb = tb
  Device = {a, b}
  Thread = {wa, ta, wb, wb2}
  DeviceOf <- MCDeviceOf
  Roles <- EraseRoles
  Zero = Zero
  Index = {Zero, i1, i2}
  NoKeypair = NoKeypair
  NoMsg = NoMsg
  MaxEph = 3
  MaxTime = 2
SYMMETRY Symmetry
INVARIANTS LookupFindsOwner NoIndexLeak
PROPERTIES TimestampMonotone
CHECK_DEADLOCK FALSE
