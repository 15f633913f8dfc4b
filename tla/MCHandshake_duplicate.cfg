SPECIFICATION Spec
CONSTANTS
  a = a
  b = b
  wa = wa
  wa2 = wa2
  ta = ta
  wb = wb
  wb2 = wb2
  tb = tb
  Device = {a, b}
  Thread = {wa, wa2, ta, wb}
  DeviceOf <- MCDeviceOf
  Roles <- EraseRoles
  Zero = Zero
  Index = {i1, i2, i3}
  NoKeypair = NoKeypair
  NoMsg = NoMsg
  MaxEph = 3
  MaxTime = 2
SYMMETRY Symmetry
INVARIANTS OneSessionPerHandshake
CHECK_DEADLOCK FALSE
