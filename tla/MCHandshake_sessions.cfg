SPECIFICATION Spec
CONSTANTS
  a = a
  b = b
  wa = wa
  wa2 = wa2
  ta = ta
  wb = wb
  wb2 = wb2
  tb = tb
  Device = {a, b}
  Thread = {wa, ta, wb, tb}
  DeviceOf <- MCDeviceOf
  Roles <- CrossRoles
  Zero = Zero
  Index = {i1, i2, i3}
  NoKeypair = NoKeypair
  NoMsg = NoMsg
  MaxEph = 4
  MaxTime = 1
SYMMETRY Symmetry
INVARIANTS TypeOK SessionsAgree
CHECK_DEADLOCK FALSE
