SPECIFICATION Spec
CONSTANTS
  b1 = b1
  b2 = b2
  b3 = b3
  b4 = b4
  b5 = b5
  BatchSize = 2
  Buffer = {b1, b2, b3, b4}
  Packet <- StunPackets
  Blank = Blank
  QueueSize = 1
SYMMETRY Symmetry
INVARIANTS EvaluatesReceived
