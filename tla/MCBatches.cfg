SPECIFICATION BatchesSpec
CONSTANTS
  b1 = b1
  b2 = b2
  b3 = b3
  b4 = b4
  b5 = b5
  BatchSize = 2
  Buffer = {b1, b2, b3, b4}
  Packet <- AllPackets
  Blank = Blank
  QueueSize = 1
  TunPacket <- OffloadPackets
  V6Flow = {2}
  SeqSpace = 16
  Cap = 4
  IdealBatchSize = 3
  Segs = {2, 3}
  Port = {1, 2}
  MaxTries = 1
  MaxMsgs = 6
  MsgLen = {1, 2}
  MaxDgrams = 3
  MaxPayloadLen = 5
  MsgCap = 6
  MaxSend = 4
  MaxOpens = 2
SYMMETRY Symmetry
INVARIANTS BatchesTypeOK ReceivedIntact OneOwner
  OffloadTransparent OffloadHonest SendTransparent SplitIntact
