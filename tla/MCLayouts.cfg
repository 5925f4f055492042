SPECIFICATION LayoutsSpec
CONSTANTS
  MAX_QUEUES = 64
  Queue = {0, 1, 2, 20, 63}
  Value = {{}, {0, 7, 11, 31}}
  Vector = {{}, {0, 6}}
  BarSize = 131072
  MaxCalls = 2
  BufferAddress = {{11}, {0, 11, 63}}
  FrameLength = {{2, 3, 4, 5}, {1, 3, 5, 6, 7, 8, 10}, {0, 1, 2, 3, 4, 5, 6, 7, 8, 9, 10, 11, 12, 13, 14, 15}}
  HUGE_PAGE_SIZE = 2097152
  PACKET_HEADROOM = 32
  DefaultSize = 2048
  CardBufferSize = 2048
  NumEntries = 3
  EntrySizes = {0, 3000, 4096}
  Length = {2016, 2048}
  MaxPackets = 2
  Data = {d1, d2}
  NoData = NoData
  Receives = TRUE
  ConstructMax = 2016
  Usize = 65536
INVARIANTS
  LayoutsTypeOK
  ReadsBack
  MappingsAreKept
  DisabledIsMasked
  ReportIsRead
  PacketIsDescribed
  AccessInEntry
  PacketReadsBack
CHECK_DEADLOCK FALSE
