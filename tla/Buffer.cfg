SPECIFICATION BufferSpec
CONSTANTS
  Byte = {0, 1}
  kCheapPrepend = 2
  kInitialSize = 2
  ExtraSize = 2
  MaxReadable = 4
  MaxReserve = 1
INVARIANTS ContentKept HeaderFits SizeBounded
