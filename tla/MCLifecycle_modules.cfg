CONSTANTS
  MAX_CHUNK_NUMBER = 3
  NumBlocks = 4
  BlockSize = 2
  Files = {"f", "g"}
  BUF_LEN = 2
  None = None
SPECIFICATION Spec
INVARIANTS MemorySound FilesServed NothingLeft PointerInside
PROPERTY RemovalCompletes
