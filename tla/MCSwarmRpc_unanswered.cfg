\* A TRANSFER is forwarded to a session whose peer closed its channel but
\* whose pc callback has not yet removed it.
CONSTANTS
  a = a
  b = b
  None = None
  Sessions <- MCSessions
  Sizes <- MCSizes
  ByteLen <- MCByteLen
  ZlibLen <- MCZlibLen
  MinLength = 100
  MaxTtl = 2
  MaxSends = 3
SPECIFICATION Spec
PROPERTY TransferAnswered
\* The clients send at most MaxSends requests; after them the hub has
\* nothing left to do and the system rests.
CHECK_DEADLOCK FALSE
