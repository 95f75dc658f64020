\* Two sessions, TRANSFERs started with ttl 0..2 and relayed on, three
\* requests in all; MIN_LENGTH as in compress.rs.
CONSTANTS
  a = a
  b = b
  None = None
  Sessions <- MCSessions
  Sizes <- MCSizes
  ByteLen <- MCByteLen
  ZlibLen <- MCZlibLen
  MinLength = 100
  MaxTtl = 2
  MaxSends = 3
SPECIFICATION Spec
SYMMETRY Symmetry
INVARIANT TypeOK
INVARIANT TtlBoundsHops
\* The clients send at most MaxSends requests; after them the hub has
\* nothing left to do and the system rests.
CHECK_DEADLOCK FALSE
