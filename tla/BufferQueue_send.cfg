\* Send queue: three buffers, a work queue of two (so QueueToQp can fail),
\* two application threads, credits of size 1 or 2 against sends of 1 or 2.
CONSTANTS
  Buffers = {b1, b2, b3}
  Direction = "Send"
  ExternalModes = {FALSE}
  Users = {t1, t2}
  ExtUsers = {}
  UsedSizes = {1, 2}
  CreditSizes = {1, 2}
  MaxCredits = 3
  MaxWr = 2
  NoBuffer = NoBuffer
SYMMETRY BufferSymmetry
SPECIFICATION Spec
INVARIANT TypeOK
INVARIANT BufferPartition
INVARIANT NicOwnedNotUser
INVARIANT ParkedOnlyWithoutCredit
