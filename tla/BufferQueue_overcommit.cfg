\* Send queue with more buffers than the provider work queue holds.
CONSTANTS
  Buffers = {b1, b2, b3}
  Direction = "Send"
  ExternalModes = {FALSE}
  Users = {t1, t2}
  ExtUsers = {}
  UsedSizes = {1, 2}
  CreditSizes = {1, 2}
  MaxCredits = 4
  MaxWr = 2
  NoBuffer = NoBuffer
SYMMETRY BufferSymmetry
SPECIFICATION Spec
INVARIANT PostedPrefixOfQueued
