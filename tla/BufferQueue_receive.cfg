\* A receive queue of three buffers, made by ConfigureBuffers or by
\* ConfigureExternalBuffer, with a work queue deep enough for all of them
\* and two application threads; both may call QueueExternalBufferRegion.
CONSTANTS
  Buffers = {b1, b2, b3}
  Direction = "Receive"
  ExternalModes = {FALSE, TRUE}
  Users = {t1, t2}
  ExtUsers = {t1, t2}
  UsedSizes = {0}
  CreditSizes = {1}
  MaxCredits = 0
  MaxWr = 3
  NoBuffer = NoBuffer
SPECIFICATION Spec
INVARIANT PostedPrefixOfQueued
INVARIANT BufferPartition
PROPERTY WaitCompletedReturns
