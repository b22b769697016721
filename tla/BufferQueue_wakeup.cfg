\* Send queue: a waiter for an idle buffer while another thread releases one.
CONSTANTS
  Buffers = {b1, b2, b3}
  Direction = "Send"
  ExternalModes = {FALSE}
  Users = {t1, t2}
  ExtUsers = {}
  UsedSizes = {1, 2}
  CreditSizes = {1, 2}
  MaxCredits = 3
  MaxWr = 2
  NoBuffer = NoBuffer

SPECIFICATION Spec
PROPERTY WaitIdleServed
