\* One device whose connection may fail once.  One response the server cannot
\* decode, and one command the device cannot decode, queued before or behind it.
CONSTANTS
  Hosts = {h1}
  Requests = {r1, r2}
  Garbled = {r2}
  Opaque = {r1}
  ChannelSize = 2
  MaxSockets = 2
  MaxRestarts = 1
  None = None
SPECIFICATION FairSpec
PROPERTIES
  EveryRequestAnswered
  DeliveredUnlessDropped
  ReachableAtLast
CHECK_DEADLOCK FALSE
