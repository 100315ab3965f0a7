\* Two devices and three connection attempts: a replacement can begin while the
\* first connection is still registered, or still in its handshake.  Two
\* requests, one of which the device cannot decode, over channels of one
\* command: a channel can be full and acknowledgements can be late.
CONSTANTS
  Hosts = {h1, h2}
  Requests = {r1, r2}
  Garbled = {r2}
  Opaque = {}
  ChannelSize = 1
  MaxSockets = 3
  MaxRestarts = 1
  None = None
SPECIFICATION Spec
INVARIANTS
  RunsOnceWhereAsked
  OkAnswersAsked
  GaugeCoversConnections
PROPERTIES
  NewestConnectionServes
  RelaySpec
SYMMETRY Symmetry
CHECK_DEADLOCK FALSE
