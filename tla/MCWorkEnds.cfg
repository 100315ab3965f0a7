\* Requests: three callers for one key.  Audio: five chunks through pipes of two.
\* Reload: three commands.
CONSTANTS
  Callers = {c1, c2, c3}
  Keys = {current}
  MaxFlights = 3
  MaxVersion = 2
  None = None
  Chunks   = 5
  PipeSize = 2
  Reloads = {r1, r2, r3}
  Nobody  = Nobody
SPECIFICATION WorkSpec
PROPERTIES
  EveryCallEnds
  EveryTranscodingEnds
  AcceptedReloadEnds
\* Calls, songs and commands come to an end.
CHECK_DEADLOCK FALSE
