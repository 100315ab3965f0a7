\* Three page loads, of two coalesced requests that are cached under one key and
\* of a page that makes its own: a load that comes late, one that is newer, and
\* one that hits or joins a request.
CONSTANTS
  Callers = {c1, c2, c3}
  mine = mine
  yours = yours
  now = now
  current = current
  Keys = {mine, yours, now}
  Pages <- MCPages
  PageOf <- MCPageOf
  Direct = {now}
  Failing = {1}
  MaxFlights = 2
  MaxVersion = 3
  Duration = 2
  MaxTime = 2
  MaxSetBack = 1
  None = None
SYMMETRY Symmetry
SPECIFICATION PagesSpec
INVARIANTS
  ChannelNeverClosedEmpty
  OneRequestPerKey
  FreshAnswer
PROPERTIES
  HitsAreRecent
  BackOnlyByLateLoad
CHECK_DEADLOCK FALSE
