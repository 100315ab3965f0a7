\* Two creations for one host, after an earlier session of it expired.
CONSTANTS
  Creators = {c1, c2, c3}
  Hosts = {h1}
  Ids = {i1, i2, i3}
  None = None
SPECIFICATION Spec
INVARIANTS
  SessionStands
CHECK_DEADLOCK FALSE
