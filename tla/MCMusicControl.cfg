\* Three creations over two hosts: two race for one host while the third takes
\* ids away.  One id more than there are rows makes collisions common.  One
\* command is sent with any id at any time.
CONSTANTS
  Creators = {c1, c2, c3}
  Hosts = {h1, h2}
  Ids = {i1, i2, i3}
  Controls = {r1}
  None = None
SYMMETRY Symmetry
SPECIFICATION ControlSpec
INVARIANTS
  UnracedSessionStands
  RowNotFoundOnlyIfDeleted
PROPERTIES
  CommandsFollowSession
CHECK_DEADLOCK FALSE
