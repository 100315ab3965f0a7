SPECIFICATION Spec
CONSTANTS
  server = server
  desktop = desktop
  laptop = laptop
  Hosts = {server, desktop, laptop}
  Internet = Internet
  Situations <- MCSituations
  SshPort <- MCSshPort
  DefaultUser <- MCDefaultUser
  Whoami <- MCWhoami
  Aliases <- MCAliases
  Destinations <- MCDestinations
  MaxPosts = 2
  MaxMoves = 1
  MaxFailures = 1
INVARIANTS ListedAsPosted RouteLeadsThere RouteFoundIfAny
PROPERTY TableCatchesUp
CHECK_DEADLOCK TRUE
