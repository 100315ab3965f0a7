\* Thumbnails: three requests by two routes, a restart.  Downloads: two jobs, two titles.  Playlist: four songs.  Mods: two packs.
\* Logs: two requests, two rotations.  Deaths: up to three.
CONSTANTS
  Viewers    = {v1, v2, v3}
  PiecesOf <- MCPiecesOf
  all  = all
  phone = phone
  MaxCrashes = 1
  Jobs   = {j1, j2}
  Titles = {t1, t2}
  t1 = t1
  t2 = t2
  Begins <- MCBegins
  s1 = s1
  s2 = s2
  s3 = s3
  s4 = s4
  artist = artist
  liker  = liker
  balao  = balao
  Songs = {s1, s2, s3, s4}
  Tags  = {artist, liker, balao}
  TagsOf <- MCTagsOf
  Balao = {balao}
  Packs      = {k1, k2}
  ServerMods = {create}
  ClientMods = {sodium}
  MaxRelease = 2
  Contains <- MCContains
  MaxJars = 2
  Visits  = {w1, w2}
  Players = {p}
  MaxLines   = 2
  MaxRotated = 2
  Names    = {n1, n2}
  Messages = {m1, m2}
  YearOf <- MCYearOf
  MaxDeaths = 3
SPECIFICATION ServicesSpec
INVARIANTS
  ThumbWholeAtRest
  PartialOnlyIfDisturbed
  PageExplainsSongs
  PackFitsServer
  LogsCountedOnce
  DeathsAddUp
  AddSongCleansUp
PROPERTIES
  RemovedAreUploaded
\* Requests, songs, rotations and deaths come to an end.
CHECK_DEADLOCK FALSE
