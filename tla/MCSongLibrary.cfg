SPECIFICATION Spec
CONSTANTS
  Uploads = {u1, u2}
  NavIds = {nav}
  Ids <- MCIds
  Exts <- MCExts
  OldFiles <- MCOldFiles
  OldOthers <- MCOldOthers
  MaxUpgrades = 1
INVARIANTS ReturnedSongsPlay PlaylistSongsComplete
PROPERTIES NeverOverwritten UploadsEnd
