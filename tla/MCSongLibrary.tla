--------------------------- MODULE MCSongLibrary ---------------------------
(* An instance of SongLibrary with two uploads, three ids and a song from   *)
(* before the table.                                                        *)
EXTENDS SongLibrary

MCIds == 1..3
MCExts == {"mka", "mp3"}
MCOldFiles == {<<1, "mka">>}
MCOldOthers == {1}
=============================================================================
