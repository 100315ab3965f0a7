--------------------------- MODULE MCPlaylistSync ---------------------------
(* An instance of PlaylistSync with two devices, two songs and three        *)
(* Navidrome ids, one of which is of a song that was dropped.               *)
EXTENDS PlaylistSync

CONSTANTS s1, s2, n1, n2, n3

MCInitialLocal == {{s1, s2}}
MCInitialLists == {<<>>, <<<<n1, n2, n3>>>>, <<<<n2, n1, n2>>>>}
MCInitialNav == {(s1 :> n3) @@ (s2 :> NoId)}
=============================================================================
