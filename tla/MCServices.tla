----------------------------- MODULE MCServices -----------------------------
(***************************************************************************)
(* Instance for TLC of six parts that share no state: the wallpaper        *)
(* thumbnails of the server, spark's downloads of songs, and               *)
(* planar-bridge's playlist page and three Minecraft parts.  A behaviour   *)
(* is of one part, chosen at the start, and leaves the others in a first   *)
(* state.                                                                  *)
(***************************************************************************)
EXTENDS WallThumbs, SongDownload, PlaylistPage, MinecraftMods, MinecraftLogs,
        MinecraftDeaths, TLC

CONSTANTS all, phone,     \* source directories
          s1, s2, s3, s4,        \* songs
          artist, liker, balao,  \* tags
          t1, t2                 \* titles

VARIABLE part

\* The picture of one directory is longer than that of the other.
MCPiecesOf == (all :> 2) @@ (phone :> 1)

MCTagsOf ==
  (s1 :> {artist, balao}) @@ (s2 :> {artist, liker, balao}) @@
  (s3 :> {artist, liker, balao}) @@ (s4 :> {liker})

\* The number of release 2 contains the text of release 1, as 1.10 does 1.1.
MCContains == (1 :> {1}) @@ (2 :> {1, 2})

\* The stem of t2 begins with that of t1.
MCBegins == (t1 :> {t1, t2}) @@ (t2 :> {t2})

\* Two days of one year and two of the next.
MCYearOf == [d \in 1 .. 4 |-> (d + 1) \div 2]

servicesVars == <<thumbVars, downloadVars, playlistVars, modsVars, logVars, deathVars>>

ServicesInit ==
  /\ part \in {"thumbs", "download", "playlist", "mods", "logs", "deaths"}
  /\ ThumbInit /\ DownloadInit /\ PlaylistInit /\ ModsInit /\ LogsInit /\ DeathsInit
  \* One first state is enough of a part that does not move.
  /\ part # "thumbs" => supported /\ source = [v \in Viewers |-> phone]
  /\ part # "download" => own = {}
  /\ part # "playlist" => stored = Songs
  /\ part # "logs" => debug /\ whitelist = Players

ServicesNext ==
  /\ UNCHANGED part
  /\ \/ /\ part = "thumbs" /\ ThumbNext
        /\ UNCHANGED <<downloadVars, playlistVars, modsVars, logVars, deathVars>>
     \/ /\ part = "download" /\ DownloadNext
        /\ UNCHANGED <<thumbVars, playlistVars, modsVars, logVars, deathVars>>
     \/ /\ part = "playlist" /\ PlaylistNext
        /\ UNCHANGED <<thumbVars, downloadVars, modsVars, logVars, deathVars>>
     \/ /\ part = "mods" /\ ModsNext
        /\ UNCHANGED <<thumbVars, downloadVars, playlistVars, logVars, deathVars>>
     \/ /\ part = "logs" /\ LogsNext
        /\ UNCHANGED <<thumbVars, downloadVars, playlistVars, modsVars, deathVars>>
     \/ /\ part = "deaths" /\ DeathsNext
        /\ UNCHANGED <<thumbVars, downloadVars, playlistVars, modsVars, logVars>>

ServicesSpec == ServicesInit /\ [][ServicesNext]_<<part, servicesVars>>
=============================================================================
