---------------------------- MODULE PlaylistPage ----------------------------
(***************************************************************************)
(* The playlist page (planar-bridge/src/playlist/mod.rs).  The server      *)
(* keeps no visit: the filter travels in the page as a blob, each category *)
(* links to the page with itself toggled, and the songs come from a        *)
(* playlist that is cached for an hour.                                    *)
(*                                                                         *)
(* A tag is a category in one of the five fields (artists, genres, ...);   *)
(* those of liked_by are the liked_by and the recommended_by of a song.    *)
(* One visitor is modelled, and songs that are uploaded and deleted.  The  *)
(* order of the songs and of the categories is left out.                   *)
(***************************************************************************)
EXTENDS FiniteSets, Naturals

CONSTANTS
  Songs,
  Tags,
  TagsOf,     \* what mlib parses a song's categories into
  Balao       \* the tags that are never listed: "balao" as liked_by

ASSUME PageAssumption ==
  IsFiniteSet(Songs) /\ TagsOf \in [Songs -> SUBSET Tags] /\ Balao \subseteq Tags

VARIABLES
  stored,     \* songs in the playlist at the backend
  playlist,   \* the cached playlist
  page,       \* what the visitor sees
  lost        \* history: songs left the cached playlist during the visit

playlistVars == <<stored, playlist, page, lost>>

NotCached == [songs |-> {}, cached |-> FALSE]
NoPage    == [open |-> FALSE, filter |-> [disabled |-> {}, must_have |-> {}],
              green |-> {}, red |-> {}, listed |-> {}, songs |-> {}, of |-> {}]

PlaylistInit ==
  /\ stored   \in SUBSET Songs
  /\ playlist = NotCached
  /\ page     = NoPage
  /\ lost     = FALSE

-----------------------------------------------------------------------------
\* Faulty variants, for the properties to refute.

\* A category that turns red stays among the green ones.
ToggleKeepingMust(f, t) ==
  CASE t \in f.disabled  -> [f EXCEPT !.disabled = @ \ {t}]
    [] t \in f.must_have -> [f EXCEPT !.disabled = @ \cup {t}]
    [] OTHER             -> [f EXCEPT !.must_have = @ \cup {t}]

\* Neutral, green, red and neutral again.
Toggle(f, t) ==
  CASE t \in f.disabled  -> [f EXCEPT !.disabled = @ \ {t}]
    [] t \in f.must_have -> [disabled |-> f.disabled \cup {t}, must_have |-> f.must_have \ {t}]
    [] OTHER             -> [f EXCEPT !.must_have = @ \cup {t}]

\* include_song
IncludeSong(s, f) ==
  /\ TagsOf[s] \cap f.disabled = {}
  /\ f.must_have = {} \/ TagsOf[s] \cap f.must_have # {}

\* calculate_categories: rare ones are not listed.
Categories(songs) ==
  {t \in Tags \ Balao : Cardinality({s \in songs : t \in TagsOf[s]}) > 2}

\* playlist, with the filter as toggled; the mode of a category is its colour.
Render(f, songs) ==
  [open   |-> TRUE,
   filter |-> f,
   listed |-> Categories(songs),
   red    |-> Categories(songs) \cap f.disabled,
   green  |-> (Categories(songs) \cap f.must_have) \ f.disabled,
   songs  |-> {s \in songs : IncludeSong(s, f)},
   of     |-> songs]

\* load_playlist: what is cached, or else what the backend has.
LoadPlaylist == IF playlist.cached THEN playlist.songs ELSE stored

\* playlist: a blob is decoded, toggled, and answered with the page.
Playlist(f) ==
  /\ page'     = Render(f, LoadPlaylist)
  /\ playlist' = [songs |-> LoadPlaylist, cached |-> TRUE]
  /\ UNCHANGED stored

\* The address without a blob.
Open ==
  /\ Playlist(NoPage.filter)
  /\ lost' = FALSE

\* A category, or the button that shuffles (which toggles nothing).
Click ==
  /\ page.open
  /\ \/ Playlist(page.filter)
     \/ \E t \in page.listed : Playlist(Toggle(page.filter, t))
  /\ lost' = (lost \/ ~ page.of \subseteq LoadPlaylist)

\* An hour passes, or songs change at the backend.
Expire ==
  /\ playlist.cached
  /\ playlist' = NotCached
  /\ UNCHANGED <<stored, page, lost>>

Edit ==
  /\ \E s \in Songs : stored' \in {stored \cup {s}, stored \ {s}}
  /\ UNCHANGED <<playlist, page, lost>>

PlaylistNext == Open \/ Click \/ Expire \/ Edit

PlaylistSpec == PlaylistInit /\ [][PlaylistNext]_playlistVars

-----------------------------------------------------------------------------
\* The colours on the page explain its songs: none of a red category, and, when
\* a category is green, only songs of a green one.  A category that falls to two
\* songs is not listed any more but still filters, and no click can undo it; so
\* this holds until songs leave the playlist during the visit.
PageExplainsSongs ==
  (page.open /\ ~lost) =>
    page.songs = {s \in page.of :
                    /\ TagsOf[s] \cap page.red = {}
                    /\ page.green = {} \/ TagsOf[s] \cap page.green # {}}
=============================================================================
