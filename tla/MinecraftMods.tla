--------------------------- MODULE MinecraftMods ---------------------------
(***************************************************************************)
(* The mod pack of the Minecraft server (planar-bridge,                    *)
(* src/games/minecraft/mods.rs).  A pack has the mods whose jars are in    *)
(* the server's directory, in their versions, and recommended client mods  *)
(* in the latest one.  What Modrinth (external) answers for a slug is      *)
(* cached: for good if it is of the version asked for, or for 72 hours if  *)
(* it is the latest.  The cache is locked for each look-up and for each    *)
(* insertion, not across the request in between.                           *)
(*                                                                         *)
(* Releases of a mod are numbered in the order they were published; a      *)
(* version is asked for by a text that the release's number contains.      *)
(***************************************************************************)
EXTENDS FiniteSets, Naturals

CONSTANTS
  Packs,        \* requests for a pack
  ServerMods,   \* slugs of MANDATORY_MODS and SERVER_SUPPORTED_MODS
  ClientMods,   \* slugs of CLIENT_SIDE_MODS
  MaxRelease,   \* bound: releases of a mod
  Contains,     \* r :> texts of releases that the number of release r contains
  MaxJars       \* bound: jars in the directory

LATEST   == 0
Releases == 1 .. MaxRelease
Slugs    == ServerMods \cup ClientMods

ASSUME ModsAssumption ==
  /\ MaxRelease \in Nat \ {0}
  /\ ServerMods \cap ClientMods = {}
  /\ Contains \in [Releases -> SUBSET Releases]
  /\ \A r \in Releases : r \in Contains[r]

VARIABLES
  jars,        \* the server's directory: mods, as slug and version
  published,   \* how many releases of each slug Modrinth has
  mod_info,    \* MOD_INFO_CACHE
  pack         \* each request: its step, its mods, those being asked for, its files

modsVars == <<jars, published, mod_info, pack>>

NoProject == [version |-> LATEST, release |-> 0, young |-> FALSE]
NoPack    == [step |-> "new", mods |-> {}, asked |-> {}, files |-> {}]

ModsInit ==
  /\ jars      = {}
  /\ published = [s \in Slugs |-> 1]
  /\ mod_info  = [s \in Slugs |-> NoProject]
  /\ pack      = [p \in Packs |-> NoPack]

-----------------------------------------------------------------------------
\* Faulty variant, for the property to refute: any cached project of the slug.
UpToDateForSlug(project, version) == project # NoProject

\* up_to_date; a clock that was set back makes a latest project old.
UpToDate(project, version) ==
  /\ project # NoProject
  /\ IF project.version = LATEST THEN project.young ELSE project.version = version

\* The first version, newest first, for neoforge and with the text in its number.
Suitable(n, version) == {r \in 1 .. n : version = LATEST \/ version \in Contains[r]}

Newest(rs) == {r \in rs : \A q \in rs : q <= r}

-----------------------------------------------------------------------------
\* generate_mod_pack: the directory is read, and the client mods are added.
GenerateModPack(p) ==
  /\ pack[p].step = "new"
  /\ pack' = [pack EXCEPT ![p].step = "making",
                          ![p].mods = jars \cup (ClientMods \X {LATEST})]
  /\ UNCHANGED <<jars, published, mod_info>>

\* A mod is looked up in the cache, or asked for: published is kept as it is by
\* now, as Modrinth answers with this or with something newer.
LookUpMod(p, m) ==
  /\ pack[p].step = "making"
  /\ m \in pack[p].mods
  /\ \A a \in pack[p].asked : a.mod # m
  /\ \A f \in pack[p].files : f.mod # m
  /\ IF UpToDate(mod_info[m[1]], m[2])
     THEN pack' = [pack EXCEPT ![p].files =
                     @ \cup {[mod |-> m, release |-> mod_info[m[1]].release]}]
     ELSE pack' = [pack EXCEPT ![p].asked =
                     @ \cup {[mod |-> m, since |-> published[m[1]]]}]
  /\ UNCHANGED <<jars, published, mod_info>>

\* The answer: the project goes to the cache, whatever is there by now.
GetVersions(p, a) ==
  /\ pack[p].step = "making"
  /\ a \in pack[p].asked
  /\ \E n \in a.since .. published[a.mod[1]] :
       \E r \in Newest(Suitable(n, a.mod[2])) :
         /\ mod_info' = [mod_info EXCEPT ![a.mod[1]] =
                           [version |-> a.mod[2], release |-> r, young |-> TRUE]]
         /\ pack' = [pack EXCEPT ![p].asked = @ \ {a},
                                 ![p].files = @ \cup {[mod |-> a.mod, release |-> r]}]
  /\ UNCHANGED <<jars, published>>

\* Modrinth does not answer, or has no suitable version: there is no pack, and
\* the other requests are dropped.
GetVersionsFails(p) ==
  /\ pack[p].asked # {}
  /\ pack' = [pack EXCEPT ![p] = [NoPack EXCEPT !.step = "failed"]]
  /\ UNCHANGED <<jars, published, mod_info>>

ServePack(p) ==
  /\ pack[p].step = "making"
  /\ {f.mod : f \in pack[p].files} = pack[p].mods
  /\ pack' = [pack EXCEPT ![p].step = "served"]
  /\ UNCHANGED <<jars, published, mod_info>>

\* The environment: releases, jars that come and go, and 72 hours.
Publish(s) ==
  /\ published[s] < MaxRelease
  /\ published' = [published EXCEPT ![s] = @ + 1]
  /\ UNCHANGED <<jars, mod_info, pack>>

ChangeJars ==
  /\ \E s \in ServerMods : \E r \in 1 .. published[s] :
       jars' \in {jars \cup {<<s, r>>}, jars \ {<<s, r>>}}
  /\ Cardinality(jars') <= MaxJars
  /\ UNCHANGED <<published, mod_info, pack>>

Age(s) ==
  /\ mod_info[s].young
  /\ mod_info' = [mod_info EXCEPT ![s].young = FALSE]
  /\ UNCHANGED <<jars, published, pack>>

ModsNext ==
  \/ \E p \in Packs :
       \/ GenerateModPack(p) \/ GetVersionsFails(p) \/ ServePack(p)
       \/ \E m \in pack[p].mods : LookUpMod(p, m)
       \/ \E a \in pack[p].asked : GetVersions(p, a)
  \/ \E s \in Slugs : Publish(s) \/ Age(s)
  \/ ChangeJars

ModsSpec == ModsInit /\ [][ModsNext]_modsVars

-----------------------------------------------------------------------------
\* Whatever is upgraded and asked for meanwhile, a pack has, for each jar that
\* was in the directory, a release that contains the version of the jar.  (With a
\* later one whose number contains it too, as 1.10 does 1.1, it may be that one.)
PackFitsServer ==
  \A p \in Packs : pack[p].step = "served" =>
    \A f \in pack[p].files :
      f.mod[1] \in ServerMods => f.mod[2] \in Contains[f.release]
=============================================================================
