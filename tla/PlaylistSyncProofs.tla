------------------------- MODULE PlaylistSyncProofs -------------------------
(***************************************************************************)
(* What is proved about PlaylistSync, for any number of devices, songs,    *)
(* tracks and remote playlists.                                            *)
(*                                                                         *)
(* Most of a command's steps concern one device only, so the invariant is  *)
(* a conjunction over the devices, and each step is looked at twice: what  *)
(* it does to the device that takes it, and what the others see of it      *)
(* (Aside).                                                                *)
(***************************************************************************)
EXTENDS PlaylistSync, SequenceTheorems, FiniteSetTheorems, WellFoundedInduction, TLAPS

(***************************************************************************)
(* Playlists.                                                              *)
(***************************************************************************)

\* Where SelectInSeq finds a track that is there.
LEMMA PositionOf ==
  ASSUME NEW tracks \in Seq(NavIds), NEW n \in Range(tracks)
  PROVE  /\ SelectInSeq(tracks, LAMBDA t : t = n) \in 1 .. Len(tracks)
         /\ tracks[SelectInSeq(tracks, LAMBDA t : t = n)] = n
<1> DEFINE I == {i \in 1 .. Len(tracks) : tracks[i] = n}
<1>1. SelectInSeq(tracks, LAMBDA t : t = n) = IF I # {} THEN Min(I) ELSE 0
  BY DEF SelectInSeq
<1>2. DOMAIN tracks = 1 .. Len(tracks) /\ Len(tracks) \in Nat
  OBVIOUS
<1>3. I # {} /\ I \in SUBSET Nat
  BY <1>2 DEF Range
<1> HIDE DEF I
<1>4. PICK m \in I : \A i \in I : ~(<<i, m>> \in OpToRel(<, Nat))
  BY <1>3, NatLessThanWellFounded, WFMin
<1>5. ASSUME NEW i \in I PROVE m <= i
  <2>1. <<i, m>> \notin {p \in Nat \X Nat : p[1] < p[2]}
    BY <1>4, Zenon DEF OpToRel
  <2> QED BY <1>3, <2>1
<1>6. Min(I) \in I
  BY <1>5 DEF Min
<1> QED BY <1>1, <1>3, <1>6 DEF I

\* Positions of a track; Count counts them.
At(tracks, n) == {i \in DOMAIN tracks : tracks[i] = n}

LEMMA CountType ==
  ASSUME NEW tracks \in Seq(NavIds), NEW n
  PROVE  /\ IsFiniteSet(At(tracks, n)) /\ Count(tracks, n) = Cardinality(At(tracks, n))
         /\ Count(tracks, n) \in Nat
         /\ n \in Range(tracks) <=> Count(tracks, n) # 0
<1>1. Len(tracks) \in Nat /\ DOMAIN tracks = 1 .. Len(tracks)
  OBVIOUS
<1>2. IsFiniteSet(1 .. Len(tracks))
  BY <1>1, FS_Interval
<1>3. IsFiniteSet(At(tracks, n))
  BY <1>1, <1>2, FS_Subset DEF At
<1>4. Count(tracks, n) = Cardinality(At(tracks, n))
  BY DEF Count, At
<1>5. Count(tracks, n) \in Nat
  BY <1>3, <1>4, FS_CardinalityType
<1>6. Count(tracks, n) = 0 <=> At(tracks, n) = {}
  BY <1>3, <1>4, FS_EmptySet
<1>7. n \in Range(tracks) <=> At(tracks, n) # {}
  BY DEF Range, At
<1> QED BY <1>3, <1>4, <1>5, <1>6, <1>7

\* A track more.
LEMMA CountAppend ==
  ASSUME NEW tracks \in Seq(NavIds), NEW track \in NavIds, NEW n
  PROVE  /\ Append(tracks, track) \in Seq(NavIds)
         /\ Count(Append(tracks, track), n) = IF n = track THEN Count(tracks, n) + 1 ELSE Count(tracks, n)
<1> DEFINE more == Append(tracks, track)
<1>1. /\ more \in Seq(NavIds) /\ Len(more) = Len(tracks) + 1 /\ more[Len(tracks) + 1] = track
      /\ \A i \in 1 .. Len(tracks) : more[i] = tracks[i]
  BY AppendProperties
<1>2. Len(tracks) \in Nat /\ DOMAIN tracks = 1 .. Len(tracks) /\ DOMAIN more = 1 .. Len(tracks) + 1
  BY <1>1
<1> HIDE DEF more
<1>3. \A i \in DOMAIN more : i \in DOMAIN tracks \/ i = Len(tracks) + 1
  BY <1>2
<1>4. DOMAIN tracks \subseteq DOMAIN more /\ Len(tracks) + 1 \in DOMAIN more /\ Len(tracks) + 1 \notin DOMAIN tracks
  BY <1>2
<1>5. CASE n = track
  <2>1. At(more, n) = At(tracks, n) \cup {Len(tracks) + 1}
    BY <1>1, <1>2, <1>3, <1>4, <1>5 DEF At
  <2>2. Len(tracks) + 1 \notin At(tracks, n)
    BY <1>4 DEF At
  <2>3. IsFiniteSet(At(tracks, n))
    BY CountType
  <2>4. Cardinality(At(more, n)) = Cardinality(At(tracks, n)) + 1
    BY <2>1, <2>2, <2>3, FS_AddElement
  <2> QED BY <1>1, <1>5, <2>4, CountType DEF more
<1>6. CASE n # track
  <2>1. At(more, n) = At(tracks, n)
    BY <1>1, <1>2, <1>3, <1>4, <1>6 DEF At
  <2>2. Count(more, n) = Count(tracks, n)
    BY <1>1, <2>1, CountType
  <2> QED BY <1>1, <1>6, <2>2 DEF more
<1> QED BY <1>5, <1>6

\* A track less.
LEMMA RemovedAt ==
  ASSUME NEW tracks \in Seq(NavIds), NEW i \in DOMAIN tracks
  PROVE  /\ RemoveAt(tracks, i) \in Seq(NavIds)
         /\ Len(RemoveAt(tracks, i)) = Len(tracks) - 1
         /\ \A j \in 1 .. Len(tracks) - 1 :
              RemoveAt(tracks, i)[j] = IF j < i THEN tracks[j] ELSE tracks[j + 1]
<1>1. Len(tracks) \in Nat /\ i \in Nat /\ 1 <= i /\ i <= Len(tracks)
  OBVIOUS
<1>2. \A j \in 1 .. Len(tracks) : tracks[j] \in NavIds
  BY ElementOfSeq
<1> DEFINE before == SubSeq(tracks, 1, i - 1)
           after  == SubSeq(tracks, i + 1, Len(tracks))
<1>3. /\ before \in Seq(NavIds) /\ Len(before) = i - 1
      /\ \A j \in 1 .. i - 1 : before[j] = tracks[j]
  <2>1. 1 \in Int /\ i - 1 \in Int /\ \A j \in 1 .. i - 1 : tracks[j] \in NavIds
    BY <1>1, <1>2
  <2>2. /\ before \in Seq(NavIds) /\ Len(before) = IF 1 <= i - 1 THEN i - 1 - 1 + 1 ELSE 0
        /\ \A j \in 1 .. i - 1 - 1 + 1 : before[j] = tracks[1 + j - 1]
    BY <2>1, SubSeqProperties
  <2> HIDE DEF before
  <2>3. Len(before) = i - 1
    BY <1>1, <2>2
  <2>4. \A j \in 1 .. i - 1 : before[j] = tracks[j]
    BY <1>1, <2>2
  <2> QED BY <2>2, <2>3, <2>4
<1>4. /\ after \in Seq(NavIds) /\ Len(after) = Len(tracks) - i
      /\ \A j \in 1 .. Len(tracks) - i : after[j] = tracks[i + j]
  <2>1. i + 1 \in Int /\ Len(tracks) \in Int /\ \A j \in i + 1 .. Len(tracks) : tracks[j] \in NavIds
    BY <1>1, <1>2
  <2>2. /\ after \in Seq(NavIds)
        /\ Len(after) = IF i + 1 <= Len(tracks) THEN Len(tracks) - (i + 1) + 1 ELSE 0
        /\ \A j \in 1 .. Len(tracks) - (i + 1) + 1 : after[j] = tracks[i + 1 + j - 1]
    BY <2>1, SubSeqProperties
  <2> HIDE DEF after
  <2>3. Len(after) = Len(tracks) - i
    BY <1>1, <2>2
  <2>4. \A j \in 1 .. Len(tracks) - i : i + 1 + j - 1 = i + j /\ j \in 1 .. Len(tracks) - (i + 1) + 1
    BY <1>1
  <2>5. \A j \in 1 .. Len(tracks) - i : after[j] = tracks[i + j]
    BY <2>2, <2>4
  <2> QED BY <2>2, <2>3, <2>5
<1> HIDE DEF before, after
<1>5. /\ before \o after \in Seq(NavIds) /\ Len(before \o after) = Len(before) + Len(after)
      /\ \A j \in 1 .. Len(before) + Len(after) :
            (before \o after)[j] = IF j <= Len(before) THEN before[j] ELSE after[j - Len(before)]
  BY <1>3, <1>4, ConcatProperties
<1>6. Len(before) + Len(after) = Len(tracks) - 1
  BY <1>1, <1>3, <1>4
<1>7. ASSUME NEW j \in 1 .. Len(tracks) - 1
      PROVE  (before \o after)[j] = IF j < i THEN tracks[j] ELSE tracks[j + 1]
  <2>1. j \in 1 .. Len(before) + Len(after)
    BY <1>6
  <2>2. CASE j < i
    <3>1. j <= Len(before) /\ j \in 1 .. i - 1
      BY <1>1, <1>3, <2>2
    <3> QED BY <1>3, <1>5, <2>1, <2>2, <3>1
  <2>3. CASE ~(j < i)
    <3>1. ~(j <= Len(before)) /\ j - Len(before) \in 1 .. Len(tracks) - i /\ i + (j - Len(before)) = j + 1
      BY <1>1, <1>3, <2>3
    <3>2. (before \o after)[j] = after[j - Len(before)]
      BY <1>5, <2>1, <3>1
    <3>3. after[j - Len(before)] = tracks[i + (j - Len(before))]
      BY <1>4, <3>1
    <3>4. (before \o after)[j] = tracks[j + 1]
      BY <3>1, <3>2, <3>3
    <3> QED BY <2>3, <3>4
  <2> QED BY <2>2, <2>3
<1>8. RemoveAt(tracks, i) = before \o after
  BY DEF RemoveAt, before, after
<1> QED BY <1>5, <1>6, <1>7, <1>8

LEMMA CountRemove ==
  ASSUME NEW tracks \in Seq(NavIds), NEW i \in DOMAIN tracks, NEW n
  PROVE  Count(RemoveAt(tracks, i), n)
           = IF n = tracks[i] THEN Count(tracks, n) - 1 ELSE Count(tracks, n)
<1>1. PICK less : less = RemoveAt(tracks, i)
  OBVIOUS
<1>2. /\ less \in Seq(NavIds) /\ Len(less) = Len(tracks) - 1
      /\ \A j \in 1 .. Len(tracks) - 1 : less[j] = IF j < i THEN tracks[j] ELSE tracks[j + 1]
  BY <1>1, RemovedAt
<1>3. /\ Len(tracks) \in Nat /\ i \in Nat /\ 1 <= i /\ i <= Len(tracks)
      /\ DOMAIN tracks = 1 .. Len(tracks) /\ DOMAIN less = 1 .. Len(tracks) - 1
  BY <1>2
<1> DEFINE rest == At(tracks, n) \ {i}
           f    == [j \in At(less, n) |-> IF j < i THEN j ELSE j + 1]
<1>4. ASSUME NEW j \in At(less, n)
      PROVE  /\ j \in Nat /\ j \in 1 .. Len(tracks) - 1 /\ f[j] = IF j < i THEN j ELSE j + 1
             /\ f[j] \in rest
  <2>1. j \in 1 .. Len(tracks) - 1 /\ less[j] = n
    BY <1>3 DEF At
  <2>2. CASE j < i
    <3>1. j \in 1 .. Len(tracks) /\ j # i /\ tracks[j] = n
      BY <1>2, <1>3, <2>1, <2>2
    <3> QED BY <1>3, <2>1, <2>2, <3>1 DEF At
  <2>3. CASE ~(j < i)
    <3>1. j + 1 \in 1 .. Len(tracks) /\ j + 1 # i
      BY <1>3, <2>1, <2>3
    <3>2. tracks[j + 1] = n
      BY <1>2, <2>1, <2>3
    <3> QED BY <1>3, <2>1, <2>3, <3>1, <3>2 DEF At
  <2> QED BY <2>2, <2>3
<1>5. ASSUME NEW k \in rest PROVE \E j \in At(less, n) : f[j] = k
  <2>1. k \in 1 .. Len(tracks) /\ k # i /\ tracks[k] = n
    BY <1>3 DEF At
  <2>2. CASE k < i
    <3>1. k \in 1 .. Len(tracks) - 1
      BY <1>3, <2>1, <2>2
    <3>2. less[k] = n
      BY <1>2, <2>1, <2>2, <3>1
    <3>3. k \in At(less, n)
      BY <1>3, <3>1, <3>2 DEF At
    <3> QED BY <1>4, <2>2, <3>3
  <2>3. CASE ~(k < i)
    <3>1. PICK j \in 1 .. Len(tracks) - 1 : j + 1 = k /\ ~(j < i)
      <4>1. k - 1 \in 1 .. Len(tracks) - 1 /\ (k - 1) + 1 = k /\ ~(k - 1 < i)
        BY <1>3, <2>1, <2>3
      <4> QED BY <4>1
    <3>2. less[j] = n
      BY <1>2, <2>1, <3>1
    <3>3. j \in At(less, n)
      BY <1>3, <3>2 DEF At
    <3> QED BY <1>4, <3>1, <3>3
  <2> QED BY <2>2, <2>3
<1>6. ASSUME NEW j \in At(less, n), NEW k \in At(less, n), f[j] = f[k] PROVE j = k
  <2>1. /\ j \in Nat /\ k \in Nat
        /\ f[j] = (IF j < i THEN j ELSE j + 1) /\ f[k] = (IF k < i THEN k ELSE k + 1)
    BY <1>4
  <2>2. (IF j < i THEN j ELSE j + 1) = (IF k < i THEN k ELSE k + 1)
    BY <1>6, <2>1, Zenon
  <2>3. j \in Nat /\ k \in Nat /\ i \in Nat
    BY <1>3, <2>1
  <2> QED BY <2>2, <2>3
<1>7. f \in Bijection(At(less, n), rest)
  <2>1. f \in [At(less, n) -> rest]
    <3>1. \A j \in At(less, n) : f[j] \in rest
      BY <1>4
    <3>2. f = [j \in At(less, n) |-> f[j]]
      OBVIOUS
    <3> HIDE DEF f, rest
    <3> QED BY <3>1, <3>2
  <2> HIDE DEF f, rest
  <2> QED BY <1>5, <1>6, <2>1 DEF Bijection, Injection, Surjection, IsInjective
<1> HIDE DEF f
<1>8. Cardinality(At(less, n)) = Cardinality(rest)
  <2>1. IsFiniteSet(At(less, n)) /\ ExistsBijection(At(less, n), rest)
    BY <1>2, <1>7, CountType DEF ExistsBijection
  <2> QED BY <2>1, FS_Bijection
<1>9. i \in At(tracks, n) <=> n = tracks[i]
  BY DEF At
<1>10. IsFiniteSet(At(tracks, n))
  BY CountType
<1>11. Cardinality(rest) = IF n = tracks[i] THEN Cardinality(At(tracks, n)) - 1
                                            ELSE Cardinality(At(tracks, n))
  BY <1>9, <1>10, FS_RemoveElement
<1>12. Count(less, n) = Cardinality(At(less, n)) /\ Count(tracks, n) = Cardinality(At(tracks, n))
  BY <1>2, CountType
<1> QED BY <1>1, <1>8, <1>11, <1>12

-----------------------------------------------------------------------------
(***************************************************************************)
(* The invariant.                                                          *)
(***************************************************************************)

Steps == Ended \cup {"playlists", "create", "patch", "append", "resolve", "tracks", "write", "remove"}

TypeOK ==
  /\ local \in [Devices -> SUBSET Songs]
  /\ nav   \in [Songs -> NavIds \cup {NoId}]
  /\ lists \in Seq(Seq(NavIds))
  /\ pc    \in [Devices -> Steps]
  /\ job   \in [Devices -> {"none", "sync", "upgrade"}]
  /\ navId \in [Devices -> NavIds \cup {NoId}]
  /\ unresolved \in [Devices -> SUBSET Songs]
  /\ wanted   \in [Devices -> SUBSET NavIds]
  /\ playlist \in [Devices -> Nat]
  /\ listed   \in [Devices -> Seq(NavIds)]
  /\ toAdd    \in [Devices -> SUBSET NavIds]
  /\ toRemove \in [Devices -> SUBSET NavIds]
  /\ victim   \in [Devices -> NavIds \cup {NoId}]
  /\ position \in [Devices -> Nat]
  /\ others   \in [Devices -> SUBSET {"edit", "create", "add", "remove"}]
  /\ moved    \in [Devices -> BOOLEAN]

\* The playlist that the device chose, as it is now.
Tracks(d) == lists[playlist[d]]

\* The step a command is at, and what it knows by then.
StepMatches(d) ==
  /\ pc[d] \in {"resolve", "tracks", "write", "remove", "synced"} => job[d] = "sync"
  /\ pc[d] \in {"patch", "append"} => job[d] = "upgrade"
  /\ pc[d] \in {"playlists", "create"} => job[d] \in {"sync", "upgrade"}
  /\ pc[d] \in {"patch", "append", "playlists", "create"} /\ job[d] = "upgrade" => navId[d] \in NavIds
  /\ pc[d] \in {"append", "tracks", "write", "remove", "synced"} => playlist[d] \in DOMAIN lists

\* As long as nobody edits, the ids found are those of the songs resolved.
WantedSoFar(d) ==
  job[d] = "sync" /\ "edit" \notin others[d] =>
    /\ pc[d] = "resolve" =>
         /\ unresolved[d] \subseteq local[d]
         /\ wanted[d] = {nav[s] : s \in local[d] \ unresolved[d]} \ {NoId}
    /\ pc[d] \in {"playlists", "create", "tracks", "write", "remove"} => wanted[d] = Wanted(d)
    /\ pc[d] \in {"write", "remove"} => toRemove[d] \cap Wanted(d) = {}

\* The track to remove is at its position, as long as nobody removed one.
VictimThere(d) ==
  pc[d] = "remove" =>
    /\ victim[d] \in toRemove[d] /\ toAdd[d] = {}
    /\ ~moved[d] => position[d] \in DOMAIN Tracks(d) /\ Tracks(d)[position[d]] = victim[d]

\* What an undisturbed synchronisation has changed in the playlist so far.
Halfway(d) ==
  pc[d] \in {"write", "remove", "synced"} /\ others[d] = {} =>
    /\ pc[d] = "synced" => toAdd[d] = {} /\ toRemove[d] = {}
    /\ pc[d] = "remove" => ~moved[d]
    /\ toAdd[d] \subseteq Wanted(d) /\ toRemove[d] \cap Wanted(d) = {}
    /\ Wanted(d) \ toAdd[d] \subseteq Range(Tracks(d))
    /\ \A n \in NavIds \ Wanted(d) :
         /\ n \in toRemove[d] => Count(Tracks(d), n) = Count(listed[d], n)
         /\ n \notin toRemove[d] /\ n \in Range(Tracks(d)) =>
              Count(Tracks(d), n) = Count(listed[d], n) - 1

DeviceInv(d) == StepMatches(d) /\ WantedSoFar(d) /\ VictimThere(d) /\ Halfway(d)

IInv == TypeOK /\ \A d \in Devices : DeviceInv(d)

-----------------------------------------------------------------------------
(***************************************************************************)
(* A step seen from a device that does not take it.                        *)
(***************************************************************************)

Mine(e) == <<pc[e], job[e], navId[e], unresolved[e], wanted[e], playlist[e], listed[e],
             toAdd[e], toRemove[e], victim[e], position[e]>>

Aside(e) ==
  /\ Mine(e)' = Mine(e)
  /\ DOMAIN lists \subseteq DOMAIN lists'
  /\ others[e] \subseteq others'[e]
  /\ "edit" \notin others'[e] => nav' = nav /\ local'[e] = local[e]
  /\ others'[e] = {} => lists' = lists /\ moved'[e] = moved[e]
  /\ moved[e] => moved'[e]
  /\ playlist[e] \in DOMAIN lists /\ ~moved'[e] =>
       \A i \in DOMAIN Tracks(e) : i \in DOMAIN lists'[playlist[e]] /\ lists'[playlist[e]][i] = Tracks(e)[i]

LEMMA AsideInv ==
  ASSUME NEW e \in Devices, DeviceInv(e), Aside(e)
  PROVE  DeviceInv(e)'
<1>1. /\ pc'[e] = pc[e] /\ job'[e] = job[e] /\ navId'[e] = navId[e] /\ unresolved'[e] = unresolved[e]
      /\ wanted'[e] = wanted[e] /\ playlist'[e] = playlist[e] /\ listed'[e] = listed[e]
      /\ toAdd'[e] = toAdd[e] /\ toRemove'[e] = toRemove[e] /\ victim'[e] = victim[e]
      /\ position'[e] = position[e]
  BY DEF Aside, Mine
<1>2. "edit" \notin others'[e] => "edit" \notin others[e] /\ Wanted(e)' = Wanted(e) /\ nav' = nav /\ local'[e] = local[e]
  BY DEF Aside, Wanted
<1>3. StepMatches(e)'
  BY <1>1 DEF DeviceInv, StepMatches, Aside
<1>4. WantedSoFar(e)'
  BY <1>1, <1>2 DEF DeviceInv, WantedSoFar
<1>5. VictimThere(e)'
  <2> SUFFICES ASSUME pc'[e] = "remove"
               PROVE  /\ victim'[e] \in toRemove'[e] /\ toAdd'[e] = {}
                      /\ ~moved'[e] => /\ position'[e] \in DOMAIN lists'[playlist'[e]]
                                       /\ lists'[playlist'[e]][position'[e]] = victim'[e]
    BY DEF VictimThere, Tracks
  <2>1. victim[e] \in toRemove[e] /\ toAdd[e] = {} /\ playlist[e] \in DOMAIN lists
    BY <1>1 DEF DeviceInv, VictimThere, StepMatches
  <2>2. ASSUME ~moved'[e]
        PROVE  /\ position[e] \in DOMAIN lists'[playlist[e]]
               /\ lists'[playlist[e]][position[e]] = victim[e]
    <3>1. position[e] \in DOMAIN Tracks(e) /\ Tracks(e)[position[e]] = victim[e]
      BY <1>1, <2>2 DEF DeviceInv, VictimThere, Aside
    <3> QED BY <2>1, <2>2, <3>1 DEF Aside
  <2> QED BY <1>1, <2>1, <2>2
<1>6. Halfway(e)'
  <2>1. CASE others'[e] = {}
    <3>1. others[e] = {} /\ lists' = lists /\ moved'[e] = moved[e] /\ Wanted(e)' = Wanted(e)
      BY <1>2, <2>1 DEF Aside
    <3>2. Tracks(e)' = Tracks(e)
      BY <1>1, <3>1 DEF Tracks
    <3> QED BY <1>1, <3>1, <3>2 DEF DeviceInv, Halfway
  <2>2. CASE others'[e] # {}
    BY <2>2 DEF Halfway
  <2> QED BY <2>1, <2>2
<1> QED BY <1>3, <1>4, <1>5, <1>6 DEF DeviceInv

\* Nothing of the playlists changes for the others.
LEMMA AsideSameLists ==
  ASSUME TypeOK, NEW e \in Devices, Mine(e)' = Mine(e), lists' = lists, moved'[e] = moved[e],
         others[e] \subseteq others'[e],
         "edit" \notin others'[e] => nav' = nav /\ local'[e] = local[e]
  PROVE  Aside(e)
BY DEF Aside, Tracks

\* A track is appended to a playlist.
LEMMA ListsAppend ==
  ASSUME lists \in Seq(Seq(NavIds)), NEW k \in DOMAIN lists, NEW n \in NavIds,
         lists' = [lists EXCEPT ![k] = Append(@, n)]
  PROVE  /\ lists' \in Seq(Seq(NavIds)) /\ DOMAIN lists' = DOMAIN lists
         /\ lists[k] \in Seq(NavIds) /\ lists'[k] = Append(lists[k], n)
         /\ \A j \in DOMAIN lists \ {k} : lists'[j] = lists[j]
         /\ \A j \in DOMAIN lists : \A i \in DOMAIN lists[j] :
              i \in DOMAIN lists'[j] /\ lists'[j][i] = lists[j][i]
<1>1. k \in 1 .. Len(lists) /\ Len(lists) \in Nat /\ DOMAIN lists = 1 .. Len(lists)
  OBVIOUS
<1>2. lists[k] \in Seq(NavIds)
  BY <1>1, ElementOfSeq
<1>3. /\ Append(lists[k], n) \in Seq(NavIds) /\ Len(Append(lists[k], n)) = Len(lists[k]) + 1
      /\ \A i \in 1 .. Len(lists[k]) : Append(lists[k], n)[i] = lists[k][i]
  BY <1>2, AppendProperties
<1>4. PICK tracks \in Seq(NavIds) : tracks = Append(lists[k], n)
  BY <1>3
<1>5. lists' = [lists EXCEPT ![k] = tracks]
  BY <1>4
<1>6. [lists EXCEPT ![k] = tracks] \in Seq(Seq(NavIds))
  BY <1>1, <1>4, ExceptSeq
<1>7. DOMAIN lists' = DOMAIN lists /\ lists'[k] = tracks /\ \A j \in DOMAIN lists \ {k} : lists'[j] = lists[j]
  BY <1>5
<1>8. \A i \in DOMAIN lists[k] : i \in DOMAIN tracks /\ tracks[i] = lists[k][i]
  <2>1. DOMAIN lists[k] = 1 .. Len(lists[k]) /\ DOMAIN tracks = 1 .. Len(lists[k]) + 1 /\ Len(lists[k]) \in Nat
    BY <1>2, <1>3, <1>4
  <2> QED BY <1>3, <1>4, <2>1
<1> QED BY <1>2, <1>4, <1>5, <1>6, <1>7, <1>8

LEMMA AsideAppend ==
  ASSUME TypeOK, NEW e \in Devices, Mine(e)' = Mine(e), UNCHANGED <<nav, local, moved>>,
         NEW k \in DOMAIN lists, NEW n \in NavIds, lists' = [lists EXCEPT ![k] = Append(@, n)],
         others[e] \subseteq others'[e], others'[e] # {}
  PROVE  Aside(e)
<1>1. lists \in Seq(Seq(NavIds))
  BY DEF TypeOK
<1>2. /\ DOMAIN lists' = DOMAIN lists
      /\ \A j \in DOMAIN lists : \A i \in DOMAIN lists[j] :
           i \in DOMAIN lists'[j] /\ lists'[j][i] = lists[j][i]
  BY <1>1, ListsAppend
<1> QED BY <1>2 DEF Aside, Tracks

-----------------------------------------------------------------------------
(***************************************************************************)
(* The invariant is inductive.                                             *)
(***************************************************************************)

\* A step keeps the invariant if its device does, and it leaves the others aside.
LEMMA StepInv ==
  ASSUME IInv, TypeOK', NEW d \in Devices, DeviceInv(d)', \A e \in Devices \ {d} : Aside(e)
  PROVE  IInv'
<1>1. ASSUME NEW e \in Devices \ {d} PROVE DeviceInv(e)'
  BY <1>1, AsideInv DEF IInv
<1>2. \A e \in Devices : DeviceInv(e)'
  BY <1>1
<1> QED BY <1>2 DEF IInv

LEMMA InitIInv == Init => IInv
<1> SUFFICES ASSUME Init PROVE IInv
  OBVIOUS
<1>1. TypeOK
  BY SyncAssumption DEF Init, TypeOK, Steps, Ended
<1>2. ASSUME NEW d \in Devices PROVE DeviceInv(d)
  <2>1. pc[d] = "idle" /\ job[d] = "none"
    BY DEF Init
  <2> QED BY <2>1 DEF DeviceInv, StepMatches, WantedSoFar, VictimThere, Halfway
<1> QED BY <1>1, <1>2 DEF IInv

LEMMA StutterInv == ASSUME IInv, UNCHANGED vars PROVE IInv'
<1>1. TypeOK'
  BY DEF IInv, TypeOK, vars, argVars, syncVars, removeVars
<1>2. ASSUME NEW e \in Devices PROVE Aside(e)
  BY AsideSameLists DEF IInv, vars, argVars, syncVars, removeVars, Mine
<1>3. ASSUME NEW e \in Devices PROVE DeviceInv(e)'
  BY <1>2, AsideInv DEF IInv
<1> QED BY <1>1, <1>3 DEF IInv

LEMMA EditInv == ASSUME IInv, NEW d \in Devices, Edit(d) PROVE IInv'
<1>1. UNCHANGED <<nav, lists, pc, job, song, navId, playlist, unresolved, wanted, listed, toAdd,
                  toRemove, victim, position, moved>>
  BY DEF Edit, argVars, syncVars, removeVars
<1>2. PICK s \in Songs :
        /\ local' = [local EXCEPT ![d] = IF s \in local[d] THEN local[d] \ {s} ELSE local[d] \cup {s}]
        /\ others' = [others EXCEPT ![d] = others[d] \cup {"edit"}]
  BY DEF Edit
<1>3. TypeOK'
  <2>1. local' \in [Devices -> SUBSET Songs] /\ others' \in [Devices -> SUBSET {"edit", "create", "add", "remove"}]
    BY <1>2 DEF IInv, TypeOK
  <2> QED BY <1>1, <2>1 DEF IInv, TypeOK
<1>4. ASSUME NEW e \in Devices PROVE Aside(e)
  <2>1. Mine(e)' = Mine(e)
    BY <1>1 DEF Mine
  <2>2. others[e] \subseteq others'[e] /\ ("edit" \notin others'[e] => local'[e] = local[e])
    BY <1>2 DEF IInv, TypeOK
  <2> QED BY <1>1, <2>1, <2>2, AsideSameLists DEF IInv
<1>5. DeviceInv(d)'
  BY <1>4, AsideInv DEF IInv
<1> QED BY <1>3, <1>4, <1>5, StepInv

LEMMA FindPlaylistInv == ASSUME IInv, NEW d \in Devices, FindPlaylist(d) PROVE IInv'
<1>1. /\ UNCHANGED <<local, nav, lists, job, song, navId, unresolved, wanted, listed, toAdd,
                     toRemove, victim, position, others, moved>>
      /\ pc[d] = "playlists"
  BY DEF FindPlaylist, argVars, syncVars, removeVars
<1>2. /\ job[d] \in {"sync", "upgrade"} /\ (job[d] = "upgrade" => navId[d] \in NavIds)
      /\ job[d] = "sync" /\ "edit" \notin others[d] => wanted[d] = Wanted(d)
  BY <1>1 DEF IInv, DeviceInv, StepMatches, WantedSoFar
<1>3. PICK k \in Nat, step \in {"tracks", "append", "create"} :
        /\ pc' = [pc EXCEPT ![d] = step] /\ playlist' = [playlist EXCEPT ![d] = k]
        /\ step # "create" => /\ k \in DOMAIN lists
                              /\ step = IF job[d] = "sync" THEN "tracks" ELSE "append"
  <2>1. lists \in Seq(Seq(NavIds)) /\ playlist \in [Devices -> Nat]
    BY DEF IInv, TypeOK
  <2>2. CASE lists = <<>> /\ Goto(d, "create") /\ UNCHANGED playlist
    <3>1. playlist' = [playlist EXCEPT ![d] = playlist[d]] /\ playlist[d] \in Nat
      BY <2>1, <2>2
    <3> QED BY <2>2, <3>1 DEF Goto
  <2>3. ASSUME NEW k \in DOMAIN lists, playlist' = [playlist EXCEPT ![d] = k], Goto(d, AfterPlaylist(d))
        PROVE  k \in Nat /\ pc' = [pc EXCEPT ![d] = AfterPlaylist(d)] /\ AfterPlaylist(d) \in {"tracks", "append"}
    BY <2>1, <2>3 DEF Goto, AfterPlaylist
  <2> QED BY <2>2, <2>3 DEF FindPlaylist, AfterPlaylist
<1>4. TypeOK'
  <2>1. pc' \in [Devices -> Steps] /\ playlist' \in [Devices -> Nat]
    BY <1>3 DEF IInv, TypeOK, Steps
  <2> QED BY <1>1, <2>1 DEF IInv, TypeOK
<1>5. ASSUME NEW e \in Devices \ {d} PROVE Aside(e)
  <2>1. Mine(e)' = Mine(e)
    BY <1>1, <1>3 DEF Mine, IInv, TypeOK
  <2> QED BY <1>1, <2>1, AsideSameLists DEF IInv
<1>6. DeviceInv(d)'
  <2>1. pc'[d] = step /\ playlist'[d] = k
    BY <1>3 DEF IInv, TypeOK
  <2>2. Wanted(d)' = Wanted(d)
    BY <1>1 DEF Wanted
  <2>3. StepMatches(d)'
    BY <1>1, <1>2, <1>3, <2>1 DEF StepMatches
  <2>4. WantedSoFar(d)'
    BY <1>1, <1>2, <1>3, <2>1, <2>2 DEF WantedSoFar
  <2> QED BY <1>3, <2>1, <2>3, <2>4 DEF DeviceInv, VictimThere, Halfway
<1> QED BY <1>4, <1>5, <1>6, StepInv

LEMMA CreatePlaylistInv == ASSUME IInv, NEW d \in Devices, CreatePlaylist(d) PROVE IInv'
<1> DEFINE k == Len(lists) + 1
           step == AfterPlaylist(d)
<1>1. /\ UNCHANGED <<local, nav, job, song, navId, unresolved, wanted, listed, toAdd,
                     toRemove, victim, position, moved>>
      /\ pc[d] = "create" /\ lists' = Append(lists, <<>>) /\ playlist' = [playlist EXCEPT ![d] = k]
      /\ pc' = [pc EXCEPT ![d] = step]
      /\ others' = [e \in Devices |-> IF e = d THEN others[e] ELSE others[e] \cup {"create"}]
  BY DEF CreatePlaylist, argVars, syncVars, removeVars, Goto, TellOthers
<1>2. /\ job[d] \in {"sync", "upgrade"} /\ (job[d] = "upgrade" => navId[d] \in NavIds)
      /\ job[d] = "sync" /\ "edit" \notin others[d] => wanted[d] = Wanted(d)
  BY <1>1 DEF IInv, DeviceInv, StepMatches, WantedSoFar
<1>3. /\ lists' \in Seq(Seq(NavIds)) /\ k \in Nat /\ k \in DOMAIN lists' /\ DOMAIN lists \subseteq DOMAIN lists'
      /\ \A j \in DOMAIN lists : lists'[j] = lists[j]
  <2>1. lists \in Seq(Seq(NavIds)) /\ <<>> \in Seq(NavIds)
    BY DEF IInv, TypeOK
  <2>2. /\ lists' \in Seq(Seq(NavIds)) /\ Len(lists') = k
        /\ \A j \in 1 .. Len(lists) : lists'[j] = lists[j]
    BY <1>1, <2>1, AppendProperties
  <2>3. Len(lists) \in Nat /\ DOMAIN lists = 1 .. Len(lists)
    BY <2>1
  <2>4. DOMAIN lists' = 1 .. Len(lists) + 1
    BY <2>2
  <2> HIDE DEF k
  <2>5. k \in Nat /\ k \in 1 .. Len(lists) + 1
    BY <2>3 DEF k
  <2>6. 1 .. Len(lists) \subseteq 1 .. Len(lists) + 1
    BY <2>3
  <2> QED BY <2>2, <2>3, <2>4, <2>5, <2>6
<1>4. step = IF job[d] = "sync" THEN "tracks" ELSE "append"
  BY DEF AfterPlaylist
<1> HIDE DEF step, k
<1>5. TypeOK'
  <2>1. pc' \in [Devices -> Steps] /\ playlist' \in [Devices -> Nat]
    BY <1>1, <1>3, <1>4 DEF IInv, TypeOK, Steps
  <2>2. others' \in [Devices -> SUBSET {"edit", "create", "add", "remove"}]
    BY <1>1 DEF IInv, TypeOK
  <2> QED BY <1>1, <1>3, <2>1, <2>2 DEF IInv, TypeOK
<1>6. ASSUME NEW e \in Devices \ {d} PROVE Aside(e)
  <2>1. Mine(e)' = Mine(e)
    BY <1>1 DEF Mine, IInv, TypeOK
  <2>2. others[e] \subseteq others'[e] /\ others'[e] # {}
    BY <1>1
  <2> QED BY <1>1, <1>3, <2>1, <2>2 DEF Aside, Tracks
<1>7. DeviceInv(d)'
  <2>1. pc'[d] = step /\ playlist'[d] = k /\ others'[d] = others[d]
    BY <1>1 DEF IInv, TypeOK
  <2>2. Wanted(d)' = Wanted(d)
    BY <1>1 DEF Wanted
  <2>3. StepMatches(d)'
    BY <1>1, <1>2, <1>3, <1>4, <2>1 DEF StepMatches
  <2>4. WantedSoFar(d)'
    BY <1>1, <1>2, <1>4, <2>1, <2>2 DEF WantedSoFar
  <2> QED BY <1>4, <2>1, <2>3, <2>4 DEF DeviceInv, VictimThere, Halfway
<1> QED BY <1>5, <1>6, <1>7, StepInv

LEMMA UpgradeStartInv ==
  ASSUME IInv, NEW d \in Devices, NEW s \in Songs, NEW n \in NavIds, NEW strict \in BOOLEAN,
         UpgradeStart(d, s, n, strict)
  PROVE  IInv'
<1>1. /\ UNCHANGED <<local, nav, lists, playlist, unresolved, wanted, listed, toAdd, toRemove,
                     victim, position, moved>>
      /\ job' = [job EXCEPT ![d] = "upgrade"] /\ pc' = [pc EXCEPT ![d] = "patch"]
      /\ navId' = [navId EXCEPT ![d] = n] /\ others' = [others EXCEPT ![d] = {}]
  BY DEF UpgradeStart, syncVars, removeVars, Goto
<1>2. TypeOK'
  <2>1. pc' \in [Devices -> Steps] /\ job' \in [Devices -> {"none", "sync", "upgrade"}]
    BY <1>1 DEF IInv, TypeOK, Steps
  <2>2. navId' \in [Devices -> NavIds \cup {NoId}]
    BY <1>1 DEF IInv, TypeOK
  <2>3. others' \in [Devices -> SUBSET {"edit", "create", "add", "remove"}]
    BY <1>1 DEF IInv, TypeOK
  <2> QED BY <1>1, <2>1, <2>2, <2>3 DEF IInv, TypeOK
<1>3. ASSUME NEW e \in Devices \ {d} PROVE Aside(e)
  <2>1. Mine(e)' = Mine(e) /\ others'[e] = others[e]
    BY <1>1 DEF Mine, IInv, TypeOK
  <2> QED BY <1>1, <2>1, AsideSameLists DEF IInv
<1>4. pc'[d] = "patch" /\ job'[d] = "upgrade" /\ navId'[d] = n
  BY <1>1 DEF IInv, TypeOK
<1>5. DeviceInv(d)'
  BY <1>4 DEF DeviceInv, StepMatches, WantedSoFar, VictimThere, Halfway
<1> QED BY <1>2, <1>3, <1>5, StepInv

LEMMA PatchInv == ASSUME IInv, NEW d \in Devices, Patch(d) PROVE IInv'
<1>1. /\ UNCHANGED <<local, lists, job, navId, playlist, unresolved, wanted, listed, toAdd,
                     toRemove, victim, position, moved>>
      /\ pc[d] = "patch" /\ pc' = [pc EXCEPT ![d] = "playlists"]
      /\ nav' = [nav EXCEPT ![song[d]] = navId[d]]
      /\ others' = [e \in Devices |-> IF e = d THEN others[e] ELSE others[e] \cup {"edit"}]
  BY DEF Patch, argVars, syncVars, removeVars, Goto, TellOthers
<1>2. job[d] = "upgrade" /\ navId[d] \in NavIds
  BY <1>1 DEF IInv, DeviceInv, StepMatches
<1>3. TypeOK'
  <2>1. pc' \in [Devices -> Steps] /\ nav' \in [Songs -> NavIds \cup {NoId}]
    BY <1>1, <1>2 DEF IInv, TypeOK, Steps
  <2>2. others' \in [Devices -> SUBSET {"edit", "create", "add", "remove"}]
    BY <1>1 DEF IInv, TypeOK
  <2> QED BY <1>1, <2>1, <2>2 DEF IInv, TypeOK
<1>4. ASSUME NEW e \in Devices \ {d} PROVE Aside(e)
  <2>1. Mine(e)' = Mine(e) /\ others[e] \subseteq others'[e] /\ "edit" \in others'[e]
    BY <1>1 DEF Mine, IInv, TypeOK
  <2> QED BY <1>1, <2>1, AsideSameLists DEF IInv
<1>5. pc'[d] = "playlists"
  BY <1>1 DEF IInv, TypeOK
<1>6. DeviceInv(d)'
  BY <1>1, <1>2, <1>5 DEF DeviceInv, StepMatches, WantedSoFar, VictimThere, Halfway
<1> QED BY <1>3, <1>4, <1>6, StepInv

LEMMA AppendUpgradedInv == ASSUME IInv, NEW d \in Devices, AppendUpgraded(d) PROVE IInv'
<1>1. /\ UNCHANGED <<local, nav, job, navId, playlist, unresolved, wanted, listed, toAdd,
                     toRemove, victim, position, moved>>
      /\ pc[d] = "append" /\ pc' = [pc EXCEPT ![d] = "upgraded"]
      /\ lists' = [lists EXCEPT ![playlist[d]] = Append(@, navId[d])]
      /\ others' = [e \in Devices |-> IF e = d THEN others[e] ELSE others[e] \cup {"add"}]
  BY DEF AppendUpgraded, argVars, syncVars, removeVars, Goto, TellOthers
<1>2. playlist[d] \in DOMAIN lists /\ navId[d] \in NavIds
  BY <1>1 DEF IInv, DeviceInv, StepMatches
<1>3. lists' \in Seq(Seq(NavIds))
  BY <1>1, <1>2, ListsAppend DEF IInv, TypeOK
<1>4. TypeOK'
  <2>1. pc' \in [Devices -> Steps]
    BY <1>1 DEF IInv, TypeOK, Steps, Ended
  <2>2. others' \in [Devices -> SUBSET {"edit", "create", "add", "remove"}]
    BY <1>1 DEF IInv, TypeOK
  <2> QED BY <1>1, <1>3, <2>1, <2>2 DEF IInv, TypeOK
<1>5. ASSUME NEW e \in Devices \ {d} PROVE Aside(e)
  <2>1. Mine(e)' = Mine(e) /\ others[e] \subseteq others'[e] /\ others'[e] # {}
    BY <1>1 DEF Mine, IInv, TypeOK
  <2> QED BY <1>1, <1>2, <2>1, AsideAppend DEF IInv
<1>6. pc'[d] = "upgraded"
  BY <1>1 DEF IInv, TypeOK
<1>7. DeviceInv(d)'
  BY <1>6 DEF DeviceInv, StepMatches, WantedSoFar, VictimThere, Halfway
<1> QED BY <1>4, <1>5, <1>7, StepInv

LEMMA SyncStartInv == ASSUME IInv, NEW d \in Devices, SyncStart(d) PROVE IInv'
<1> DEFINE step == AfterResolving(local[d])
<1>1. /\ UNCHANGED <<local, nav, lists, navId, playlist, listed, toAdd, toRemove, victim, position, moved>>
      /\ job' = [job EXCEPT ![d] = "sync"] /\ pc' = [pc EXCEPT ![d] = step]
      /\ unresolved' = [unresolved EXCEPT ![d] = local[d]] /\ wanted' = [wanted EXCEPT ![d] = {}]
      /\ others' = [others EXCEPT ![d] = {}]
  BY DEF SyncStart, argVars, removeVars, Goto
<1>2. step = IF local[d] = {} THEN "playlists" ELSE "resolve"
  BY DEF AfterResolving
<1> HIDE DEF step
<1>3. TypeOK'
  <2>1. pc' \in [Devices -> Steps] /\ job' \in [Devices -> {"none", "sync", "upgrade"}]
    BY <1>1, <1>2 DEF IInv, TypeOK, Steps
  <2>2. unresolved' \in [Devices -> SUBSET Songs] /\ wanted' \in [Devices -> SUBSET NavIds]
    BY <1>1 DEF IInv, TypeOK
  <2>3. others' \in [Devices -> SUBSET {"edit", "create", "add", "remove"}]
    BY <1>1 DEF IInv, TypeOK
  <2> QED BY <1>1, <2>1, <2>2, <2>3 DEF IInv, TypeOK
<1>4. ASSUME NEW e \in Devices \ {d} PROVE Aside(e)
  <2>1. Mine(e)' = Mine(e) /\ others'[e] = others[e]
    BY <1>1 DEF Mine, IInv, TypeOK
  <2> QED BY <1>1, <2>1, AsideSameLists DEF IInv
<1>5. pc'[d] = step /\ job'[d] = "sync" /\ unresolved'[d] = local[d] /\ wanted'[d] = {}
  BY <1>1 DEF IInv, TypeOK
<1>6. WantedSoFar(d)'
  <2>1. Wanted(d)' = {nav[s] : s \in local[d]} \ {NoId}
    BY <1>1 DEF Wanted
  <2> QED BY <1>1, <1>2, <1>5, <2>1 DEF WantedSoFar
<1>7. StepMatches(d)' /\ VictimThere(d)' /\ Halfway(d)'
  BY <1>2, <1>5 DEF StepMatches, VictimThere, Halfway
<1> QED BY <1>3, <1>4, <1>6, <1>7, StepInv DEF DeviceInv

LEMMA ResolveInv == ASSUME IInv, NEW d \in Devices, Resolve(d) PROVE IInv'
<1>1. PICK s \in unresolved[d] :
        /\ unresolved' = [unresolved EXCEPT ![d] = @ \ {s}]
        /\ wanted' = [wanted EXCEPT ![d] = @ \cup ({nav[s]} \ {NoId})]
        /\ pc' = [pc EXCEPT ![d] = AfterResolving(unresolved[d] \ {s})]
  BY DEF Resolve, Goto
<1>2. /\ UNCHANGED <<local, nav, lists, job, navId, playlist, listed, toAdd, toRemove, victim,
                     position, others, moved>>
      /\ pc[d] = "resolve"
  BY DEF Resolve, argVars, removeVars
<1>3. PICK left : left = unresolved[d] \ {s}
  OBVIOUS
<1>4. /\ pc'[d] = (IF left = {} THEN "playlists" ELSE "resolve") /\ unresolved'[d] = left
      /\ wanted'[d] = wanted[d] \cup ({nav[s]} \ {NoId})
  BY <1>1, <1>3 DEF IInv, TypeOK, AfterResolving
<1>5. TypeOK'
  <2>1. s \in Songs /\ nav[s] \in NavIds \cup {NoId}
    BY <1>1 DEF IInv, TypeOK
  <2>2. wanted' \in [Devices -> SUBSET NavIds] /\ unresolved' \in [Devices -> SUBSET Songs]
    BY <1>1, <2>1 DEF IInv, TypeOK
  <2>3. pc' \in [Devices -> Steps]
    BY <1>1 DEF IInv, TypeOK, Steps, AfterResolving
  <2> QED BY <1>2, <2>2, <2>3 DEF IInv, TypeOK
<1>6. ASSUME NEW e \in Devices \ {d} PROVE Aside(e)
  <2>1. Mine(e)' = Mine(e)
    BY <1>1, <1>2 DEF Mine, IInv, TypeOK
  <2> QED BY <1>2, <2>1, AsideSameLists DEF IInv
<1>7. job[d] = "sync"
  BY <1>2 DEF IInv, DeviceInv, StepMatches
<1>8. WantedSoFar(d)'
  <2> SUFFICES ASSUME "edit" \notin others[d]
               PROVE  /\ left \subseteq local[d]
                      /\ wanted'[d] = {nav[x] : x \in local[d] \ left} \ {NoId}
                      /\ left = {} => wanted'[d] = Wanted(d)'
    BY <1>2, <1>4 DEF WantedSoFar
  <2>1. /\ unresolved[d] \subseteq local[d]
        /\ wanted[d] = {nav[x] : x \in local[d] \ unresolved[d]} \ {NoId}
    BY <1>2, <1>7 DEF IInv, DeviceInv, WantedSoFar
  <2>2. local[d] \ left = (local[d] \ unresolved[d]) \cup {s}
    BY <1>3, <2>1
  <2>3. wanted'[d] = {nav[x] : x \in local[d] \ left} \ {NoId}
    BY <1>4, <2>1, <2>2
  <2>4. left = {} => local[d] \ left = local[d]
    OBVIOUS
  <2>5. Wanted(d)' = {nav[x] : x \in local[d]} \ {NoId}
    BY <1>2 DEF Wanted
  <2> QED BY <1>3, <2>1, <2>3, <2>4, <2>5
<1>9. StepMatches(d)' /\ VictimThere(d)' /\ Halfway(d)'
  BY <1>2, <1>4, <1>7 DEF StepMatches, VictimThere, Halfway
<1> QED BY <1>5, <1>6, <1>8, <1>9, StepInv DEF DeviceInv

LEMMA GetTracksInv == ASSUME IInv, NEW d \in Devices, GetTracks(d) PROVE IInv'
<1>1. /\ UNCHANGED <<local, nav, lists, job, navId, playlist, unresolved, wanted, victim,
                     position, others, moved>>
      /\ pc[d] = "tracks" /\ pc' = [pc EXCEPT ![d] = "write"]
      /\ listed'   = [listed EXCEPT ![d] = Tracks(d)]
      /\ toAdd'    = [toAdd EXCEPT ![d] = wanted[d] \ Range(Tracks(d))]
      /\ toRemove' = [toRemove EXCEPT ![d] = Range(Tracks(d)) \ wanted[d]]
  BY DEF GetTracks, argVars, removeVars, Goto, Tracks
<1>2. /\ job[d] = "sync" /\ playlist[d] \in DOMAIN lists
      /\ "edit" \notin others[d] => wanted[d] = Wanted(d)
  BY <1>1 DEF IInv, DeviceInv, StepMatches, WantedSoFar
<1>3. Tracks(d) \in Seq(NavIds) /\ Range(Tracks(d)) \subseteq NavIds
  <2>1. lists \in Seq(Seq(NavIds))
    BY DEF IInv, TypeOK
  <2>2. Tracks(d) \in Seq(NavIds)
    BY <1>2, <2>1, ElementOfSeq DEF Tracks
  <2> QED BY <2>2 DEF Range
<1>4. TypeOK'
  <2>1. pc' \in [Devices -> Steps]
    BY <1>1 DEF IInv, TypeOK, Steps
  <2>2. /\ listed' \in [Devices -> Seq(NavIds)] /\ toAdd' \in [Devices -> SUBSET NavIds]
        /\ toRemove' \in [Devices -> SUBSET NavIds]
    BY <1>1, <1>3 DEF IInv, TypeOK
  <2> QED BY <1>1, <2>1, <2>2 DEF IInv, TypeOK
<1>5. ASSUME NEW e \in Devices \ {d} PROVE Aside(e)
  <2>1. Mine(e)' = Mine(e)
    BY <1>1 DEF Mine, IInv, TypeOK
  <2> QED BY <1>1, <2>1, AsideSameLists DEF IInv
<1>6. /\ pc'[d] = "write" /\ listed'[d] = Tracks(d)
      /\ toAdd'[d] = wanted[d] \ Range(Tracks(d)) /\ toRemove'[d] = Range(Tracks(d)) \ wanted[d]
      /\ Tracks(d)' = Tracks(d) /\ Wanted(d)' = Wanted(d)
  BY <1>1 DEF IInv, TypeOK, Tracks, Wanted
<1>7. StepMatches(d)' /\ WantedSoFar(d)' /\ VictimThere(d)'
  BY <1>1, <1>2, <1>6 DEF StepMatches, WantedSoFar, VictimThere
<1>8. Halfway(d)'
  BY <1>1, <1>2, <1>6 DEF Halfway
<1> QED BY <1>4, <1>5, <1>7, <1>8, StepInv DEF DeviceInv

\* What is known of a device whose synchronisation writes.
LEMMA Writing ==
  ASSUME IInv, NEW d \in Devices, pc[d] \in {"write", "remove"}
  PROVE  /\ job[d] = "sync" /\ playlist[d] \in DOMAIN lists
         /\ Tracks(d) \in Seq(NavIds)
         /\ "edit" \notin others[d] => wanted[d] = Wanted(d) /\ toRemove[d] \cap Wanted(d) = {}
         /\ toAdd[d] \subseteq NavIds /\ toRemove[d] \subseteq NavIds
<1>1. job[d] = "sync" /\ playlist[d] \in DOMAIN lists
  BY DEF IInv, DeviceInv, StepMatches
<1>2. Tracks(d) \in Seq(NavIds)
  <2>1. lists \in Seq(Seq(NavIds))
    BY DEF IInv, TypeOK
  <2> QED BY <1>1, <2>1, ElementOfSeq DEF Tracks
<1>3. "edit" \notin others[d] => wanted[d] = Wanted(d) /\ toRemove[d] \cap Wanted(d) = {}
  BY <1>1 DEF IInv, DeviceInv, WantedSoFar
<1> QED BY <1>1, <1>2, <1>3 DEF IInv, TypeOK

LEMMA AddInv == ASSUME IInv, NEW d \in Devices, Add(d) PROVE IInv'
<1>1. PICK n \in toAdd[d] :
        /\ lists' = [lists EXCEPT ![playlist[d]] = Append(@, n)]
        /\ toAdd' = [toAdd EXCEPT ![d] = @ \ {n}]
  BY DEF Add
<1>2. /\ UNCHANGED <<local, nav, pc, job, navId, playlist, unresolved, wanted, listed, toRemove,
                     victim, position, moved>>
      /\ pc[d] = "write"
      /\ others' = [e \in Devices |-> IF e = d THEN others[e] ELSE others[e] \cup {"add"}]
  BY DEF Add, argVars, removeVars, TellOthers
<1>3. /\ job[d] = "sync" /\ playlist[d] \in DOMAIN lists /\ Tracks(d) \in Seq(NavIds) /\ n \in NavIds
      /\ "edit" \notin others[d] => wanted[d] = Wanted(d) /\ toRemove[d] \cap Wanted(d) = {}
  BY <1>1, <1>2, Writing
<1>4. /\ lists' \in Seq(Seq(NavIds)) /\ DOMAIN lists' = DOMAIN lists
      /\ lists'[playlist[d]] = Append(Tracks(d), n)
  BY <1>1, <1>3, ListsAppend DEF IInv, TypeOK, Tracks
<1>5. TypeOK'
  <2>1. toAdd' \in [Devices -> SUBSET NavIds] /\ others' \in [Devices -> SUBSET {"edit", "create", "add", "remove"}]
    BY <1>1, <1>2 DEF IInv, TypeOK
  <2> QED BY <1>2, <1>4, <2>1 DEF IInv, TypeOK
<1>6. ASSUME NEW e \in Devices \ {d} PROVE Aside(e)
  <2>1. Mine(e)' = Mine(e) /\ others[e] \subseteq others'[e] /\ others'[e] # {}
    BY <1>1, <1>2 DEF Mine, IInv, TypeOK
  <2> QED BY <1>1, <1>2, <1>3, <2>1, AsideAppend DEF IInv
<1>7. /\ toAdd'[d] = toAdd[d] \ {n} /\ others'[d] = others[d]
      /\ Wanted(d)' = Wanted(d) /\ Tracks(d)' = Append(Tracks(d), n)
  BY <1>1, <1>2, <1>4 DEF IInv, TypeOK, Wanted, Tracks
<1>8. StepMatches(d)' /\ WantedSoFar(d)' /\ VictimThere(d)'
  BY <1>2, <1>3, <1>4, <1>7 DEF StepMatches, WantedSoFar, VictimThere
<1>9. Halfway(d)'
  <2> SUFFICES ASSUME others[d] = {}
               PROVE  /\ toAdd[d] \ {n} \subseteq Wanted(d) /\ toRemove[d] \cap Wanted(d) = {}
                      /\ Wanted(d) \ (toAdd[d] \ {n}) \subseteq Range(Tracks(d)')
                      /\ \A m \in NavIds \ Wanted(d) :
                           /\ m \in toRemove[d] => Count(Tracks(d)', m) = Count(listed[d], m)
                           /\ m \notin toRemove[d] /\ m \in Range(Tracks(d)') =>
                                Count(Tracks(d)', m) = Count(listed[d], m) - 1
    BY <1>2, <1>7 DEF Halfway
  <2>1. /\ toAdd[d] \subseteq Wanted(d) /\ toRemove[d] \cap Wanted(d) = {}
        /\ Wanted(d) \ toAdd[d] \subseteq Range(Tracks(d))
        /\ \A m \in NavIds \ Wanted(d) :
             /\ m \in toRemove[d] => Count(Tracks(d), m) = Count(listed[d], m)
             /\ m \notin toRemove[d] /\ m \in Range(Tracks(d)) =>
                  Count(Tracks(d), m) = Count(listed[d], m) - 1
    BY <1>2 DEF IInv, DeviceInv, Halfway
  <2>2. PICK more : more = Tracks(d)'
    OBVIOUS
  <2>3. /\ more \in Seq(NavIds)
        /\ \A m : Count(more, m) = IF m = n THEN Count(Tracks(d), m) + 1 ELSE Count(Tracks(d), m)
    BY <1>3, <1>7, <2>2, CountAppend
  <2>4. \A m : /\ Count(Tracks(d), m) \in Nat
               /\ m \in Range(Tracks(d)) <=> Count(Tracks(d), m) # 0
               /\ m \in Range(more) <=> Count(more, m) # 0
    BY <1>3, <2>3, CountType
  <2>5. \A m : m \in Range(more) <=> m \in Range(Tracks(d)) \/ m = n
    BY <2>3, <2>4
  <2> QED BY <1>1, <2>1, <2>2, <2>3, <2>5
<1> QED BY <1>5, <1>6, <1>8, <1>9, StepInv DEF DeviceInv

LEMMA FindPositionInv == ASSUME IInv, NEW d \in Devices, FindPosition(d) PROVE IInv'
<1>1. /\ UNCHANGED <<local, nav, lists, job, navId, playlist, unresolved, wanted, listed, toAdd, others>>
      /\ pc[d] = "write" /\ toAdd[d] = {}
  BY DEF FindPosition, argVars
<1>2. /\ job[d] = "sync" /\ playlist[d] \in DOMAIN lists /\ Tracks(d) \in Seq(NavIds)
      /\ "edit" \notin others[d] => wanted[d] = Wanted(d) /\ toRemove[d] \cap Wanted(d) = {}
      /\ toRemove[d] \subseteq NavIds
  BY <1>1, Writing
<1>3. Wanted(d)' = Wanted(d) /\ Tracks(d)' = Tracks(d)
  BY <1>1 DEF Wanted, Tracks
<1>4. PICK n \in toRemove[d] :
        \/ /\ n \in Range(Tracks(d))
           /\ victim' = [victim EXCEPT ![d] = n]
           /\ position' = [position EXCEPT ![d] = SelectInSeq(Tracks(d), LAMBDA t : t = n)]
           /\ moved' = [moved EXCEPT ![d] = FALSE]
           /\ pc' = [pc EXCEPT ![d] = "remove"]
           /\ UNCHANGED toRemove
        \/ /\ n \notin Range(Tracks(d))
           /\ toRemove' = [toRemove EXCEPT ![d] = @ \ {n}]
           /\ UNCHANGED <<pc, victim, position, moved>>
  BY DEF FindPosition, removeVars, Goto, Tracks
<1>5. CASE /\ n \in Range(Tracks(d))
           /\ victim' = [victim EXCEPT ![d] = n]
           /\ position' = [position EXCEPT ![d] = SelectInSeq(Tracks(d), LAMBDA t : t = n)]
           /\ moved' = [moved EXCEPT ![d] = FALSE]
           /\ pc' = [pc EXCEPT ![d] = "remove"]
           /\ UNCHANGED toRemove
  <2>1. PICK i \in 1 .. Len(Tracks(d)) :
          i = SelectInSeq(Tracks(d), LAMBDA t : t = n) /\ Tracks(d)[i] = n
    BY <1>2, <1>5, PositionOf
  <2>2. i \in Nat /\ i \in DOMAIN Tracks(d)
    BY <1>2
  <2>3. TypeOK'
    <3>1. pc' \in [Devices -> Steps] /\ moved' \in [Devices -> BOOLEAN]
      BY <1>5 DEF IInv, TypeOK, Steps
    <3>2. victim' \in [Devices -> NavIds \cup {NoId}] /\ position' \in [Devices -> Nat]
      BY <1>2, <1>5, <2>1, <2>2 DEF IInv, TypeOK
    <3> QED BY <1>1, <1>5, <3>1, <3>2 DEF IInv, TypeOK
  <2>4. ASSUME NEW e \in Devices \ {d} PROVE Aside(e)
    <3>1. Mine(e)' = Mine(e) /\ moved'[e] = moved[e]
      BY <1>1, <1>5 DEF Mine, IInv, TypeOK
    <3> QED BY <1>1, <3>1, AsideSameLists DEF IInv
  <2>5. pc'[d] = "remove" /\ victim'[d] = n /\ position'[d] = i /\ moved'[d] = FALSE
    BY <1>5, <2>1 DEF IInv, TypeOK
  <2>6. StepMatches(d)' /\ WantedSoFar(d)' /\ VictimThere(d)'
    BY <1>1, <1>2, <1>3, <1>5, <2>1, <2>2, <2>5 DEF StepMatches, WantedSoFar, VictimThere
  <2>7. Halfway(d)'
    BY <1>1, <1>3, <1>5, <2>5 DEF IInv, DeviceInv, Halfway
  <2> QED BY <2>3, <2>4, <2>6, <2>7, StepInv DEF DeviceInv
<1>6. CASE /\ n \notin Range(Tracks(d))
           /\ toRemove' = [toRemove EXCEPT ![d] = @ \ {n}]
           /\ UNCHANGED <<pc, victim, position, moved>>
  <2>1. TypeOK'
    <3>1. toRemove' \in [Devices -> SUBSET NavIds]
      BY <1>6 DEF IInv, TypeOK
    <3> QED BY <1>1, <1>6, <3>1 DEF IInv, TypeOK
  <2>2. ASSUME NEW e \in Devices \ {d} PROVE Aside(e)
    <3>1. Mine(e)' = Mine(e)
      BY <1>1, <1>6 DEF Mine, IInv, TypeOK
    <3> QED BY <1>1, <1>6, <3>1, AsideSameLists DEF IInv
  <2>3. toRemove'[d] = toRemove[d] \ {n}
    BY <1>6 DEF IInv, TypeOK
  <2>4. StepMatches(d)' /\ WantedSoFar(d)' /\ VictimThere(d)'
    BY <1>1, <1>2, <1>3, <1>6, <2>3 DEF StepMatches, WantedSoFar, VictimThere
  <2>5. Halfway(d)'
    BY <1>1, <1>3, <1>6, <2>3 DEF IInv, DeviceInv, Halfway
  <2> QED BY <2>1, <2>2, <2>4, <2>5, StepInv DEF DeviceInv
<1> QED BY <1>4, <1>5, <1>6

\* What one removal does to the playlists.
LEMMA ListsRemove ==
  ASSUME lists \in Seq(Seq(NavIds)), NEW k \in DOMAIN lists, NEW i \in DOMAIN lists[k],
         lists' = [lists EXCEPT ![k] = RemoveAt(lists[k], i)]
  PROVE  /\ lists' \in Seq(Seq(NavIds)) /\ DOMAIN lists' = DOMAIN lists
         /\ lists[k] \in Seq(NavIds) /\ lists'[k] = RemoveAt(lists[k], i)
         /\ \A j \in DOMAIN lists \ {k} : lists'[j] = lists[j]
<1>1. k \in 1 .. Len(lists) /\ Len(lists) \in Nat /\ DOMAIN lists = 1 .. Len(lists)
  OBVIOUS
<1>2. lists[k] \in Seq(NavIds)
  BY <1>1, ElementOfSeq
<1>3. RemoveAt(lists[k], i) \in Seq(NavIds)
  BY <1>2, RemovedAt
<1>4. PICK tracks \in Seq(NavIds) : tracks = RemoveAt(lists[k], i)
  BY <1>3
<1>5. lists' = [lists EXCEPT ![k] = tracks]
  BY <1>4
<1>6. [lists EXCEPT ![k] = tracks] \in Seq(Seq(NavIds))
  BY <1>1, <1>4, ExceptSeq
<1>7. DOMAIN lists' = DOMAIN lists /\ lists'[k] = tracks /\ \A j \in DOMAIN lists \ {k} : lists'[j] = lists[j]
  BY <1>5
<1> QED BY <1>2, <1>4, <1>5, <1>6, <1>7

\* The two ways in which remove_from_playlist ends.
Removed(d) ==
  /\ position[d] \in DOMAIN Tracks(d)
  /\ lists' = [lists EXCEPT ![playlist[d]] = RemoveAt(Tracks(d), position[d])]
  /\ moved' = [e \in Devices |-> moved[e] \/ (e # d /\ playlist[e] = playlist[d])]
  /\ others' = [e \in Devices |-> IF e = d THEN others[e] ELSE others[e] \cup {"remove"}]

LEMMA RemoveSteps ==
  ASSUME NEW d \in Devices, RemoveFromPlaylist(d)
  PROVE  /\ UNCHANGED <<local, nav, job, navId, playlist, unresolved, wanted, listed, toAdd,
                        victim, position>>
         /\ pc[d] = "remove" /\ pc' = [pc EXCEPT ![d] = "write"]
         /\ toRemove' = [toRemove EXCEPT ![d] = @ \ {victim[d]}]
         /\ Removed(d) \/ (position[d] \notin DOMAIN Tracks(d) /\ UNCHANGED <<lists, moved, others>>)
<1>1. pc[d] = "remove" /\ Drop(d, position[d])
  BY DEF RemoveFromPlaylist
<1>2. /\ UNCHANGED <<local, nav, job, navId, playlist, unresolved, wanted, listed, toAdd,
                     victim, position>>
      /\ pc' = [pc EXCEPT ![d] = "write"]
      /\ toRemove' = [toRemove EXCEPT ![d] = @ \ {victim[d]}]
  BY <1>1 DEF Drop, argVars, removeVars, Goto
<1>3. Removed(d) \/ (position[d] \notin DOMAIN Tracks(d) /\ UNCHANGED <<lists, moved, others>>)
  <2>1. \/ /\ position[d] \in DOMAIN Tracks(d)
           /\ lists' = [lists EXCEPT ![playlist[d]] = RemoveAt(Tracks(d), position[d])]
           /\ moved' = [e \in Devices |-> moved[e] \/ (e # d /\ playlist[e] = playlist[d])]
           /\ TellOthers(d, "remove")
        \/ position[d] \notin DOMAIN Tracks(d) /\ UNCHANGED <<lists, moved, others>>
    BY <1>1 DEF Drop, Tracks
  <2> QED BY <2>1 DEF Removed, TellOthers
<1> QED BY <1>1, <1>2, <1>3

LEMMA RemoveInv == ASSUME IInv, NEW d \in Devices, RemoveFromPlaylist(d) PROVE IInv'
<1>1. /\ UNCHANGED <<local, nav, job, navId, playlist, unresolved, wanted, listed, toAdd,
                     victim, position>>
      /\ pc[d] = "remove" /\ pc' = [pc EXCEPT ![d] = "write"]
      /\ toRemove' = [toRemove EXCEPT ![d] = @ \ {victim[d]}]
      /\ Removed(d) \/ (position[d] \notin DOMAIN Tracks(d) /\ UNCHANGED <<lists, moved, others>>)
  BY RemoveSteps
<1>2. /\ job[d] = "sync" /\ playlist[d] \in DOMAIN lists /\ Tracks(d) \in Seq(NavIds)
      /\ "edit" \notin others[d] => wanted[d] = Wanted(d) /\ toRemove[d] \cap Wanted(d) = {}
  BY <1>1, Writing
<1>3. /\ victim[d] \in toRemove[d]
      /\ ~moved[d] => position[d] \in DOMAIN Tracks(d) /\ Tracks(d)[position[d]] = victim[d]
  BY <1>1 DEF IInv, DeviceInv, VictimThere
<1>4. /\ pc'[d] = "write" /\ toRemove'[d] = toRemove[d] \ {victim[d]} /\ Wanted(d)' = Wanted(d)
      /\ pc' \in [Devices -> Steps] /\ toRemove' \in [Devices -> SUBSET NavIds]
  BY <1>1 DEF IInv, TypeOK, Steps, Wanted
<1>5. others'[d] = others[d] => WantedSoFar(d)'
  BY <1>1, <1>2, <1>4 DEF WantedSoFar
<1>6. VictimThere(d)'
  BY <1>4 DEF VictimThere
<1>7. \A e \in Devices \ {d} : Mine(e)' = Mine(e)
  BY <1>1 DEF Mine, IInv, TypeOK
<1>8. CASE position[d] \notin DOMAIN Tracks(d) /\ UNCHANGED <<lists, moved, others>>
  <2>1. TypeOK'
    BY <1>1, <1>4, <1>8 DEF IInv, TypeOK
  <2>2. \A e \in Devices \ {d} : Aside(e)
    BY <1>1, <1>7, <1>8, AsideSameLists DEF IInv
  <2>3. moved[d]
    BY <1>3, <1>8
  <2>4. others[d] # {}
    BY <1>1, <2>3 DEF IInv, DeviceInv, Halfway
  <2>5. StepMatches(d)' /\ WantedSoFar(d)' /\ Halfway(d)'
    BY <1>1, <1>2, <1>4, <1>5, <1>8, <2>4 DEF StepMatches, Halfway
  <2> QED BY <1>6, <2>1, <2>2, <2>5, StepInv DEF DeviceInv
<1>9. CASE Removed(d)
  <2>1. PICK i \in DOMAIN Tracks(d) : i = position[d]
    BY <1>9 DEF Removed
  <2>2. /\ lists' = [lists EXCEPT ![playlist[d]] = RemoveAt(Tracks(d), i)]
        /\ moved' = [e \in Devices |-> moved[e] \/ (e # d /\ playlist[e] = playlist[d])]
        /\ others' = [e \in Devices |-> IF e = d THEN others[e] ELSE others[e] \cup {"remove"}]
    BY <1>9, <2>1 DEF Removed
  <2>3. /\ lists' \in Seq(Seq(NavIds)) /\ DOMAIN lists' = DOMAIN lists
        /\ lists'[playlist[d]] = RemoveAt(Tracks(d), i)
        /\ \A j \in DOMAIN lists \ {playlist[d]} : lists'[j] = lists[j]
    BY <1>2, <2>1, <2>2, ListsRemove DEF IInv, TypeOK, Tracks
  <2>4. TypeOK'
    <3>1. moved' \in [Devices -> BOOLEAN]
      BY <2>2 DEF IInv, TypeOK
    <3>2. others' \in [Devices -> SUBSET {"edit", "create", "add", "remove"}]
      BY <2>2 DEF IInv, TypeOK
    <3> QED BY <1>1, <1>4, <2>3, <3>1, <3>2 DEF IInv, TypeOK
  <2>5. ASSUME NEW e \in Devices \ {d} PROVE Aside(e)
    <3>1. others[e] \subseteq others'[e] /\ others'[e] # {} /\ (moved[e] => moved'[e])
      BY <2>2
    <3>2. ~moved'[e] => playlist[e] # playlist[d]
      BY <2>2
    <3> QED BY <1>1, <1>7, <2>3, <3>1, <3>2 DEF Aside, Tracks
  <2>6. others'[d] = others[d] /\ Tracks(d)' = RemoveAt(Tracks(d), i)
    BY <1>1, <2>2, <2>3 DEF Tracks
  <2>7. StepMatches(d)' /\ WantedSoFar(d)'
    BY <1>1, <1>2, <1>4, <1>5, <2>3, <2>6 DEF StepMatches
  <2>8. Halfway(d)'
    <3> SUFFICES ASSUME others[d] = {}
                 PROVE  /\ toAdd[d] \subseteq Wanted(d) /\ (toRemove[d] \ {victim[d]}) \cap Wanted(d) = {}
                        /\ Wanted(d) \ toAdd[d] \subseteq Range(Tracks(d)')
                        /\ \A m \in NavIds \ Wanted(d) :
                             /\ m \in toRemove[d] \ {victim[d]} => Count(Tracks(d)', m) = Count(listed[d], m)
                             /\ m \notin toRemove[d] \ {victim[d]} /\ m \in Range(Tracks(d)') =>
                                  Count(Tracks(d)', m) = Count(listed[d], m) - 1
      BY <1>1, <1>4, <2>6 DEF Halfway
    <3>1. /\ toAdd[d] \subseteq Wanted(d) /\ toRemove[d] \cap Wanted(d) = {} /\ ~moved[d]
          /\ Wanted(d) \ toAdd[d] \subseteq Range(Tracks(d))
          /\ \A m \in NavIds \ Wanted(d) :
               /\ m \in toRemove[d] => Count(Tracks(d), m) = Count(listed[d], m)
               /\ m \notin toRemove[d] /\ m \in Range(Tracks(d)) =>
                    Count(Tracks(d), m) = Count(listed[d], m) - 1
      BY <1>1 DEF IInv, DeviceInv, Halfway
    <3>2. Tracks(d)[i] = victim[d] /\ victim[d] \notin Wanted(d)
      BY <1>3, <2>1, <3>1
    <3>3. PICK less : less = Tracks(d)'
      OBVIOUS
    <3>4. /\ less \in Seq(NavIds)
          /\ \A m : Count(less, m) = IF m = victim[d] THEN Count(Tracks(d), m) - 1 ELSE Count(Tracks(d), m)
      BY <1>2, <2>6, <3>2, <3>3, RemovedAt, CountRemove
    <3>5. \A m : /\ Count(Tracks(d), m) \in Nat
                 /\ m \in Range(Tracks(d)) <=> Count(Tracks(d), m) # 0
                 /\ m \in Range(less) <=> Count(less, m) # 0
      BY <1>2, <3>4, CountType
    <3>6. \A m : m # victim[d] => (m \in Range(less) <=> m \in Range(Tracks(d)))
      BY <3>4, <3>5
    <3> QED BY <1>3, <3>1, <3>2, <3>3, <3>4, <3>6
  <2> QED BY <1>6, <2>4, <2>5, <2>7, <2>8, StepInv DEF DeviceInv
<1> QED BY <1>1, <1>8, <1>9

LEMMA FinishInv == ASSUME IInv, NEW d \in Devices, Finish(d) PROVE IInv'
<1>1. /\ UNCHANGED <<local, nav, lists, job, navId, playlist, unresolved, wanted, listed, toAdd,
                     toRemove, victim, position, others, moved>>
      /\ pc[d] = "write" /\ pc' = [pc EXCEPT ![d] = "synced"]
      /\ toAdd[d] = {} /\ toRemove[d] = {}
  BY DEF Finish, argVars, syncVars, removeVars, Goto
<1>2. TypeOK'
  <2>1. pc' \in [Devices -> Steps]
    BY <1>1 DEF IInv, TypeOK, Steps, Ended
  <2> QED BY <1>1, <2>1 DEF IInv, TypeOK
<1>3. ASSUME NEW e \in Devices \ {d} PROVE Aside(e)
  <2>1. Mine(e)' = Mine(e)
    BY <1>1 DEF Mine, IInv, TypeOK
  <2> QED BY <1>1, <2>1, AsideSameLists DEF IInv
<1>4. pc'[d] = "synced" /\ Wanted(d)' = Wanted(d) /\ Tracks(d)' = Tracks(d)
  BY <1>1 DEF IInv, TypeOK, Wanted, Tracks
<1>5. job[d] = "sync" /\ playlist[d] \in DOMAIN lists
  BY <1>1, Writing
<1>6. StepMatches(d)' /\ WantedSoFar(d)' /\ VictimThere(d)'
  BY <1>1, <1>4, <1>5 DEF StepMatches, WantedSoFar, VictimThere
<1>7. Halfway(d)'
  BY <1>1, <1>4 DEF IInv, DeviceInv, Halfway
<1> QED BY <1>2, <1>3, <1>6, <1>7, StepInv DEF DeviceInv

LEMMA FailInv == ASSUME IInv, NEW d \in Devices, Fail(d) PROVE IInv'
<1>1. /\ UNCHANGED <<local, nav, lists, job, navId, playlist, unresolved, wanted, listed, toAdd,
                     toRemove, victim, position, others, moved>>
      /\ pc' = [pc EXCEPT ![d] = "failed"]
  BY DEF Fail, argVars, syncVars, removeVars, Goto
<1>2. TypeOK'
  <2>1. pc' \in [Devices -> Steps]
    BY <1>1 DEF IInv, TypeOK, Steps, Ended
  <2> QED BY <1>1, <2>1 DEF IInv, TypeOK
<1>3. ASSUME NEW e \in Devices \ {d} PROVE Aside(e)
  <2>1. Mine(e)' = Mine(e)
    BY <1>1 DEF Mine, IInv, TypeOK
  <2> QED BY <1>1, <2>1, AsideSameLists DEF IInv
<1>4. pc'[d] = "failed"
  BY <1>1 DEF IInv, TypeOK
<1>5. DeviceInv(d)'
  BY <1>4 DEF DeviceInv, StepMatches, WantedSoFar, VictimThere, Halfway
<1> QED BY <1>2, <1>3, <1>5, StepInv

-----------------------------------------------------------------------------
(***************************************************************************)
(* The theorems.                                                           *)
(***************************************************************************)

LEMMA NextInv == ASSUME IInv, [Next]_vars PROVE IInv'
<1>1. ASSUME NEW d \in Devices, NEW s \in Songs, NEW n \in NavIds, NEW strict \in BOOLEAN,
             UpgradeStart(d, s, n, strict)
      PROVE  IInv'
  BY <1>1, UpgradeStartInv
<1>2. ASSUME NEW d \in Devices, Edit(d) \/ SyncStart(d) \/ Fail(d) PROVE IInv'
  BY <1>2, EditInv, SyncStartInv, FailInv
<1>3. ASSUME NEW d \in Devices, Step(d) PROVE IInv'
  BY <1>3, FindPlaylistInv, CreatePlaylistInv, PatchInv, AppendUpgradedInv, ResolveInv, GetTracksInv,
     AddInv, FindPositionInv, RemoveInv, FinishInv DEF Step
<1>4. CASE UNCHANGED vars
  BY <1>4, StutterInv
<1> QED BY <1>1, <1>2, <1>3, <1>4 DEF Next

\* At every step each device knows what it should by then: the ids of the songs it has
\* resolved, the place of the track it is about to remove, and what its synchronisation
\* has changed in the playlist so far, as long as nobody interferes.
THEOREM Invariant == Spec => []IInv
<1>1. Init => IInv
  BY InitIInv
<1>2. IInv /\ [Next]_vars => IInv'
  BY NextInv
<1> QED BY <1>1, <1>2, PTL DEF Spec

\* A synchronisation that nobody disturbed leaves the playlist with the songs of the
\* local one, and with no other but those that were in it more than once, for any
\* number of devices, songs, tracks and playlists called m.
THEOREM UndisturbedSettles == Spec => []UndisturbedSyncSettles
<1>1. ASSUME IInv PROVE UndisturbedSyncSettles
  <2> SUFFICES ASSUME NEW d \in Devices, pc[d] = "synced", others[d] = {}
               PROVE  /\ Wanted(d) \subseteq Range(Tracks(d))
                      /\ \A n \in Range(Tracks(d)) \ Wanted(d) :
                           Count(listed[d], n) > 1 /\ Count(Tracks(d), n) = Count(listed[d], n) - 1
    BY DEF UndisturbedSyncSettles, Tracks
  <2>1. /\ toAdd[d] = {} /\ toRemove[d] = {}
        /\ Wanted(d) \ toAdd[d] \subseteq Range(Tracks(d))
        /\ \A n \in NavIds \ Wanted(d) :
             n \notin toRemove[d] /\ n \in Range(Tracks(d)) =>
                  Count(Tracks(d), n) = Count(listed[d], n) - 1
    BY <1>1 DEF IInv, DeviceInv, Halfway
  <2>2. Tracks(d) \in Seq(NavIds) /\ listed[d] \in Seq(NavIds)
    <3>1. playlist[d] \in DOMAIN lists
      BY <1>1 DEF IInv, DeviceInv, StepMatches
    <3>2. lists \in Seq(Seq(NavIds)) /\ listed[d] \in Seq(NavIds)
      BY <1>1 DEF IInv, TypeOK
    <3> QED BY <3>1, <3>2, ElementOfSeq DEF Tracks
  <2>3. ASSUME NEW n \in Range(Tracks(d)) \ Wanted(d)
        PROVE  Count(listed[d], n) > 1 /\ Count(Tracks(d), n) = Count(listed[d], n) - 1
    <3>1. n \in NavIds
      BY <2>2 DEF Range
    <3>2. Count(Tracks(d), n) = Count(listed[d], n) - 1
      BY <2>1, <3>1
    <3>3. Count(Tracks(d), n) \in Nat /\ Count(Tracks(d), n) # 0 /\ Count(listed[d], n) \in Nat
      BY <2>2, CountType
    <3> QED BY <3>2, <3>3
  <2> QED BY <2>1, <2>3
<1> QED BY <1>1, Invariant, PTL

\* Of the steps of Next, only the removal itself takes a device on from "remove" and
\* changes the playlists.
LEMMA OnlyRemovalRemoves ==
  ASSUME IInv, [Next]_vars, NEW d \in Devices, pc[d] = "remove", lists' # lists, pc'[d] # pc[d]
  PROVE  RemoveFromPlaylist(d)
<1>1. pc \in [Devices -> Steps]
  BY DEF IInv, TypeOK
<1>2. ~UNCHANGED vars
  BY DEF vars
<1>3. ASSUME NEW e \in Devices, NEW step, pc' = [pc EXCEPT ![e] = step] PROVE e = d
  BY <1>1, <1>3
<1>4. ASSUME NEW e \in Devices, Edit(e) \/ SyncStart(e) \/ Fail(e) PROVE FALSE
  BY <1>4 DEF Edit, SyncStart, Fail
<1>5. ASSUME NEW e \in Devices, NEW s \in Songs, NEW n \in NavIds, NEW strict \in BOOLEAN,
             UpgradeStart(e, s, n, strict)
      PROVE  FALSE
  BY <1>5 DEF UpgradeStart
<1>6. ASSUME NEW e \in Devices, Step(e) PROVE RemoveFromPlaylist(d)
  <2>1. CASE CreatePlaylist(e)
    BY <1>1, <1>3, <2>1 DEF CreatePlaylist, Goto
  <2>2. CASE AppendUpgraded(e)
    BY <1>1, <1>3, <2>2 DEF AppendUpgraded, Goto
  <2>3. CASE Add(e)
    BY <2>3 DEF Add
  <2>4. CASE RemoveFromPlaylist(e)
    BY <1>1, <1>3, <2>4 DEF RemoveFromPlaylist, Drop, Goto
  <2>5. CASE FindPlaylist(e) \/ Patch(e) \/ Resolve(e) \/ GetTracks(e) \/ FindPosition(e) \/ Finish(e)
    BY <2>5 DEF FindPlaylist, Patch, Resolve, GetTracks, FindPosition, Finish
  <2> QED BY <1>6, <2>1, <2>2, <2>3, <2>4, <2>5 DEF Step
<1> QED BY <1>2, <1>4, <1>5, <1>6 DEF Next

\* A track that the local playlist wants is only removed if somebody edited, or removed
\* another one between the look at the position and the removal: the position that
\* remove_from_playlist looked up is still the victim's otherwise.
THEOREM OnlyRaces == Spec => OnlyRacesRemoveWanted
<1>1. ASSUME IInv, [Next]_vars, NEW d \in Devices,
             pc[d] = "remove", lists' # lists, pc'[d] # pc[d],
             "edit" \notin others[d], ~moved[d], NEW n \in Wanted(d)
      PROVE  Count(lists'[playlist[d]], n) = Count(lists[playlist[d]], n)
  <2>1. RemoveFromPlaylist(d)
    BY <1>1, OnlyRemovalRemoves
  <2>2. Removed(d)
    BY <1>1, <2>1, RemoveSteps
  <2>3. /\ playlist[d] \in DOMAIN lists /\ Tracks(d) \in Seq(NavIds)
        /\ toRemove[d] \cap Wanted(d) = {}
    BY <1>1, Writing
  <2>4. victim[d] \in toRemove[d] /\ position[d] \in DOMAIN Tracks(d) /\ Tracks(d)[position[d]] = victim[d]
    BY <1>1 DEF IInv, DeviceInv, VictimThere
  <2>5. lists'[playlist[d]] = RemoveAt(Tracks(d), position[d])
    BY <2>2, <2>3 DEF Removed
  <2>6. n # Tracks(d)[position[d]]
    BY <1>1, <2>3, <2>4
  <2>7. Count(RemoveAt(Tracks(d), position[d]), n) = Count(Tracks(d), n)
    BY <2>3, <2>4, <2>6, CountRemove
  <2> QED BY <2>5, <2>7 DEF Tracks
<1>2. IInv /\ [Next]_vars =>
        [\A d \in Devices :
           pc[d] = "remove" /\ lists' # lists /\ pc'[d] # pc[d] =>
             \/ "edit" \in others[d] \/ moved[d]
             \/ \A n \in Wanted(d) :
                  Count(lists'[playlist[d]], n) = Count(lists[playlist[d]], n)]_vars
  BY <1>1
<1> QED BY <1>2, Invariant, PTL DEF Spec, OnlyRacesRemoveWanted
=============================================================================
