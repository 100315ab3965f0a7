--------------------------- MODULE MinecraftDeaths ---------------------------
(***************************************************************************)
(* The page of who died of what (planar-bridge,                            *)
(* src/games/minecraft/deaths.rs), made of the lines parse_logs returns in *)
(* the order of the files, those that are not deaths filtered out.  A page *)
(* is of one year or of all, and its numbers come from several passes over *)
(* the deaths, one of them a walk over the days from the first death to    *)
(* the last.  Days are numbered; each chart is a function of its labels.   *)
(* A selection of deaths is the set of their places in the logs.           *)
(***************************************************************************)
EXTENDS FiniteSetsExt, Naturals, Sequences

CONSTANTS
  Names,        \* players
  Messages,     \* what one dies of
  YearOf,       \* days :> years
  MaxDeaths     \* bound: deaths in the logs

ASSUME DeathsAssumption == MaxDeaths \in Nat /\ DOMAIN YearOf \subseteq Nat

VARIABLES
  died,      \* the deaths in the logs: name, day and message
  shown      \* the last page

deathVars == <<died, shown>>

Empty    == [outcome |-> "empty"]
Panicked == [outcome |-> "panicked"]

DeathsInit == died = <<>> /\ shown = Empty

-----------------------------------------------------------------------------
\* Deaths of which what label says is true.
Count(ds, label) == Cardinality({i \in ds : \A f \in DOMAIN label : died[i][f] = label[f]})

Days(ds) == {died[i].day : i \in ds}

\* Faulty variant, for the property to refute: the last day is left out.
RangeToLast(ds) == {d \in DOMAIN YearOf : died[Min(ds)].day <= d /\ d < died[Max(ds)].day}

\* From the first death's day to the last one's.
DayRange(ds) == {d \in DOMAIN YearOf : died[Min(ds)].day <= d /\ d <= died[Max(ds)].day}

\* deaths_over_time: of all, and of one player, whose chart has the days of his
\* deaths and the days on which nobody died.
OverTime(ds) == [d \in DayRange(ds) |-> Count(ds, [day |-> d])]

OverTimeOf(ds, n) ==
  [d \in {d \in DayRange(ds) : d \notin Days(ds) \/ \E i \in ds : died[i].name = n /\ died[i].day = d}
     |-> Count(ds, [name |-> n, day |-> d])]

\* death_pie_chart
PieChart(ds) ==
  [m \in {died[i].message : i \in ds} |-> Count(ds, [message |-> m])]

Of(ds, n) == {i \in ds : died[i].name = n}

Player(ds, n) ==
  [total      |-> Count(ds, [name |-> n]),
   unique     |-> PieChart(Of(ds, n)),
   over_time  |-> OverTimeOf(ds, n),
   exclusive  |-> {m \in DOMAIN PieChart(Of(ds, n)) :
                     \A i \in ds : died[i].message = m => died[i].name = n}]

DeathsTemplate(ds) ==
  [outcome   |-> "page",
   years     |-> {YearOf[d] : d \in Days(DOMAIN died)},
   total     |-> Cardinality(ds),
   players   |-> [n \in {died[i].name : i \in ds} |-> Player(ds, n)],
   unique    |-> PieChart(ds),
   over_time |-> OverTime(ds)]

\* deaths, of the years asked for; with deaths, but none in the year, the first
\* of them is unwrapped, which panics.
Deaths(years) ==
  LET ds == {i \in DOMAIN died : YearOf[died[i].day] \in years}
  IN /\ shown' = CASE died = <<>> -> Empty
                   [] died # <<>> /\ ds = {} -> Panicked
                   [] OTHER -> DeathsTemplate(ds)
     /\ UNCHANGED died

\* The logs grow in the order of time.
Die ==
  /\ Len(died) < MaxDeaths
  /\ \E n \in Names, d \in DOMAIN YearOf, m \in Messages :
       /\ died # <<>> => died[Len(died)].day <= d
       /\ died' = Append(died, [name |-> n, day |-> d, message |-> m])
  /\ UNCHANGED shown

DeathsNext ==
  \/ \E years \in {{YearOf[d]} : d \in DOMAIN YearOf} \cup {{YearOf[d] : d \in DOMAIN YearOf}} :
       Deaths(years)
  \/ Die

DeathsSpec == DeathsInit /\ [][DeathsNext]_deathVars

-----------------------------------------------------------------------------
Total(chart) == MapThenSumSet(LAMBDA l : chart[l], DOMAIN chart)

\* Each way of counting the deaths on a page comes to the same number: by player,
\* by day, by message, and for each player by day and by message; and what only one
\* player died of, no other did.
DeathsAddUp ==
  shown.outcome = "page" =>
    /\ shown.total = Total([n \in DOMAIN shown.players |-> shown.players[n].total])
    /\ shown.total = Total(shown.over_time)
    /\ shown.total = Total(shown.unique)
    /\ \A n \in DOMAIN shown.players :
         LET p == shown.players[n]
         IN /\ p.total = Total(p.over_time)
            /\ p.total = Total(p.unique)
            /\ \A o \in DOMAIN shown.players \ {n} :
                 p.exclusive \cap DOMAIN shown.players[o].unique = {}
=============================================================================
