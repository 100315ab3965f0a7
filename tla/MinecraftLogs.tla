---------------------------- MODULE MinecraftLogs ----------------------------
(***************************************************************************)
(* Reading the logs of the Minecraft server while it writes and rotates    *)
(* them (planar-bridge/src/games/minecraft/logs.rs).  parse_logs reads the *)
(* whitelist, lists the rotated files, reads latest.log, and then what is  *)
(* rotated, from LOG_CACHE or from disk; nothing is taken out of the cache.*)
(*                                                                         *)
(* The game (external) logs a line of a player, moves latest.log into a    *)
(* numbered file, and compresses that while it can already be listed.  A   *)
(* line is its number and its player; parse_log keeps those of players it  *)
(* is given.                                                               *)
(***************************************************************************)
EXTENDS FiniteSets, Naturals, Sequences

CONSTANTS
  Visits,       \* requests that read the logs
  Players,
  MaxLines,     \* bound: lines logged
  MaxRotated    \* bound: rotations

ASSUME LogsAssumption == MaxLines \in Nat /\ MaxRotated \in Nat

VARIABLES
  debug,       \* whether the game keeps debug logs, which sort last
  whitelist,
  latest,      \* lines in latest.log
  rotated,     \* the rotated files: their lines, and whether they are whole
  log_cache,   \* LOG_CACHE: the lines kept of a file
  visit,       \* each request: its step, what it read, and what it counted
  excused      \* history: see LogsCountedOnce

logVars == <<debug, whitelist, latest, rotated, log_cache, visit, excused>>

NotRead == [known |-> FALSE, lines |-> {}]

NoVisit == [step |-> "new", whitelist |-> {}, files |-> {}, missed |-> {},
            parsed |-> {}, latest |-> {}, upto |-> 0, disturbed |-> FALSE]

LogsInit ==
  /\ debug     \in BOOLEAN
  /\ whitelist \in SUBSET Players
  /\ latest    = {}
  /\ rotated   = <<>>
  /\ log_cache = [i \in 1 .. MaxRotated |-> NotRead]
  /\ visit     = [v \in Visits |-> NoVisit]
  /\ excused   = FALSE

-----------------------------------------------------------------------------
Logged == latest \cup UNION {rotated[i].lines : i \in DOMAIN rotated}

ParseLog(lines, players) == {l \in lines : l.player \in players}

Reading == {v \in Visits : visit[v].step \in {"listing", "listed", "reading"}}

\* history: the files change under the requests that are reading.
DisturbVisits(w) == [v \in Visits |-> IF v \in Reading THEN [w[v] EXCEPT !.disturbed = TRUE] ELSE w[v]]

\* Faulty variant, for the property to refute: what could not be read is cached.
ParseCachingFailures(v, i) ==
  /\ visit[v].step = "reading"
  /\ i \in visit[v].missed
  /\ LET records == IF rotated[i].whole THEN ParseLog(rotated[i].lines, visit[v].whitelist) ELSE {}
     IN /\ log_cache' = [log_cache EXCEPT ![i] = [known |-> TRUE, lines |-> records]]
        /\ visit' = [visit EXCEPT ![v].missed = @ \ {i}, ![v].files = @ \ {i},
                                  ![v].parsed = @ \cup records]
  /\ UNCHANGED <<debug, whitelist, latest, rotated, excused>>

-----------------------------------------------------------------------------
ReadWhitelist(v) ==
  /\ visit[v].step = "new"
  /\ visit' = [visit EXCEPT ![v].step = "listing", ![v].whitelist = whitelist]
  /\ UNCHANGED <<debug, whitelist, latest, rotated, log_cache, excused>>

\* Sorted, the last one popped, and then those without debug in their name.
ListLogs(v) ==
  /\ visit[v].step = "listing"
  /\ visit' = [visit EXCEPT
       ![v].step      = "listed",
       ![v].files     = IF debug THEN DOMAIN rotated ELSE DOMAIN rotated \ {Len(rotated)},
       ![v].disturbed = @ \/ \E i \in DOMAIN rotated : ~rotated[i].whole]
  /\ UNCHANGED <<debug, whitelist, latest, rotated, log_cache, excused>>

\* latest.log is read when the stream is put together, before what it follows.
ReadLatest(v) ==
  /\ visit[v].step = "listed"
  /\ visit' = [visit EXCEPT ![v].step   = "reading",
                            ![v].latest = ParseLog(latest, visit[v].whitelist),
                            ![v].upto   = Cardinality(Logged)]
  /\ UNCHANGED <<debug, whitelist, latest, rotated, log_cache, excused>>

LookUpLog(v, i) ==
  /\ visit[v].step = "reading"
  /\ i \in visit[v].files \ visit[v].missed
  /\ visit' = IF log_cache[i].known
              THEN [visit EXCEPT ![v].files = @ \ {i}, ![v].parsed = @ \cup log_cache[i].lines]
              ELSE [visit EXCEPT ![v].missed = @ \cup {i}]
  /\ UNCHANGED <<debug, whitelist, latest, rotated, log_cache, excused>>

\* The file is read; half a file is an error, and counts as an empty one.
ParseRotated(v, i) ==
  /\ visit[v].step = "reading"
  /\ i \in visit[v].missed
  /\ LET records == IF rotated[i].whole THEN ParseLog(rotated[i].lines, visit[v].whitelist) ELSE {}
     IN /\ log_cache' = IF rotated[i].whole
                        THEN [log_cache EXCEPT ![i] = [known |-> TRUE, lines |-> records]]
                        ELSE log_cache
        /\ visit' = [visit EXCEPT ![v].missed = @ \ {i}, ![v].files = @ \ {i},
                                  ![v].parsed = @ \cup records]
  /\ UNCHANGED <<debug, whitelist, latest, rotated, excused>>

CountLines(v) ==
  /\ visit[v].step = "reading"
  /\ visit[v].files = {}
  /\ visit' = [visit EXCEPT ![v].step = "counted"]
  /\ UNCHANGED <<debug, whitelist, latest, rotated, log_cache, excused>>

-----------------------------------------------------------------------------
\* The game: only players on the whitelist play.
Log ==
  /\ Cardinality(Logged) < MaxLines
  /\ \E p \in whitelist : latest' = latest \cup {[n |-> Cardinality(Logged) + 1, player |-> p]}
  /\ UNCHANGED <<debug, whitelist, rotated, log_cache, visit, excused>>

Rotate ==
  /\ Len(rotated) < MaxRotated
  /\ rotated' = Append(rotated, [lines |-> latest, whole |-> FALSE])
  /\ latest'  = {}
  /\ visit'   = DisturbVisits(visit)
  /\ UNCHANGED <<debug, whitelist, log_cache, excused>>

Compressed ==
  /\ \E i \in DOMAIN rotated :
       ~rotated[i].whole /\ rotated' = [rotated EXCEPT ![i].whole = TRUE]
  /\ visit' = DisturbVisits(visit)
  /\ UNCHANGED <<debug, whitelist, latest, log_cache, excused>>

\* The whitelist is edited.
ChangeWhitelist ==
  /\ \E p \in Players : whitelist' \in {whitelist \cup {p}, whitelist \ {p}}
  /\ excused' = (excused \/ ~ whitelist \subseteq whitelist'
                         \/ \E v \in Visits : visit[v].step = "listing")
  /\ visit' = DisturbVisits(visit)
  /\ UNCHANGED <<debug, latest, rotated, log_cache>>

LogsNext ==
  \/ \E v \in Visits :
       \/ ReadWhitelist(v) \/ ListLogs(v) \/ ReadLatest(v) \/ CountLines(v)
       \/ \E i \in 1 .. MaxRotated : LookUpLog(v, i) \/ ParseRotated(v, i)
  \/ Log \/ Rotate \/ Compressed \/ ChangeWhitelist

LogsSpec == LogsInit /\ [][LogsNext]_logVars

-----------------------------------------------------------------------------
\* No line is counted twice, even when latest.log is rotated while it is read;
\* and a request that nothing disturbs counts every line, but for the newest
\* rotated file where the game keeps no debug logs.  That holds as long as no
\* player leaves the whitelist, or joins between a request's reading of it and
\* its listing of the files: the cache keeps the lines of the players that were
\* on the whitelist when a file was first read.
LogsCountedOnce ==
  \A v \in Visits :
    visit[v].step = "counted" =>
      /\ visit[v].parsed \cap visit[v].latest = {}
      /\ (debug /\ ~excused /\ ~visit[v].disturbed) =>
           {l.n : l \in visit[v].parsed \cup visit[v].latest} = 1 .. visit[v].upto
=============================================================================
