----------------------------- MODULE PlayerPages -----------------------------
(***************************************************************************)
(* The pages that show a player (planar-bridge, src/music/mod.rs) over the *)
(* timed cache (src/cache.rs) and request_coalesced.                       *)
(*                                                                         *)
(* get_or_init looks a key up under the lock, lets the lock go while the   *)
(* value is made, and takes it again to insert.  now_playing, play_pause_- *)
(* button and volume make their value with request_coalesced; now asks the *)
(* backend on its own, as load_playlist does.  An entry is good for one    *)
(* second (Duration) of SystemTime, a clock that can be set back.          *)
(*                                                                         *)
(* A caller of RequestCoalescing is a page load here.  The coalescer's key *)
(* holds the credentials the page came with; the key of the cache is the   *)
(* to_query_string of the target (and the type of the value), which leaves *)
(* them out: PageOf says what a request's answer is cached under.  Each    *)
(* key counts the versions of the player on its own.  A version in Failing *)
(* is a state of the player in which the request ends in an error.         *)
(***************************************************************************)
EXTENDS RequestCoalescing, Integers

CONSTANTS
  Pages,        \* the keys of the cache
  PageOf,       \* the one that each request's answer is kept under
  Direct,       \* keys whose value is asked for without coalescing (now)
  Failing,      \* versions in which the backend answers with an error
  Duration,     \* for how many ticks an entry is good
  MaxTime,      \* bound: ticks
  MaxSetBack    \* bound: ticks the system clock is set back by, all in all

ASSUME PagesAssumption ==
  /\ PageOf \in [Keys -> Pages]
  /\ Direct \subseteq Keys
  /\ Failing \subseteq Versions
  /\ {Duration, MaxTime, MaxSetBack} \subseteq Nat

VARIABLES
  cache,     \* what is cached under each key
  load,      \* progress of each page load, and what it returned
  real,      \* ticks since the start
  setBack,   \* ticks the system clock is behind
  newest     \* history: the newest version that pages have shown, for each key
             \* they were fetched with

pageVars == <<cache, load, real, setBack, newest>>
allVars  == <<vars, pageVars>>

SystemTime == real - setBack

\* value and created_at; history: when it was inserted, the key it was fetched
\* with, and what was the newest of that key when the load that fetched it came.
Entry   == [value : Versions, created : Int, born : 0 .. MaxTime, by : Keys,
            base : Versions]
NoEntry == [value |-> NoResult]

\* history: by and base are the entry's, or those of the load itself.
Loads == [step  : {"new", "missed", "fetched", "shown", "failed", "dropped"},
          key   : Keys \cup {None}, value : Versions \cup {NoResult},
          by    : Keys \cup {None}, base : Versions]

NewLoad == [step |-> "new", key |-> None, value |-> NoResult, by |-> None, base |-> 1]

\* What is left of a load that shows nothing.
Ended(step) == [NewLoad EXCEPT !.step = step]

PagesTypeOK ==
  /\ TypeOK
  /\ cache   \in [Pages -> Entry \cup {NoEntry}]
  /\ load    \in [Callers -> Loads]
  /\ real    \in 0 .. MaxTime
  /\ setBack \in 0 .. MaxSetBack
  /\ newest  \in [Keys -> Versions]
  /\ \A c \in Callers : load[c].step = "shown" => load[c].value # NoResult

PagesInit ==
  /\ Init
  /\ cache   = [p \in Pages |-> NoEntry]
  /\ load    = [c \in Callers |-> NewLoad]
  /\ real    = 0
  /\ setBack = 0
  /\ newest  = [k \in Keys |-> 1]

-----------------------------------------------------------------------------
\* CacheEntry::get: a created_at in the future counts as no time ago.
Good(e) == e # NoEntry /\ SystemTime - e.created < Duration

\* A load ends with a page, from an entry of the cache or for one.
Show(c, k, e) ==
  /\ load'   = [load EXCEPT ![c] = [step |-> "shown", key |-> k, value |-> e.value,
                                    by |-> e.by, base |-> e.base]]
  /\ newest' = [newest EXCEPT ![e.by] = IF e.value > @ THEN e.value ELSE @]

Miss(c, k) ==
  /\ load' = [load EXCEPT ![c] = [step |-> "missed", key |-> k, value |-> NoResult,
                                  by |-> k, base |-> newest[k]]]
  /\ UNCHANGED newest

\* default().await is over: an error is returned as it is, and not cached.
Fetched(c, v) ==
  load' = [load EXCEPT ![c] = IF v \in Failing THEN Ended("failed")
                              ELSE [@ EXCEPT !.step = "fetched", !.value = v]]

\* Faulty variants, for the properties to refute.

\* A hit makes the entry good for another Duration.
LookUpRefreshing(c, k) ==
  /\ load[c].step = "new"
  /\ LET p == PageOf[k]
     IN IF Good(cache[p])
        THEN /\ Show(c, k, cache[p])
             /\ cache' = [cache EXCEPT ![p].created = SystemTime]
        ELSE Miss(c, k) /\ UNCHANGED cache
  /\ UNCHANGED <<vars, real, setBack>>

\* Pages that share their requests also ask on their own, past the map.
NowForAll(c) ==
  /\ load[c].step = "missed"
  /\ pc[c] = "idle"
  /\ Fetched(c, player[load[c].key])
  /\ UNCHANGED <<vars, cache, real, setBack, newest>>

-----------------------------------------------------------------------------
\* The first lock of get_or_init.
LookUp(c, k) ==
  /\ load[c].step = "new"
  /\ IF Good(cache[PageOf[k]]) THEN Show(c, k, cache[PageOf[k]]) ELSE Miss(c, k)
  /\ UNCHANGED <<vars, cache, real, setBack>>

\* get_current asks through request_coalesced, and gets the result the task
\* got, or the one in the channel.
GetCurrent(c) ==
  /\ load[c].step = "missed"
  /\ load[c].key \notin Direct
  /\ \/ RequestCoalesced(c, load[c].key) /\ UNCHANGED load
     \/ JoinTask(c) /\ Fetched(c, seen[on[c]])
     \/ WaitFor(c) /\ Fetched(c, channel[on[c]])
  /\ UNCHANGED <<cache, real, setBack, newest>>

\* now makes a request of its own.
Now(c) ==
  /\ load[c].step = "missed"
  /\ load[c].key \in Direct
  /\ Fetched(c, player[load[c].key])
  /\ UNCHANGED <<vars, cache, real, setBack, newest>>

\* The second lock: whatever is there by now is replaced.
Insert(c) ==
  /\ load[c].step = "fetched"
  /\ LET k == load[c].key
         e == [value |-> load[c].value, created |-> SystemTime, born |-> real,
               by |-> load[c].by, base |-> load[c].base]
     IN cache' = [cache EXCEPT ![PageOf[k]] = e] /\ Show(c, k, e)
  /\ UNCHANGED <<vars, real, setBack>>

\* The browser hangs up: the handler is dropped where it waits.
Drop(c) ==
  /\ load[c].step \in {"missed", "fetched"}
  /\ load' = [load EXCEPT ![c] = Ended("dropped")]
  /\ Cancel(c) \/ (pc[c] \notin {"leading", "waiting"} /\ UNCHANGED vars)
  /\ UNCHANGED <<cache, real, setBack, newest>>

\* ctl and queue go to the player at once; it also plays on without them.  The
\* cache is not told.
Ctl(k) == PlayerChanges(k) /\ UNCHANGED pageVars

Task(f) ==
  /\ RequestFromBackend(f) \/ Publish(f) \/ RemoveEntry(f)
  /\ UNCHANGED pageVars

Tick ==
  /\ real < MaxTime
  /\ real' = real + 1
  /\ UNCHANGED <<vars, cache, load, setBack, newest>>

SetBack ==
  /\ setBack < MaxSetBack
  /\ setBack' = setBack + 1
  /\ UNCHANGED <<vars, cache, load, real, newest>>

-----------------------------------------------------------------------------
PagesNext ==
  \/ \E c \in Callers : \/ \E k \in Keys : LookUp(c, k)
                        \/ GetCurrent(c) \/ Now(c) \/ Insert(c) \/ Drop(c)
  \/ \E f \in Flights : Task(f)
  \/ \E k \in Keys : Ctl(k)
  \/ Tick \/ SetBack

PagesSpec == PagesInit /\ [][PagesNext]_allVars

-----------------------------------------------------------------------------
(***************************************************************************)
(* Properties.                                                             *)
(***************************************************************************)

\* A page served from the cache was fetched less than Duration ago, unless the
\* system clock was set back: then it may be older by as much, since elapsed()
\* fails for a created_at in the future and counts as zero.
HitsAreRecent ==
  [][\A c \in Callers : load[c].step = "new" /\ load'[c].step = "shown" =>
       real - cache[PageOf[load'[c].key]].born < Duration + setBack]_allVars

\* A page shows an older state than a page before it only if its state was
\* fetched by a load that had looked the cache up before that other page was
\* shown: by a late one, which replaced the newer entry.  Pages that come after
\* do not fetch an older state: the request they join began after the one that
\* the newer page came from, or is that one.  This is said of one key: credentials
\* do not share requests, so that one who waits for the answer to a request of
\* his own may be shown a state older than the cache served others meanwhile.
BackOnlyByLateLoad ==
  [][\A c \in Callers :
       (load[c].step # "shown" /\ load'[c].step = "shown") =>
         LET shown == load'[c]
         IN shown.value < newest[shown.by] => shown.base < newest[shown.by]]_allVars
=============================================================================
