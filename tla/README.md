# A TLA+ model of blind-eternities

blind-eternities connects the devices of one household. A server keeps a
connection to the `spark` daemon of every device and relays commands to them;
`planar-bridge` is a web front end, mostly for the music players the daemons
control; a library of songs and wallpapers, a table of machine statuses and a few
pages complete it. This directory holds the specifications of the parts where
timing decides whether the program is right, the TLC runs that check them on small
instances, and TLAPS proofs that carry the most important properties to every
instance.

    tlc -config MCPersistentConnections.cfg MCPersistentConnections.tla
    tlapm RelayProofs.tla

`PROJECT.json` is the index: components, runs, theorems, the source lines behind
each definition, the mutants that show that each property can fail, and the hazards
the properties are for.

## The system

| component | state | operations | hard because |
|---|---|---|---|
| command relay (`server/src/persistent_connections`, `server/src/routes/persistent_connections.rs`) | the namespace of connected sockets, each with a hostname and a `Generation`; a gauge; requests in flight | middlewares, `on_connect`, the disconnect handler, `ws_send`, list | several connections of one device at a time, stale choices, timeouts, restarts |
| spark's connection (`spark/src/daemon/persistent_conn.rs`) | its connection | `start`, `run`, `handler` | lost connections and acknowledgements, commands it cannot decode |
| request coalescing (`planar-bridge/src/music/request_coalescing.rs`) | the `inflight` map, a watch channel per request | `request_coalesced`, the spawned task | callers dropped at any await, two critical sections |
| music sessions (`server/src/auth/music_session.rs`) | the table `music_sessions` | `create_for`, `hostname`, `delete` | up to three statements without a transaction |
| local socket protocol (`common/src/net/mod.rs`, `spark-protocol`) | read buffers on both sides | `recv_raw`, `send`, `serve`, `Client::send` | lines cut anywhere by a bounded buffer or a short read, both ways |
| music control (`server/src/routes/music.rs`) | none | `ws_message_music_player` | the session may end between its two steps |
| player pages and cache (`planar-bridge/src/music/mod.rs`, `cache.rs`) | a timed cache | `get_or_init`, `get_current`, `now`, `ctl` | loads that end in another order than they began, a clock that is set back |
| playlist page (`planar-bridge/src/playlist/mod.rs`) | a cached playlist; the filter travels in the page's address | `playlist`, `Toggle`, `include_song`, `audio` | a filter can outlive the category it names; ffmpeg between two pipes |
| daemon commands (`spark/src/daemon/handle_message`) | a lock `RELOADING` | `reload`, music, heartbeat | `reload` checks a lock that it does not keep |
| machine status (`spark/src/daemon/machine_status.rs`, `server/src/routes/machine_status.rs`) | two tables | periodic `post`, `get` | posts that overtake each other |
| network graph (`common/src/algorithms/net_graph.rs`, `spark/src/routing.rs`) | none | `from_iter`, `find_path`, `path_to_ips` | a search whose result must be a usable route |
| song library (`server/src/routes/playlist.rs`) | a table and directories of files | `add_song`, `add_thumb`, `add_navidrome_song`, `upgrade_to_navidrome`, `search` | a row and several files written one after the other |
| playlist synchronisation (`spark/src/backend/songs.rs`, `common/src/subsonic.rs`) | playlists on a Subsonic server, a local playlist file | `sync_playlists`, `upgrade_song`, `add_to_playlist`, `remove_from_playlist` | several devices read, then write by position |
| song downloads (`spark/src/backend/songs.rs`, `spark/src/util`) | the working directory, temporary files | `add_song`, `dl_song`, `add_song_file` | several external programs, any of which may fail, in one directory |
| wallpapers (`server/src/routes/walls.rs`) | directories of files | `thumb`, list, random | thumbnails made by concurrent requests, of three directories in one |
| Minecraft pages (`planar-bridge/src/games/minecraft`) | `MOD_INFO_CACHE`, `LOG_CACHE` | `generate_mod_pack`, `parse_logs`, `deaths` | logs and jars change while they are read; caches that outlive what they were made of |
| authentication (`server/src/auth/mod.rs`) | tokens in a table | check, insert | little: one query per request |

The parts meet in few places. A browser asks planar-bridge, which coalesces
requests for one player and calls the server; the server resolves the music session
of the request and hands the command to the relay; the relay emits it to the daemon,
whose handler executes it and acknowledges. The `spark` command line talks to the
daemon of its own device over the local socket and to those of others through the
relay.

## The modules

### PersistentConnections and CommandRelay

`PersistentConnections` is the core: the server's view of the connections, the
devices' view, the wire between them and the requests in `ws_send`.

*Connections.* `Connect` is a daemon's attempt, by `start` or by the client
library's reconnection. On the server an attempt is in its `handshake` until
`HostnameMiddleware` counts and numbers it, `named` until `OnConnect` puts it into
the namespace and installs the disconnect handler, and `closed` at the end. Both
sides learn of the end of a connection on their own: `LoseLink` is the device's
loss, `PeerGone` and `HeartbeatMissed` the server's discovery, right or wrong, and
`NoticeClosed` the device's. An attempt that the device left is given up by
`AbortHandshake`, or passes the middlewares late, with a higher generation than the
connection that replaced it. `ServerRestart` resets the process: the generations,
the gauge, the namespace.

*Requests.* `SelectSocket` reads the namespace, `Emit` uses what was chosen, and the
socket may close or be replaced in between. After it, a request ends with an
acknowledgement (`ReceiveAck`), the sixty-second timeout (`AckTimeout`), the close of
its socket (`AckClosed`), the departure of its client (`ClientGone`) or a restart.

*The device.* `Handler` takes the next command of the connection the device holds,
executes it and acknowledges it under its number. A command that does not decode is
dropped. Execution and acknowledgement are one action: nothing but the loss of the
acknowledgement, which `LoseLink` allows at any later time, can be seen in between.

socketioxide and rust_socketio are external. They appear with what the code relies
on: a registry, a bounded outgoing channel, acknowledgements matched by number,
reconnection, commands delivered in order while a connection holds.

Two branches of the code have no counterpart. `ws_send` also answers 429 to an
acknowledgement that fails with `InternalChannelFull`: socketioxide reserves the place in the
channel before it puts the command in, and tells a full channel as an error of the emit,
so that nothing fails that way after the emit; were it otherwise, 429 would not mean "not
run". And a handshake without a hostname is refused, which leaves nothing behind.

`CommandRelay` is the promise to HTTP clients, a state machine of three functions: a
command is new, refused or sent; it is executed at most once and only if sent; "ok"
needs execution and every other answer to a command that was sent says nothing of
it. `Relay` in `PersistentConnections` instantiates it: a command is sent when it has
an acknowledgement number, executed when a device ran it.

| run | instance | what it shows |
|---|---|---|
| `relay` | 2 hosts, 2 requests, 3 attempts, channels of 1, a restart | the safety properties below and the refinement of `CommandRelay` |
| `relay_liveness` | 1 host, 2 attempts, a command and a response that do not decode, a restart | requests are answered, commands on a connection that holds are executed, a device is reachable in the end |

Three attempts over two hosts let a replacement overlap a connection in each of its
states, or two hosts connect at once; two requests for channels of one command fill a
channel and let two acknowledgements be late. The hosts are interchangeable, so the
safety run uses their symmetry; the liveness run does not. The bounds are `MaxSockets`
and `MaxRestarts`. Connections are only lost while attempts remain to replace them
(`AttemptsLeft`), so that the bound cannot stop a device for good.

*Fairness.* Timers fire, tasks that are ready run, the device's client library
delivers, a daemon tries again for ever (`start` is a loop and the client
reconnects). That connections fail, that a client sends a request and that a peer is
missed is never promised. `ReceiveAck` is not fair: nothing promises that an
acknowledgement arrives, and the timeout is enough for an answer.

### RequestCoalescing

Callers, the map, and one task per request, in the granularity of the code's two
critical sections: `RequestCoalesced` joins an entry or makes one and spawns the task;
the task requests, publishes, and removes the entry (`RequestFromBackend`, `Publish`,
`RemoveEntry`); callers return by `JoinTask` or `WaitFor` and are dropped by `Cancel`
whenever they wait. A result is abstracted to the version of the player's state it
saw, which tells stale from fresh; an error is a result like another.

`FreshAnswer` says what sharing may cost: a caller can get an answer from before its
call, never one from before the end of the previous request for its key. The safety
properties are checked under the pages that call it, in `player_pages`; that every call
ends (`EveryCallEnds`) is a part of the run `work_ends`. Fairness there: what is ready is
polled, and a request to the backend ends, if only by the server's sixty seconds.

### PlayerPages

The pages over the coalescer: `get_or_init` looks a key up under a lock (`LookUp`), makes
the value without it (`GetCurrent`, by `request_coalesced`, or `Now`, on its own) and
locks again to insert (`Insert`). A load may be dropped in between (`Drop`), and `ctl`
tells the player something without telling the cache (`Ctl`). An entry is good for one
second of `SystemTime`, which may be set back (`SetBack`): `elapsed` then fails and counts
as zero. A page load is a caller of `RequestCoalescing`, so the module extends it and each
of its steps is a step of it or leaves it alone. The two do not have the same keys: the
coalescer's holds the credentials a page came with, the cache's is the target alone
(`PageOf`), so that visitors with different credentials fetch apart and share what is cached.

Two properties say how old a page can be. A hit is younger than the duration, and what the
clock was set back by (`HitsAreRecent`). And a page is compared with those before it: it
shows an older state than one of them, fetched with the same key, only if a load fetched it
that had looked the cache up before that other page was shown (`BackOnlyByLateLoad`). Such
a load may end last and replace the newer entry, and all hits of the next second go back
with it; that is the whole extent of the race. It is said of one key. Between two keys more
can happen: one visitor waits for an answer to a request of his own and is shown a state
older than others have seen in the cache meanwhile.

The run `player_pages` has three loads (one that comes late, one that is newer, one that
hits), two keys that are coalesced apart and cached together and one that is not coalesced,
two requests, three states of a player of which the first makes the backend fail, a duration of two
ticks, and one tick back. Loads are interchangeable and so are the two keys, and no property
is temporal but for action properties: symmetry is sound.

### MusicSessions and MusicControl

`create_for` statement by statement (`Insert`, `UpdateExistingToken`,
`OverwriteWithNewToken`), with `Expire` and `Delete` between any two. Any statement may
fail, before it had its effect or after, when only its answer is lost, and the handler may
be dropped between two (`Abort`). Time is abstracted to whether a row has expired.
`UnracedSessionStands` is what remains true: a creation that no other for its host overlaps
returns an id that stands. `RowNotFoundOnlyIfDeleted` concerns the one error that is not the
database's: `overwrite_with_new_token` finds no row only if somebody deleted it since the
creation's first statement, never because the row expired or another creation changed it.

`MusicControl` extends it with what sessions are for. `ws_message_music_player` looks a
host up (`LookUp`) and hands the command to `ws_send` (`WsSend`); in between the session may
end, and its id may even be drawn again for another host. `CommandsFollowSession` is
evaluated when the command is sent, with the id the request presented: the command goes to
a host for which a session with that id stood at the look-up; and of the sessions with that
id that stand by then, each is for that host, but one that was created after the look-up
and one that another creation overlapped. That a command may be sent for a session that
ended since its look-up is what the code does, and is not excluded.

The run `sessions` checks these, with three creations, two hosts, three ids (so that
collisions of random ids are common) and a command; `sessions_race` is a counterexample.
That creations end is not checked: `Insert` tries again for as long as it draws ids that
are taken, and that it draws a free one in the end would have to be assumed.

### JsonLines

The conversation on the local socket: a client that sends one command at a time and a server
that answers each before it receives the next. Each direction is a pipe, and each is read
by `recv_raw` over a BufReader, the client's like the server's, with one action per branch of
its loop. A read returns some of what has come, from one block to what the BufReader
holds (`FillBuf`), so that a short line may come in parts just as a long one does. A line is a
sequence of blocks that carry its number, so that one put together wrongly shows. A line
that came in pieces leaves its newline behind, on whichever side, and shifts what
follows. Three properties hold all the same: a line comes out of its pipe once, whole
and in order, whatever its length and wherever the reads cut it (`LinesIntact`); a command
gets its own response as long as no line before it, either way, came in pieces
(`OwnResponse`), so that the first on a connection, which is all that spark's own client
sends, always does; and each is answered (`EveryCommandAnswered`).

The run `json_lines` has three commands and lines of one or two blocks either way
through BufReaders of two: a line fits exactly with its newline or not, and arrives in one,
two or three reads. `json_lines_responses` has longer ones.

### MachineStatus, NetGraph and Routing

`MachineStatus` is the table of where machines are. A daemon's loop posts (`Post`),
waits ten seconds (`Timeout`) and sleeps; what it sent may be handled much later. The
server's `post` is a transaction, statement by statement (`Upsert`, `DeleteIps`,
`InsertIps`, `Commit`): the first statement waits for the row lock of the host
(`Locked`), the second deletes the rows that are committed when it runs, nothing is seen
before the commit and `Fail` rolls it all back. `Move` changes a machine's network.
`get` is one statement, hence a state function (`Listed`). What a machine reports of
itself is taken at one instant: the addresses of its interfaces that are up and are network
cards, as loopbacks, tunnels and docker's interfaces mean nothing elsewhere
(`IpConnections`). The code prefers the external address it got over IPv4; as either request
may fail where there is a network, the model leaves open which of them a machine reports.

`NetGraph` is `from_iter`, `find_path` and `path_to_ips` as operators on a function from
hosts to statuses. The A* search is specified by what it returns, any cheapest path
without a repeated node (`FindPath`), `preferred_ip` as one of a set (`PreferredIps`), since
addresses come from a join without an order. `Routing` composes the two: `spark ssh` reads `Listed`,
puts in its own status, resolves an alias to a host and a user, searches, and makes of the
route a chain of jumps (`PathToArgs`) with the user each machine announces. A search changes
nothing, so it is no action; the properties quantify over the searches that could be made in
a state. `Reached` is the world outside: what a connection to an address reaches, given where machines really are.

`RouteFoundIfAny` says of any listing when there is a path and when it makes a route: there
is a path if and only if the two machines share a NAT or one of the destination's NAT has a
port; it can be followed only if the machine asking has local addresses and so has the
destination, unless it is reached by a port of its own. That `path_to_ips` fails otherwise is part
of the property and not excluded from it. `RouteLeadsThere` follows the commands of a route hop
by hop, of each path a search may return. Its premises are in its text: the machines on
that route are listed as they are now (others need not be), and in the networks where they
are, the address of a network card is of one machine and a port is forwarded to one
(`AddressesDiffer`). A bridge of a virtual machine or container, which is of type Ethernet
and not named after docker, is announced like a network card and may have the same address
everywhere. The property says what that does to a route: if the address chosen for its last
hop is one of them, it may lead elsewhere, and not otherwise.

The run `routing` has a bridge of docker's with the same address on two machines, one of
libvirt's too, which is announced, a server with a forwarded port, a desktop beside it and a laptop
that is at home, over IPv4 or IPv6 and with an IPv6 address of its own, or in a train over IPv4
without a local address, two posts at a time, one move and one failure. Two posts are what it takes for
one to overtake or interleave with another of the same machine; the third machine tells a
route through the server from a direct one. With stale statuses of the machines on it, a
route may lead nowhere: the code has a TODO on them.
Fairness: the daemon's loop has no end and statements end. `Post` is strongly fair only
because the bound `MaxPosts` disables it while posts of others are on their way.

Some facts to know that no property promises away: the user a machine announces goes before
the one asked for on the command line; a route from a machine without a local address fails
although its own hop is dropped in the end; two machines of one network that report addresses of
different families are not taken to be neighbours; and a tie between two gates is broken
by the order of a `HashMap`.

### SongLibrary

A row per song, its audio, metadata and thumbnail files, and the cache of extensions, all
tied together by nothing but the order in which they are made: `add_song` (`Insert`,
`CreateFile`, `Copy`, `CreateMeta`, `WriteMeta`), then its client `add_song_file`, which
posts the thumbnail (`CreateThumb`, `CopyThumb`) and runs `m new` (`MNew`). `Abandon`
stops an upload between any two steps and leaves what is there; `ServerRestart` empties
the cache and ends what was being handled. A file's content is the upload it came from and
whether it is all there. `SongAudio`, `AddNavidromeSong` and `UpgradeToNavidrome` come in
between. A collision of ids is an error, not another turn of the loop: the loop looks for a
constraint named `songs_unique_id`, and the primary key of the migration is not called
that. A collision with a file is another turn, which leaves the row of the id it gave up.

What is complete stays (`NeverOverwritten`), with one exception that the code has: a song
from before the table has files but no row, so that its id may be drawn again. An upload
with the same extension is stopped by `create_new`; one with another writes its metadata and
thumbnail over those that are there. The audio is safe, and so is all that uploads made.

The run `song_library` has two uploads over three ids, two extensions, and one file from
before the table existed, so that both kinds of collision are common. Not modelled: what is
read and streamed. Seen on the way, but promised by nothing: `add_thumb` writes into the
directory `mtogo()` while `song_thumb` reads from `thumb()`; a song added from Navidrome has
no metadata; an upgrade of an unknown id is answered with 200.

### PlaylistSync

Devices run `spark backend sync-playlists` and `upgrade-song`, one action per call to the
server or to Navidrome, which is external: a playlist there is a sequence of ids, appended
to and removed from by index, and two playlists may have the same name. The three history
variables say what others did since a device's command began (`others`), whether a track was
removed since the device looked up a position (`moved`), and what the tracks were when it
read them (`listed`, whose set is what the code keeps).

The run `playlist_sync` has two devices, two songs, three Navidrome ids and two commands:
two synchronisations at once, a synchronisation against an upgrade, or one after the other,
with an edit of a local playlist and any call failing. The playlist starts absent, with songs
that are no longer wanted, or with one of them twice. What it shows: additions of others
never make a removal hit the wrong track, because they are appended; only removals do, and
only between the lookup and the removal (`OnlyRacesRemoveWanted`); an undisturbed
synchronisation makes the playlists equal but for songs that are there more than once, of
which it removes one each (`UndisturbedSyncSettles`). The local playlists start equal, as they do on
devices that share them by git; the edit makes them differ.

### SongDownload

What `spark backend add-song` does on the device: yt-dlp downloads (`DlSong`) or the user
names a file (`AddSong`), the file that yt-dlp wrote under another extension is looked for
(`FindFile`), probed, its picture extracted and packed with it into a temporary file, which
is renamed and uploaded (`AudioDuration` to `UploadThumb`); then a download is removed
(`RemoveFile`). `Fail` ends a job at any step: then what was downloaded stays, and so does
what ffmpeg wrote beside the temporary file. Two jobs share a directory in which one title
begins with the other, since `FindFile` takes the first file that begins with the stem.
Then another file is uploaded and removed, perhaps one of the user's own, and the download
stays. `RemovedAreUploaded` is what makes that bearable: no file leaves the directory before
the server has that very file's song. `AddSongCleansUp` says what may stay: a song that was
not there from before is the download of a job that runs, that failed, or that took
another file for it; temporary files are of jobs that run or failed. The pictures that
yt-dlp leaves are removed by nobody.

### WallThumbs

`thumb` serves a file or spawns a blocking task that makes it, under its final name:
`File::create` truncates (`Compress`) and each task writes at its own offset (`Encode`).
What is served is opened with the length of the moment (`NamedFile`) and read later
(`Stream`). Browsers hang up, tasks fail, the server is restarted.

The routes of small, all and phone take pictures from three directories and share one
thumbnail directory, in which a thumbnail has the name of the picture alone. A piece of the
file therefore carries its source, and pictures of different sources have different lengths.
Tasks of two sources that overlap leave a mixture, a failed task a part, and either is
served from then on; the properties say that nothing else leads there. `ThumbWholeAtRest`:
when no task writes, the file is the whole picture of one source, unless since a task last
began it alone one failed or was killed or two wrote it from different sources (`spoilt`).
`PartialOnlyIfDisturbed`: who is answered with anything but a whole picture was served a
spoilt file or while another's task wrote. Whose picture is served, if two directories
have one of that name, is that of the first asked for, and promised by nothing.

### PlaylistPage and AudioStream

The page keeps no visit: its filter is in the address, and each category links to the page
with itself toggled (`Toggle`): neutral, green, red. Songs come from a playlist cached for an
hour. `PageExplainsSongs` relates the two: what is listed is what the colours say. It
needs its premise, that no song left the playlist during the visit (`lost`): a category
that falls to two songs is not listed any more but filters on, and no click can undo it.

`AudioStream` is the transcoding of one song: the backend's answer, a task that feeds
ffmpeg, two pipes of bounded size, and a browser. `EveryTranscodingEnds`: wherever one of
them stops, all do. Fairness: tasks and processes go on when they can, a browser reads or
leaves. The instance has five chunks and pipes of two, so that both pipes are full at once.

### DaemonReload

`reload` looks whether `RELOADING` is free and answers; a thread takes it a second later
(`Wake`) and execs. Several commands can pass before the first thread wakes.
`AcceptedReloadEnds`: each ends, in a new process or with both execs failed, and none keeps
the lock. The instance has three commands. Fairness: a thread that can go on does.

### MinecraftMods, MinecraftLogs and MinecraftDeaths

`MinecraftMods` makes a pack of the server's jars and the recommended client mods. What
Modrinth answers is cached per slug, for good or, for a latest version, for three days; the
cache is locked for each look-up and insertion only, while jars and releases change.
`PackFitsServer`: for each jar there is a release that contains the jar's version. That is
what `contains` promises, and no more: 1.10 contains 1.1. The instance has a server mod, a
client mod, two releases of which the second's number contains the first's, two packs.

`MinecraftLogs` reads the rotated logs, from a cache or from disk, and the latest one, while
the game writes, rotates, and compresses. `LogsCountedOnce`: no line is counted twice, and a
request that nothing disturbs counts all. The second half has two premises, each of which
the run needs:
the cache keeps the lines of the players that were on the whitelist when a file was
first read (`excused`), and `parse_logs` drops the last file of its sorted list, which is a
debug log only where the game keeps debug logs (`debug`); elsewhere it is the newest
rotated one, whose lines are counted only after the next rotation.

`MinecraftDeaths` is the page of who died of what. Its numbers come from several
passes over the deaths, one of them a walk over days. `DeathsAddUp`: they come to the same.
Deaths are told apart by their place in the logs, and every chart counts places. Charts are
computed as in the code and checked over all sequences of up to three deaths of two players,
of two kinds, on four days of two years.

### MCServices and MCWorkEnds

Both put parts side by side that share no state: a behaviour is of one part, chosen at
its start. `MCServices` has those with safety properties, thumbnails (three requests
by two routes, a restart), downloads (two jobs, two titles), the playlist page (four songs, three
tags), mods, logs (two requests, two lines, two rotations) and deaths. `MCWorkEnds` has the
three promises of an end: of coalesced calls, of transcoding, of reloads.

| run | instance | distinct states | what it shows |
|---|---|---|---|
| `player_pages` | 3 loads, 3 keys, 2 requests, 3 versions, 2 ticks | 3,196,587 | one request per key, fresh answers, how old a page can be |
| `work_ends` | 3 callers; 5 chunks, pipes of 2; 3 reloads | 9,392 | calls, transcodings and reloads end |
| `sessions` | 3 creations, 2 hosts, 3 ids, 1 command | 74,519 | unraced sessions stand, rows are lost to deletion only, commands go where ids point |
| `sessions_race` | 3 creations, 1 host, 3 ids | | a counterexample: see Findings |
| `json_lines` | 3 commands, lines of 1 or 2 blocks, capacity 2 | 143,526 | lines arrive whole, commands get their own responses until a line comes in pieces, all are answered |
| `json_lines_responses` | 2 commands, lines of 1 to 4 blocks, capacity 3 | | a counterexample: see Findings |
| `routing` | 3 machines, 2 networks, 2 posts, 1 move, 1 failure | 97,687 | consistent tables that catch up, routes that lead where they should |
| `song_library` | 2 uploads, 3 ids, 2 extensions, 1 upgrade | 156,091 | songs that were returned play, songs in the playlist are complete |
| `playlist_sync` | 2 devices, 2 songs, 3 ids, 2 commands, 1 edit | 483,103 | which races can remove a wanted song; what an undisturbed one leaves |
| `services` | see above | 1,987,801 | six parts that read while others write |

Deadlock is checked where the system goes on for ever (`routing`, `song_library`); elsewhere
requests, commands and moves are bounded, and a behaviour may come to its end.

## What is proved

For any values of the constants that satisfy the assumptions named in each module
(`RelayAssumption`, `CoalescingAssumption`, `PagesAssumption`, `SessionsAssumption`,
`JsonLinesAssumption`, `MachineAssumption`, `RoutingAssumption`, `LibraryAssumption`,
`SyncAssumption`, `ThumbsAssumption`, `DownloadAssumption`, `PageAssumption`,
`ModsAssumption`, `LogsAssumption`, `DeathsAssumption`), with no bound on numbers of requests, devices,
connections, songs or releases:

* `RelayProofs`, of the connections: types (`TypeCorrect`), `NewestConnectionServes`,
  `GaugeCoversConnections`. The generations need three facts together
  (`GenerationsGrow`): numbered connections are below the next number; what a
  connection found in the namespace has been connected and can only be so or closed;
  and of two live ones, that which found the other has the higher number. A restart
  keeps them because it closes all connections at once. The gauge is compared with
  the connections between the middleware and the disconnect handler (`Counted`): that
  is what goes up and down with it, but for those given up, which only make it larger.
* `RelayProofs`, of the commands: `RunsOnceWhereAsked`, `OkAnswersAsked`, `RefusedNeverRuns`,
  and that every behaviour of the relay is one of `CommandRelay` (`Implements`). The invariant
  `CommandInv` follows a command: numbers are unique per socket, what is in an inbox
  was emitted there, once, and has not run, what is acknowledged has run. None of the
  properties is inductive without it; "runs at most once" needs that no two entries
  of any inbox are of one request, and "answers are own" that numbers are never reused.
* `PlayerPagesProofs`: first the coalescer by itself, types, `ChannelNeverClosedEmpty`,
  `OneRequestPerKey`, `FreshAnswer`, from an invariant that ties entries to tasks
  (`EntriesMatchTasks`) and results to the order of a task's steps (`PublishedBeforeEnd`,
  `SeenAfterFloor`, `WillBeFresh`). Then that all of it holds under the pages, too
  (each page step is a step of the coalescer or leaves it alone: `StepIInv`), and on top of
  it `BackOnlyByLateLoad` and `HitsAreRecent`. The first needs that whatever is cached, or
  on its way to the cache, is at least as new as what had been shown when its load looked the
  cache up (`SinceBase`, `ShownFrom`). That rests on a comparison of requests: one whose
  answer is not out yet, or has been but is still in the map, saw a state at least as new
  as any that was shown of its key before one could join it (`Current`, `SeenWhenAnswered`).
  The second needs that an entry's `created_at` is not after its insertion (`EntriesInPast`),
  which is all a clock that is only set back can guarantee.
* `JsonLinesProofs`: types, `LinesIntact`, `OwnResponse`, from one invariant of a pipe
  (`PipeInv`), which both directions have. What a reader has yet to take, collected, in the
  BufReader and behind it, is one sequence of blocks (`Rest`), and the invariant says that
  lines frame it: complete ones and perhaps a newline left in front of them (`FramedBy`).
  Reading moves blocks within it, writing adds a line, and what a `recv` returns is the next
  line or nothing but that newline (`ParsedLine`, `TakenLine`). Until a line comes in
  pieces there is no such newline, and the n-th line taken is the n-th written.
* `MusicSessionsProofs`: `UniqueIds`, `UnracedSessionStands`, `RowNotFoundOnlyIfDeleted`, and
  `CommandsFollowSession` of `MusicControl`. The key to the sessions is `NoneOverwrites`:
  while an unraced session stands, no creation for its host is about to overwrite the row.
  The key to control is `LiveRowsHeld`: the id of a row that has not expired was returned to
  a creation for that host that still holds it. `FoundInv` carries what was found at the
  look-up to the moment of sending.
* `RoutingProofs`: `ListedAsPosted`, `RouteFoundIfAny`, `RouteLeadsThere`. What is assumed of
  the constants (`RoutingAssumption`) concerns only how things are represented; what a
  network must be like is a premise of the property. The key to the
  first is that a host's transactions exclude each other (`Locked`), so that the rows a post
  deleted are, until its commit, all the rows of the host. The other two need what the
  cheapest paths are, for any number of machines. Sharing a NAT is an equivalence, so that
  a path that does not pass the Internet stays within one NAT (`AlongNat`); one that does
  costs 198 more than another of its length (`CostIs`), and enters by a gate of the
  destination's NAT. Hence the direct path within a NAT (`CheapestNear`), and else one to the
  destination or to one gate before it (`CheapestFar`), which leaves three shapes of routes
  (`InsideRoute`, `OutsideRoute`, `ViaGateRoute`). The hops of each are the machines of the path in its order (`AlongPath`), and
  each leads to one machine, from within its network (`InsideLeads`) or from anywhere
  (`OutsideLeads`).
* `SongLibraryProofs`: `ReturnedSongsPlay`, `PlaylistSongsComplete`, `NeverOverwritten`. The
  invariant says what files an upload has at each of its steps (`AudioIsOwn`, `MetaIsOwn`,
  `ThumbIsOwn`). It is kept because ids are not shared (`RowsAreOwn`), which in turn needs
  that an id without a row has no files but old ones (`UnusedIdsHaveNoFiles`): rows are
  inserted first and never deleted.
* `PlaylistSyncProofs`: `UndisturbedSyncSettles` and `OnlyRacesRemoveWanted`. For each
  device the invariant says what its command knows at its step (`StepMatches`): the ids found
  are those of the songs resolved (`WantedSoFar`), the track to remove is at its position
  unless somebody removed one (`VictimThere`), and between two requests of an undisturbed
  synchronisation the playlist holds what is wanted and not yet to be added, and of any
  other track as many as were listed, one less once it was removed (`Halfway`). What another
  device does keeps all that or is a disturbance (`Aside`).
* `ServicesProofs`: eight properties of `MCServices`' parts, each of its own
  specification. Thumbnails (`ThumbWholeAtRest`, `PartialOnlyIfDisturbed`): unless the
  file is spoilt, all pieces in it have the source of whoever writes it (`ComesFrom`), and
  one that it lacks is still to be written by some task (`MissingIsComing`), whoever
  truncated it. Downloads (`RemovedAreUploaded`, `AddSongCleansUp`): what a job will remove is
  what it uploaded (`JobsTidy`), and for each download there is a job that answers for it
  (`Accounted`).
  Mod packs (`PackFitsServer`): a server mod is only ever asked for in a jar's version,
  so that what is cached for its slug fits the version it was cached under (`CacheFits`).
  The playlist page (`PageExplainsSongs`): the categories of the filter are listed and of
  one kind (`PageInv`), as more songs list more categories (`CategoriesGrow`).
  Logs (`LogsCountedOnce`): lines are numbered as they are logged, and a rotated one has left
  latest.log (`LinesNumbered`), so that none is both in what a request has read of latest.log
  and in a file it has yet to count (`ReadApart`); what an undisturbed request has not
  counted it has still to count (`UndisturbedMissNothing`), whether from the cache or from
  disk, as files are cached with all their lines where all players are known
  (`AllPlayersKnown`). Deaths (`DeathsAddUp`): days are walked in order (`InOrder`), and the sum
  of what was counted per day, kind or player is the number of deaths (`TotalCounts`).

Where a proof goes by induction over data (sums, places in a sequence), it takes the least
counterexample instead, and the definitions are recursive functions or folds rather than
RECURSIVE operators.

Only model-checked: liveness, which is out of the prover's reach (`EveryRequestAnswered`,
`DeliveredUnlessDropped`, `ReachableAtLast`, `EveryCommandAnswered`,
`TableCatchesUp`, `UploadsEnd` and those of `work_ends`). Every invariant and every safety
action property that a run checks is a theorem.

## Findings

* `json_lines_responses`: after a line that came in pieces, because it does not fit in the
  BufReader or because a read returned part of it, `recv_raw` leaves its newline there
  (`common/src/net/mod.rs`, the second `consume(len)`). The next `recv` on that side gets an
  empty line. If the side is the server's, it answers it with an error; either way all later
  responses on the connection are shifted. `spark-protocol`'s test
  `multiple_commands_get_multiple_responses` expects otherwise, but its lines are short and
  arrive at once (`OwnResponse` holds).
* `sessions_race`: `overwrite_with_new_token` does not look again whether the row has
  expired. Two creations after an expiry can both overwrite: the id that the first one
  returned is dead at once.

What follows was met on the way and is promised by nothing, so it is no finding: a
device answers a command it cannot decode over the local socket but not over the relay,
where the client waits for a minute; the gauge counts an aborted handshake for ever
(`GaugeCoversConnections` is an inequality for that reason); "socket closed" is answered
both before and after a command was sent; the deaths page panics when there are deaths but
none in the year asked for (`Panicked`); two devices that find no playlist create one each
(`CreatePlaylist`); one name has one thumbnail, though three directories may each have a
wallpaper of that name; where the game keeps no debug logs, the log that `parse_logs` leaves
out as "the same as lattest.log" has lines that are in no other file.

## Not modelled

* Authentication, domain types, telemetry, configuration, start-up, the file server: one
  query or one conversion per call, and no state that evolves between two steps.
* The daemon's music commands: their state is the external player library's. Heartbeat and
  version have none.
* `rsync`, `copy-id` and the dot picture, which print the hops of `Routing` in other forms.
* How android finds its addresses and gateways (`spark/src/util`): it parses the output of
  other programs. (Its `extract_ip` does not advance over a line without an address.)
* Searching Navidrome, streaming from it and asking the user, in `songs.rs` and `playlist.rs`:
  external services and a terminal.
* Listing and choosing wallpapers, which reads a directory that other programs fill, and
  the static pages of planar-bridge.
