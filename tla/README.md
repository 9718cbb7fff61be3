# A TLA+ verification of MusicCloud: server, speaker, phone and library

MusicCloud plays the music of a party. A server owns a library of songs, phones
vote for, like and dislike songs, and a speaker (a Raspberry Pi) fetches songs
from the server and plays them. A crawler makes the library from folders of
files. This directory holds models of the parts that decide *which song plays
when, who is told about it and who may ask*, the runs of TLC that check them on
small instances, and proofs checked by TLAPS for instances of every size.

## 1. Inventory of the system

Third-party code (jmDNS, AFNetworking, SWRevealViewController, MarqueeLabel, the
crawler's `Install Files`, `Server/lib`) is left aside. `Install Files` alone (pip,
pygame, mutagen, eyeD3) has most of the repository's lines. The program's own parts:

| Part | Code | State | Operations |
|---|---|---|---|
| Song scheduling | `Server/src/beatboxserver/SongManager.java` | tables `songs`, `votes`, `likes`; fields `activeSong`, `nextSong`, `songTimerTask`; a `java.util.Timer` | vote, like, dislike (may skip), status updates of speakers, timer tasks |
| Update queue | `SessionUpdateQueue.java`, `Session.java` | waiting channels, one stored update per type | queueRequest, queueUpdate, closePendingRequests |
| Sessions | `SessionManager.java` | table `sessions`, map of sessions | create, destroy, validate, send, broadcast |
| Database | `DatabaseManager.java` | in-memory SQLite, one connection, `transactionLock` | start, stop, roll back a transaction; load the library |
| Request handlers | `ClientHandler`, `SpeakerHandler`, `RequestHandler`, `ProtocolMessageHandler` | none | one method per request |
| Speaker | `RaspberryPi/RaspberryPi-Src/raspi.py` | four globals, two queues, files, pygame's events | three threads, see below |
| Phone | `Client/MusicCloud/MusicCloud/ClientSession.m`, login and party views | screen, `_clientID`, `_requestingUpdates`, the song list shown | join, leave, long-poll loop, song list, updates |
| Crawler | `Crawler/Crawler-Src/crawling.py`, `GUI3.0.py` | table `music` of `song_list.db` | drop, create, walk and insert, commit |
| Start, discovery, pin | `BeatboxServer`, `RegisterService`, `AuthenticationManager` | none of interest | wiring |

How they interact:

* Phones and speakers send HTTP requests, handled on several netty threads.
* The server reaches them only through *long polls*: a client keeps one request
  open, the queue of its session answers it with the next update, the connection
  is closed and the client polls again. Updates of a type nobody fetched are
  *coalesced*: a newer one replaces the older.
* `SongManager` and its timer's thread share a monitor, which some code (the
  statistics of `dislike`, the answer to `Ready`, the reminder task) does not take.
* The course of a song: `upcoming_song` to the speaker, download, `Ready`, `Play`,
  `Playing` (the server makes it the active song), `Stopped`, `Ready` for the next.
  Twenty seconds before the end a timer task chooses the next song, and another, the
  *reminder*, announces it again.
* All threads of the server share one JDBC connection, and with it one transaction
  and one `LAST_INSERT_ROWID()`. `transactionLock` keeps transactions apart, not the
  single statements of other requests.
* Every request of a phone is asynchronous: it has a connection of its own, and its
  completion block runs when the response comes, for whatever screen is there then.
* Crawler and server meet in the locks of SQLite; the server copies the table once,
  at its start. The speaker keeps files under the server's ids for ever.

What is hard here: two sides that keep their own idea of the current and next
song and talk through a lossy, coalescing channel; code outside monitors; timer
tasks that cannot be cancelled once they have started; a speaker whose threads
share globals, and a dictionary, without a lock; statements of one request inside
the transaction of another; responses that arrive after the user has left; a crawl
that is killed while a server starts; lost polls, restarts, failed requests.

What makes the parts correct:

* queue: no client waits while something is stored for it; the newest state of
  every type arrives, once, in order;
* scheduling: table and fields agree, also after a transaction that failed; a chosen
  song is final; the next song is always going to be chosen; only what users asked
  for is skipped;
* speaker: what it is to play next is on disk or on its way; it plays what the
  server chose; it does not wait for the end of a song it never started;
* together: the music goes on;
* sessions: a client gets the session made for it; table and map agree; a session
  that was destroyed stays gone; every request ends;
* phone: it polls when it believes it does; its poll loops are few and end when the
  user leaves; it shows the newest votes;
* library: the server offers a whole crawl or nothing; a kept file is the song of its
  id.

## 2. The modules

| Module | Models | Notes |
|---|---|---|
| `UpdateMailbox` | what a session's queue promises: a register per update type | abstract specification |
| `SessionUpdateQueue` | `SessionUpdateQueue.java` | implements `UpdateMailbox` |
| `SongManager` | `SongManager.java`, with what it uses of `SessionManager`, the handlers, the tables and `java.util.Timer` | speakers and users may send anything |
| `RaspberryPi` | `raspi.py` | the server may send anything |
| `Party` | `SongManager` + `RaspberryPi` + one session's queue + the connection | composes the two |
| `SessionManager` | `SessionManager.java` on `DatabaseManager.java` | statement by statement |
| `ClientSession` | `ClientSession.m`, `LoginViewController.m`, `PartyViewController.m`, and the server as a phone sees it | one phone, any voters |
| `Library` | `crawling.py`, the copy in `DatabaseManager.java`, the speaker's files | processes that fail or are killed |
| `...Proofs` | theorems about the module of that name | |
| `PartyRefinement` | that the parts of `Party` are `SongManager` and `RaspberryPi` | theorems |
| `MC...` | symmetry sets and views for TLC | |

### SessionUpdateQueue
Every operation is one `synchronized` block, hence one action. An update is its
type and its number among the updates of the type. `sent` and `handed` are
history variables; the fields are `channelQueue`, `updateTypeQueue`, `updates`.
`active` is `Channel.isActive()`: a channel may become inactive at any time, also
while it waits, and a write to a channel that has just died is not noticed.

### SongManager
The variables are the columns `status`, `votes`, `likes`, `last_played` (as a rank
of songs), the fields `activeSong` and `nextSong`, and the timer: the scheduled
task `songTimerTask` refers to, scheduled tasks no field refers to (`orphans`), and
the task that has started (`timerThread`) and cannot be cancelled any more.

A `synchronized` block is one action, also with respect to the reminder, which
does not take the monitor. Outside the monitor the code is split where another
thread can intervene: `dislike` (the row) / `countDislikes` (the statistics) /
`decideSkip`; `statusReady` (comparison) / `answerReady` (second read of `nextSong`);
and the reminder task, in every run and proof: `runReminder` (the null check),
`queryReminder`, `storeReminder`, `tellReminder` (the broadcast). `overtaken` is
history: a reminder has stored a song over another choice, stored the song that has
begun, or announced a song that is not the next one any more. `getNextSong` reads the
field once more to return it; that read is taken together with the null check or the
store. `out` is what the last step gave to the queues of speaker sessions.

`updatePlayback` is the start of a song. Its transaction `updateNextSong` either
succeeds (`songBegins`) or fails (`songDoesNotBegin`): a statement throws and all is
rolled back, or the rollback throws too, or the commit does, and then the connection
shows the first `n` of its four statements. The fields stay, the timer task has been
replaced already. `torn` is the song that such a transaction has left behind half
started. With `DatabaseFails` one transaction of a behaviour may fail. A rollback
keeps `transactionLock` (see `SessionManager`), so the next transaction of another
thread waits for ever; in this module that is a step that is not taken. Queries and
statements outside a transaction do not throw `SQLException`.

Other exceptions are modelled by what has changed before them: a
`NullPointerException` for a missing next song, the `IllegalArgumentException` of
`Timer.schedule` for a song shorter than 20 seconds (`TooShort`),
`NoSuchElementException` for an empty choice, and the `SQLException` with which
`getActiveSongFromDB` answers as soon as it finds a row (it reads a column that its
query does not select).

Time is abstracted: a scheduled task may start in any state, songs last as long as
they like. Session ids are never reused, as with SQLite's row ids here.

### RaspberryPi
One action per handler. The playback thread's `playback` takes one update and runs
`handle_play_command`, `handle_stop_command` or `handle_upcoming_song_update`;
`pollEvent` is its `Queue.Empty` branch. The communication thread is `communicate`
(take a message), `handle_need_song` (the server answered the download), `post`
(the status update is handled by the server), `answered` (the rest), and
`commRaises` (a request raises and nothing catches it). `receive` is the update
thread. `songEnds` and `postEnd` stand for pygame. A handler runs without blocking
calls, so it is one action; what follows a blocking call is another action. The two
pygame actions follow its source, which the repository has under
`Crawler/Install Files/pygame` (`endmusic_callback`, `music_stop`).

* `Missing`: songs whose file the server cannot read; the download is refused.
* `StopPostsEnd`: whether `music.stop()` makes pygame post the end event. Versions
  differ: the run of this module assumes that it does, the runs of `Party` that it
  does not. With it, a skipped song leaves an event behind that ends the next one.
* `files` starts as any set of songs: what earlier parties left on the disk.
* `playback_func` reports every end of a song in one and the same dictionary, and
  the communication thread turns the dictionary it has taken into its next message.
  A queue entry `Shared` is that dictionary, `message` what it holds now, and
  `comm.shared` whether the communication thread has it in its hands: a message can
  change while it is queued, and a write of one thread is seen by the other.

### Party
`Party` extends `SongManager` and instantiates `RaspberryPi`, with `post` joined to
the server's handler of the status. The session's queue is `mailbox`: stored
updates, whether a request waits, how many dead channels wait before it (`stale`),
and the response under way (`wire`). `queueUpdate` is the queue of
`SessionUpdateQueue` for one client with at most one open request. `pollTimesOut`
drops the response under way; `noticeClosed` is netty noticing the dead channel;
`restart` kills the speaker, whose old session stays at the server. An update thread
whose authentication is refused has ended (`Welcomes`).

### SessionManager
A statement is one action, because that is where another thread's statement can
come between. `sessions` and `sequence` are the table and `sqlite_sequence`,
`committed` is what a rollback returns to, `autoCommit`, `lastRowid` and `lock` are
those of the connection and of `transactionLock` (a `ReentrantLock`, with its hold
count). `thread[t]` is what a netty thread is doing. `createSession` is
`startTransaction`, `insertSession`, `selectId`, `stopTransaction`, `putSession`;
`createFails` is its `finally`, which commits. `updateNextSong` of `SongManager` is
the other user of transactions and the only one that rolls back; the rollback keeps
the lock, as the code does. `destroySession` and ratings (`rate`) write without a
transaction of their own: they are part of whichever is open. A rating may come
between the `INSERT` of a session and the `SELECT` of its id, in every run and proof:
the client then gets a wrong id (`find_session_id`). `interleaved` is history, the
rows to which that has happened. A commit or a rollback may throw before or after it
has done its work, and so may the `setAutoCommit` before or after it.

### ClientSession
Each request is a record that moves from "sent" through what the server does to its
completion block; each completion block is an action, as is what the user does. A
session is named by the login it belongs to, a state of the votes by the number of
votes cast, so that newer and older can be told. `polls` is in the order in which
the requests reach the server's queue; one that times out before it is there never
arrives; a request the phone has given up is "closed"
until netty notices, and "lost" once an update has been written to it. `seen`, `newest` and `crossed` are history: whether a count was
lost on a dead connection or overtaken on its way (`vote` reads the count, the
broadcast comes later).

### Library
`crawl` is `dropTable`, `createTable`, `listFolder` and `insert` for each folder and
file, `commit`. Python 2's `sqlite3` runs `DROP` and `CREATE` outside a transaction,
so that others see the empty table; the first `INSERT` opens the transaction. A crawl
that raises abandons it (`abandoned`) until the connection is collected. Whatever is
refused because of a lock (a crawl while a server reads, for example) raises with
nothing changed, and is no step; so is the start of a server without a table, which
ends it. `transferData` copies row by row. `requestSong` is the speaker's download of
a song under its id. `crawl` is called with the folder that the user has chosen in the
window of the crawler: `Last[d]` is the last folder that `os.walk(d)` visits, and
`roots` is history, the folders that have been crawled. `past` is history: what each
folder has ever held. `Before` is
the order in which `os.walk` meets two files, `IsWalk` says that a list of songs has
what a walk through given listings finds, in that order, and `Whole` that it is the
walk from some folder that was crawled, through listings its folders have had.

### Altered definitions
A definition whose name is that of the one after it with an ending such as `Bug`,
`Silent`, `Skips` or `RowOnly` is an altered form of it, with a mistake
the code might contain. No specification uses these; each property is shown to fail
when its definition is replaced by one.

## 3. The runs

Passing runs:

| Run | Instance | Properties | Distinct states |
|---|---|---|---|
| `queue` | 2 types, 3 channels, 3 updates per type | the queue's properties, refinement of `UpdateMailbox` | 6 500 |
| `songs` | 3 songs (one too short), 1 user, 2 speakers, 1 rating, 1 transaction that fails | `TypeOK`, `OneActiveSong`, `NextSongIsAnother`, `NextSongWillBeChosen`, `TornIsNext`, `ChoiceIsFinal` | 1 900 000 |
| `speaker` | 3 songs (one missing), queues of 2, failing requests, restarts, fair threads | `TypeOK`, `SongIsOnItsWay`, `NextIsFetched` | 1 660 000 |
| `party` | 2 songs, undisturbed, fair | `MusicGoesOnInTime`, no deadlock | 298 000 |
| `party_faults` | 3 songs, 1 poll timeout, 1 restart | `SpeakerPlaysChosen`, `PlayingIsExpected`, `ReadyIsOnDisk`, `EndIsReported` | 3 320 000 |
| `party_skip` | 2 songs, 1 user, 1 rating or 1 transaction that fails | `SpeakerPlaysChosen`, `PlayingIsExpected`, `NotWedged`, `ReadyIsOnDisk`, `EndIsReported` | 2 250 000 |
| `sessions` | 3 threads, 2 sessions, 1 statement that throws, fair | `TypeOK`, `OwnSession`, `MapHasRow`, `OneGhostPerFailure`, `DestroyedStaysGone`, `RequestsEnd` | 153 000 |
| `phone` | 2 logins, 1 vote, 1 network failure, polls that time out, fair | `TypeOK`, `PollingIsReal`, `LoopsBounded`, `LoopsEnd`, `ShowsLatest` | 240 000 |
| `library` | 2 folders, one in the other, up to 2 files each, 1 change of a folder | `TypeOK`, `LoadIsWhole`, `CacheMatches` | 2 140 000 |

Runs that are expected to fail, each for a disagreement between the code and what
its comments or the protocol document say (quoted under `findings` in
`PROJECT.json`):

| Run | Shows |
|---|---|
| `find_choice_overridden` | a reminder that found no next song stores one over a choice made since |
| `find_stop_for_play` | a coalesced Stop swallows a Play; silence |
| `find_session_id` | a vote during `createSession` gives a new client somebody else's session |

What the passing properties leave to these runs, they say themselves:

* a reminder that is *overtaken* (`find_choice_overridden`) breaks what server and
  speaker know of each other: a chosen song is replaced, or the song that plays is
  announced as the next one. `NextSongIsAnother`, `TornIsNext` and everything said in
  the runs of `Party` is said for as long as none has been, with the reminder split
  wherever it can be suspended. `OneActiveSong`, `NextSongWillBeChosen` and
  `ChoiceIsFinal`, which names the reminder as the only exception, are said always;
* `OneActiveSong` says of a transaction that could be neither committed nor rolled
  back which song may be marked besides the active one;
* `OwnSession` leaves out the sessions in whose creation a rating fell and is
  about all others, before and after. `MapHasRow`, `OneGhostPerFailure` and
  `DestroyedStaysGone` are said until the first such rating: a wrong id makes the
  entry of one session stand for the row of another. A rollback may bring back the
  rows of destroyed sessions, which the last two except;
* `RequestsEnd` makes an exception for a rollback, and needs it: a rollback keeps the
  lock, and the next transaction of another thread waits for ever;
* `CacheMatches` is about folders nobody has changed, and crawls of one of them. The
  crawler drops the table whatever directory it was filled from and the server numbers
  songs from 1, so a crawl of another folder (the button of `GUI3.0.py`, line 97) gives
  old ids to other songs although no file has changed: without the condition on
  `roots` in `Unchanged` the run fails.

Other limits of the code appear when a constant of these configurations changes:

* in `MCParty.cfg` each of these makes the music stop for good, which TLC reports as
  a deadlock: `MaxTimeouts = 1` (a poll that times out takes an update with it),
  `Speaker = {p1, p2}` (a restarted speaker never plays again), `TooShort = {s2}` (a
  song under 20 seconds) and `Missing = {s2}` (a song whose file is gone);
* `DatabaseFails = TRUE` in `MCParty.cfg` stops the music as well: the server answers
  the Playing with an error and keeps the song as the next one, but the speaker does
  not look at the response (`raspi.py`, line 582), plays the song, and then ignores the
  announcements of the song it takes for played;
* `Marked` can hold two songs after a commit or a rollback that throws: the
  transaction stays open, the connection shows the next song as Playing and
  `activeSong` is still the old one, which the next Stopped marks too;
* a dislike that read the statistics of one song can skip the one that has begun
  since, which nobody dislikes (`dislike` reads before it enters the monitor);
* a second speaker, or a restarted one, can be told to play a song other than the
  one its Ready was compared with: the answer reads `nextSong` again.

### Bounds, and why they are enough
* Two songs let active and next differ; a third makes a choice, and lets a
  download outlive two announcements. One song is the degenerate library.
* `Song` in `songs` has one song that is too short and two that are not, so that a
  choice remains after the timer has refused one, or beside a song that was left half
  started. Two speakers are enough for one to interfere with the other's Ready.
* `MaxRatings = 1`: one dislike of one user is more than a quarter of the sessions, so
  one rating reaches a skip, also with stale statistics; a vote changes the choice.
* `DatabaseFails`, once: the fields are those of before, so that a second failure
  finds what the first has found; it could leave another song half started only if a
  reminder had replaced the next song in between.
* `MaxOrphans = 1`: a task becomes an orphan when the end-of-song task overwrites
  the field; a second one needs the same task to start twice.
* `MaxQueue`: the two queues hold an update and its repetition, or a message and
  what follows from it; a full queue only delays the thread that fills it. Three in
  `party`, two where timeouts, restarts, ratings or a failed transaction add states.
* `MaxEvents = 2`: pygame's queue drops what does not fit; two leftovers are one
  more than is needed to end two songs early.
* `MaxTimeouts = 1`, two speaker sessions (one restart): the safety properties are
  about one disturbance; the music already stops with one.
* `MaxUpdates = 3`: stored, replaced and handed out.
* `MaxSessions = 2`, three threads: two sessions can be confused, and a third thread
  can roll back, rate or destroy meanwhile. It takes one failure to lose a lock or to
  leave a row behind; what several do to the table is proved, for any number.
* `MaxLogins = 2`: what is left over from one login meets the next. `MaxVotes = 1`
  and `MaxFailures = 1` of the phone: a count and the one before it; one lost
  response. `MaxClosed = 1`: a second poll given up while netty still holds the first
  takes a minute without a sign of a closed connection.
* Two folders, the second in the first, two files each, three names of which two are
  songs: a walk that is cut off inside and between folders, and a crawl of a part.
  One change: a listing read before and one after it.

`PartyView` leaves `out` out of the state, since a step's `out` is put into the
mailbox by that step. Symmetry is used over songs, users, speakers and names of
files, never with liveness, and songs that are `Missing` or `TooShort` are not
exchanged with others. `NotOvertaken` stops the runs of `Party` where a reminder has
been overtaken: their invariants say nothing after it, and a behaviour that comes
there satisfies `MusicGoesOnInTime` by its second half. In `party_skip` a behaviour has
a rating or a failed transaction, not both (`RatingOrFailure`), and the user has joined
when the first song begins (`UsersAreThere`); users that join at any time are in `songs`.

### Fairness
Threads of the speaker that can go on do (the interpreter schedules them and no
lock is held forever), songs end, timers fire, a handler that has started is
finished, and netty notices closed connections. Nobody has to rate, no poll has to
time out and no speaker has to be restarted, so these have no fairness. Requests
of the communication thread succeed in `party`. In `speaker` they may fail, which
ends the thread for good: `NextIsFetched` promises nothing after that.

In `sessions` a thread that has begun a request goes on with it. Taking
`transactionLock` has strong fairness: a thread that waits for it is queued, so it
gets a lock that becomes free again and again. (A `ReentrantLock` that was not
created fair lets a thread that comes by take it first; with three threads that end
their requests this is no more than a delay.) In `phone` requests are handled and
answered, reading a count is followed by its broadcast, a poll that is not answered
is given up after 30 seconds, and polls that are sent again and again do not all get
lost on their way (strong fairness of `registerRequest`); users need not join, vote or
leave. `Library`
has no liveness: nobody has to crawl, start or download.

## 4. The proofs

All are for any library, any users and speakers, any bounds.

* `SessionUpdateQueueProofs`: types, `NobodyWaitsInVain`, `QueueListsMap`,
  `NewestKept`, `OnlyNewerWritten`, `NeverOvertaken`, and that the queue implements
  `UpdateMailbox`. The inductive invariant is the conjunction of the state
  properties with "nothing is handed out that was not queued". No part is inductive
  alone: that the type queue lists the map exactly is what makes a request get a
  stored update, and that nobody waits while one is stored is what makes a direct
  hand-out the newest.
* `SongManagerProofs`: types; `OneActiveSong` and `ChoiceIsFinal` in every behaviour;
  `NextSongIsAnother` and `TornIsNext`, which end when a reminder is overtaken; and
  `NextSongWillBeChosen` with at least three songs, as two may be marked after a
  transaction that could not be ended. The invariant `IInv` adds to types and
  `OneActiveSong` that before the first song nothing is scheduled
  (`NoSkipBeforeFirstSong`), that a reminder about to store or to tell holds a song
  (`ReminderHolds`) and that a song is half started only by a failure
  (`TornByFailure`). `NextSongWillBeChosen` needs a lemma about the query: in a finite
  library with an inactive song the order by votes and `last_played` has a first row.
* `RaspberryPiProofs`: types, for which a song that plays must have an id (the
  end of a song is reported under it), and `SongIsOnItsWay`, inductive relative
  to the types: a handler that names a new next song finds its file or queues a
  `need_song`, and a `need_song` leaves the queue only for the download. Types need
  one more fact since the dictionary of `playback_func` is shared: when it is in the
  queue it has been filled in (`SharedIsFilled`).

* `SessionManagerProofs`: types and mutual exclusion (`LockInv`: a thread between
  `startTransaction` and the end of its transaction owns the lock; `IdsFit`: rows to
  come are counted against the bound), hence `TransactionsApart`; and, as long as no
  transaction has been rolled back, the lock is free or held once by a thread that will
  release it (`LockIsUsed`). All of this holds whatever rates in between. `OwnSession`
  is proved about every session in whose creation no rating fell, also when other
  sessions have been spoiled by one: the row a thread inserts is the last one until it
  has read its id, and rows are numbered upwards. What relates map and table,
  `MapHasRow`, `DestroyedStaysGone` and `OneGhostPerFailure`, ends with the first
  rating between the `INSERT` of a session and the `SELECT` of its id, as the
  properties say (`interleaved # {} \/ SessionInv` is the invariant). The argument:
  row numbers only grow, and a rollback goes back to what is committed, so two
  creations never have the same row (`RowsApart`); an id a client knows was committed,
  so it is not given out again (`KnownCommitted`); the row of a session in the map, or
  about to be, is committed and survives every rollback (`RowsCommitted`). That nobody
  but the owner of the lock is in a transaction is what makes each of these hold across
  the statements of other threads.
* `ClientSessionProofs`: types, `PollingIsReal`, `LoopsBounded`. The invariant says
  that every poll loop is paid for: loops that are running and logins that will start
  one are together no more than the logins so far (`LoopsCounted`). Each completion
  block ends one loop and starts at most one.
* `LibraryProofs`: types, `LoadIsWhole`, `CacheMatches`, for any folders and whichever
  of them are crawled. While a crawl runs, its rows are what a walk from its folder,
  through listings each folder has had, finds up to this file (`SoFar`), the committed
  table is missing or empty, and a server that is loading has read the beginning of a
  table nobody can change. A kept file comes from such a walk through the folders as
  they are, as long as nobody changes them, and two walks from the same folder through
  the same listings are the same list; walks from two folders are not, so `CacheMatches`
  speaks of one. That lists are the same needs an induction over the list, which is
  done by the least position where the two differ.
* `PartyProofs`: `SpeakerPlaysChosen`, `PlayingIsExpected`, `ReadyIsOnDisk`,
  `EndIsReported` of server and speaker together, and `NotWedged` where pygame's event
  queue has room for an event (`MaxEvents > 0`). Lost updates, late ones, polls that
  time out, restarts, skips, missing files and transactions that fail are all in, and
  reminders that are suspended anywhere. What is said ends when a reminder is
  overtaken; `PartyInvariance` says the same of the inductive invariant
  (`overtaken \/ PartyInv`). `PartyInv` has three parts.
  `ServerInv` is the invariant of `SongManager` with `TornIsNext`, `NextSongIsAnother`
  and what a suspended handler of Ready knows (`HandlersInv`). `LinkInv` is about everything the
  server has said and the playback thread has not handled: its own queue, the
  response under way and the stored updates in a row (`Updates`). Each queue
  operation loses entries, replaces one by a newer one of its type or puts one last
  (`Follows`), so that the updates keep naming songs of now: what is about the next
  song comes after what is about the one before, and nothing older is left once the
  speaker knows the next song (`Fit`). Hence `next_song` is the server's or none. A
  `Play` of a song that the server will not start is never begun by the speaker.
  `SpeakerInv` is about the communication thread's queue: at most one `Playing` is
  under way and it names the next song (`PlayingOnce`); songs are fetched for the next
  song only and before its `Playing` (`FetchInv`); and the dictionary of
  `playback_func` is put into the queue again only after a `Playing` (`SharedInv`),
  which is why a `Stopped` in it is not written over while it is waited for.
  `EndIsReported` alone is not inductive: `StoppedFollows`, that after a `Playing` of
  a song that has stopped comes its `Stopped`, carries it over the step in which the
  server hears of the song.
* `PartyRefinement`: in every behaviour, also after a reminder has been overtaken, the
  server in `Party` is `SongManager` (`PartySpec => Spec`) and the speaker takes no step
  `RaspberryPi` does not have (`PartySpec => Pi!Spec`), so that what is proved of either
  holds in the composition. The first needs that whatever arrives names a song, which is
  a matter of types only (`PartyTypes`): the mailbox holds updates, whatever it loses or
  replaces.

Assumptions are those the modules state: `null` is not a song, the short and the
missing songs are songs, library and users are finite, bounds are numbers.

`NextSongIsAnother` covers the library with a single song as well: until a reminder is
overtaken, the song that plays is not announced as its own successor.

Only model-checked: all liveness (`MusicGoesOnInTime`, `NextIsFetched`, `RequestsEnd`,
`LoopsEnd`, `ShowsLatest`), and the findings. Liveness under fairness is outside what the
prover supports.

## 5. What is not modelled
* On phones: likes, the current song and album art, which come through the same poll
  and have no state of their own; the search and the views.
* JSON, HTTP routing, error codes, formatting.
* Orderly shutdown of the speaker (`keep_running`, deauthentication); the death of
  its update thread, which looks like a server that sends nothing more.
* Files that are written halfway or truncated; several speakers in `Party`.
* Statements of `SongManager` outside a transaction that throw `SQLException` (the query
  for the next song, the statements of ratings). The lock that a rollback keeps is
  modelled in `SessionManager`; in `SongManager`, with one thread at a time in
  `updateNextSong`, it is not.
* `registerRequest` finding no session after `validSession` found one: the request
  ends with an exception and nothing has changed.
* Service discovery, the pin check (a stub that accepts everything), the user
  interfaces, and the vendored code under `Crawler/Install Files`.

## 6. Plan
1. Shutdown of the speaker's threads (`keep_running`, deauthentication).
2. Files written in two steps, with crashes, in `RaspberryPi`.
3. `Party`'s mailbox shown to implement `SessionUpdateQueue`'s for one client.
4. Proofs: the refinement of 3.
