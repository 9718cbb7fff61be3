---------------------------- MODULE SongManager ----------------------------
(***************************************************************************)
(* SongManager.java: which song plays and which one is next.               *)
(*                                                                         *)
(* The state is spread over the tables of the in-memory database (status,  *)
(* votes, likes, last_played), two fields of the object (activeSong,       *)
(* nextSong) and a java.util.Timer with the task that songTimerTask refers *)
(* to. Request handlers run on several netty threads, timer tasks on the   *)
(* timer's own thread. A synchronized block is one action; what the code   *)
(* does outside the monitor (dislike up to its decision, the answer to     *)
(* Ready, the reminder task) is split where another thread can intervene.  *)
(*                                                                         *)
(* The transaction that starts a song may fail, once in a behaviour.       *)
(* Speakers and users may send any request at any time. Time is abstracted *)
(* away: a scheduled timer task may start in every state.                  *)
(***************************************************************************)
EXTENDS Integers, FiniteSets, Sequences

CONSTANTS
    Song,         \* the rows of the table songs
    TooShort,     \* the songs shorter than 20 seconds
    User,         \* sessions of phone clients
    Speaker,      \* sessions of speakers
    NoSong,       \* null
    DatabaseFails,\* may the transaction that starts a song fail, once?
    MaxRatings,   \* bound: votes, likes and dislikes in a behaviour
    MaxOrphans    \* bound: scheduled timer tasks no field refers to

ASSUME NoSongAssumption == NoSong \notin Song
ASSUME TooShortAssumption == TooShort \subseteq Song
ASSUME FiniteAssumption == IsFiniteSet(Song) /\ IsFiniteSet(User)
ASSUME BoundsAssumption ==
    DatabaseFails \in BOOLEAN /\ MaxRatings \in Nat /\ MaxOrphans \in Nat

VARIABLES
    status,          \* songs.status
    votes,           \* votes[u]: song_id of the row of session u, or NoSong
    likes,           \* likes[u][s]: the value of that row, 0 without a row
    lastPlayed,      \* songs.last_played as a rank: 0 never, larger is later
    activeSong,      \* the field activeSong, or NoSong
    nextSong,        \* the field nextSong, or NoSong
    songTimerTask,   \* the scheduled task the field refers to, or NoTask
    orphans,         \* orphans[k]: scheduled tasks no field refers to
    timerThread,     \* the task the timer thread has started, or NoTask
    picked,          \* the song the reminder has read
    overtaken,       \* history: has a reminder stored or told an outdated song?
    failed,          \* has a transaction failed?
    torn,            \* the song it was to start and left behind half started
    users,           \* user sessions (SessionManager.getSessionCount)
    speakers,        \* speaker sessions
    welcoming,       \* speaker sessions created but not yet told anything
    out,             \* out[p]: updates the last step queued for speaker session p
    readying,        \* readying[p]: the answer p's Ready is about to get
    disliking,       \* users whose dislike is stored and not yet counted
    deciding,        \* users whose dislike waits for the monitor
    stats,           \* stats[u]: dislikes - likes as that dislike read them
    ratings          \* votes, likes and dislikes so far

db       == <<status, votes, likes, lastPlayed>>
reminder == <<picked, overtaken>>
timer    == <<songTimerTask, orphans, timerThread, reminder>>
faults   == <<failed, torn>>
sessions == <<users, speakers, welcoming>>
handlers == <<readying, disliking, deciding, stats>>
vars     == <<db, activeSong, nextSong, timer, faults, sessions, out, handlers, ratings>>

Status   == {"Playing", "Stopped", "Inactive"}
TaskKind == {"endOfSong", "reminder", "stop"}
Reminder == {"reminderQuery", "reminderStore", "reminderTell"}   \* half way through it
NoTask   == "none"

Upcoming(s) == [type |-> "upcoming_song",    command |-> "none", song |-> s]
Play(s)     == [type |-> "playback_command", command |-> "Play", song |-> s]
Stop(s)     == [type |-> "playback_command", command |-> "Stop", song |-> s]

Update == UNION {{Upcoming(s), Play(s), Stop(s)} : s \in Song}

NotReady == "none"

Init ==
    /\ status = [s \in Song |-> "Inactive"]
    /\ votes  = [u \in User |-> NoSong]
    /\ likes  = [u \in User |-> [s \in Song |-> 0]]
    /\ lastPlayed = [s \in Song |-> 0]
    /\ activeSong = NoSong /\ nextSong = NoSong
    /\ songTimerTask = NoTask /\ timerThread = NoTask
    /\ orphans = [k \in TaskKind |-> 0] /\ picked = NoSong /\ overtaken = FALSE
    /\ failed = FALSE /\ torn = NoSong
    /\ users = {} /\ speakers = {} /\ welcoming = {}
    /\ out = [p \in Speaker |-> <<>>]
    /\ readying = [p \in Speaker |-> NotReady]
    /\ disliking = {} /\ deciding = {} /\ stats = [u \in User |-> 0]
    /\ ratings  = 0

-----------------------------------------------------------------------------
(***************************************************************************)
(* SessionManager.sendUpdate and broadcastUpdate: the updates a step gives *)
(* to the queues of speaker sessions. A session that is not there gets     *)
(* nothing.                                                                *)
(***************************************************************************)
Nothing == [p \in Speaker |-> <<>>]

sendUpdates(us, p)   == out' = [Nothing EXCEPT ![p] = us]
broadcastUpdates(us) == out' = [p \in Speaker |-> IF p \in speakers THEN us ELSE <<>>]

-----------------------------------------------------------------------------
(***************************************************************************)
(* Queries.                                                                *)
(***************************************************************************)
VoteCount(s) == Cardinality({u \in User : votes[u] = s})

(***************************************************************************)
(* Definitions named ...Bug are altered forms of the definition that       *)
(* follows them, with a mistake the code could contain. No specification   *)
(* uses them; they show that the properties can fail.                      *)
(***************************************************************************)
\* A song that was stopped is eligible.
getNextSongBug(st) ==
    {s \in Song : /\ st[s] # "Playing"
                  /\ \A r \in Song : st[r] # "Playing" => VoteCount(s) >= VoteCount(r)}

\* getNextSongFromDB, with the column status as st: inactive songs, most
\* votes first, then the one not played for the longest time; the choice
\* among equals is SQLite's. Empty: the call throws NoSuchElementException.
getNextSongFromDB(st) ==
    LET inactive == {s \in Song : st[s] = "Inactive"}
        voted == {s \in inactive : \A r \in inactive : VoteCount(s) >= VoteCount(r)}
    IN  {s \in voted : \A r \in voted : lastPlayed[s] <= lastPlayed[r]}

\* The songs getActiveSongFromDB finds.
Marked == {s \in Song : status[s] # "Inactive"}

\* getStats: dislikes minus likes, counted over the songs that are not Inactive.
getStats ==
    LET rows(v) == {r \in User \X Song : r[2] \in Marked /\ likes[r[1]][r[2]] = v}
    IN  Cardinality(rows(-1)) - Cardinality(rows(1))

\* last_played = datetime() for song s.
PlayedNow(s) ==
    [r \in Song |-> IF r = s THEN Cardinality(Song)
                    ELSE IF lastPlayed[r] > lastPlayed[s] THEN lastPlayed[r] - 1
                    ELSE lastPlayed[r]]

NoCandidate == getNextSongFromDB(status) = {}

\* scheduleNextSong: choose and announce a next song, unless one is chosen
\* already or there is none to choose.
scheduleNextSong ==
    IF nextSong # NoSong \/ NoCandidate
    THEN UNCHANGED nextSong /\ out' = Nothing
    ELSE \E s \in getNextSongFromDB(status) :
            nextSong' = s /\ broadcastUpdates(<<Upcoming(s)>>)

-----------------------------------------------------------------------------
(***************************************************************************)
(* Requests of speakers. A speaker's requests come one after the other.    *)
(***************************************************************************)
Connected(p) == p \in speakers \ welcoming /\ readying[p] = NotReady

\* SpeakerHandler.authenticate creates the session; broadcasts reach it now.
createSession(p) ==
    /\ p \notin speakers
    /\ speakers' = speakers \cup {p}
    /\ welcoming' = welcoming \cup {p}
    /\ out' = Nothing
    /\ UNCHANGED <<db, activeSong, nextSong, timer, faults, users, handlers, ratings>>

\* The synchronized rest of authenticate: the speaker is told to play the
\* active song, or the first song is scheduled (newSpeakerAuthenticated). A
\* song that is marked without being in the field makes getActiveSongFromDB
\* throw (it reads a column its query does not select).
authenticate(p) ==
    /\ p \in welcoming
    /\ welcoming' = welcoming \ {p}
    /\ \/ activeSong # NoSong /\ sendUpdates(<<Play(activeSong)>>, p) /\ UNCHANGED nextSong
       \/ activeSong = NoSong /\ Marked = {} /\ scheduleNextSong
       \/ activeSong = NoSong /\ Marked # {} /\ UNCHANGED nextSong /\ out' = Nothing
    /\ UNCHANGED <<db, activeSong, timer, faults, users, speakers, handlers, ratings>>

\* Otherwise it gets an error, and no id.
Welcomes == activeSong # NoSong \/ (Marked = {} /\ (nextSong # NoSong \/ ~NoCandidate))

\* SpeakerHandler.deauthenticate. A speaker that crashes never polls again;
\* it comes back as a new session.
deauthenticate(p) ==
    /\ Connected(p)
    /\ speakers' = speakers \ {p}
    /\ out' = Nothing
    /\ UNCHANGED <<db, activeSong, nextSong, timer, faults, users, welcoming, handlers, ratings>>

\* The song that ends keeps its status.
updateNextSongBug(n) ==
    /\ status' = [s \in Song |-> IF s = nextSong /\ n >= 4 THEN "Playing" ELSE status[s]]
    /\ votes' = [u \in User |-> IF votes[u] = nextSong /\ n >= 3 THEN NoSong ELSE votes[u]]
    /\ likes' = [u \in User |-> [s \in Song |-> IF s = activeSong /\ n >= 1 THEN 0 ELSE likes[u][s]]]
    /\ lastPlayed' = IF activeSong = NoSong \/ n < 2 THEN lastPlayed ELSE PlayedNow(activeSong)

\* The first n statements of updateNextSong: the likes of the song that ends
\* go, it is marked Inactive (removeCurrentSongFromDB), the votes for the song
\* that starts go, it is marked Playing (addCurrentSongToDB).
updateNextSong(n) ==
    /\ status' = [s \in Song |-> IF s = nextSong /\ n >= 4 THEN "Playing"
                                 ELSE IF s = activeSong /\ n >= 2 THEN "Inactive" ELSE status[s]]
    /\ votes' = [u \in User |-> IF votes[u] = nextSong /\ n >= 3 THEN NoSong ELSE votes[u]]
    /\ likes' = [u \in User |-> [s \in Song |-> IF s = activeSong /\ n >= 1 THEN 0 ELSE likes[u][s]]]
    /\ lastPlayed' = IF activeSong = NoSong \/ n < 2 THEN lastPlayed ELSE PlayedNow(activeSong)

\* The transaction succeeds, and the next song becomes the active one.
songBegins ==
    /\ updateNextSong(4)
    /\ activeSong' = nextSong /\ nextSong' = NoSong
    /\ torn' = IF torn = nextSong THEN NoSong ELSE torn
    /\ UNCHANGED failed

\* The field is reset although the song has not begun.
songDoesNotBeginBug ==
    /\ DatabaseFails /\ ~failed /\ failed' = TRUE
    /\ \/ UNCHANGED <<db, torn>>
       \/ \E n \in 1..4 : updateNextSong(n) /\ torn' = nextSong
    /\ nextSong' = NoSong /\ UNCHANGED activeSong

\* The transaction fails and updatePlayback goes no further. A statement throws
\* and all is rolled back; or the rollback throws too, or the commit does, and
\* the connection shows what the statements before have done.
songDoesNotBegin ==
    /\ DatabaseFails /\ ~failed /\ failed' = TRUE
    /\ \/ UNCHANGED <<db, torn>>
       \/ \E n \in 1..4 : updateNextSong(n) /\ torn' = nextSong
    /\ UNCHANGED <<activeSong, nextSong>>

\* The song has become the active one when Timer.schedule throws.
updatePlaybackBug ==
    /\ songTimerTask' = IF nextSong \in TooShort THEN NoTask ELSE "endOfSong"
    /\ songBegins \/ songDoesNotBegin

\* updatePlayback. For a song shorter than 20 seconds Timer.schedule throws,
\* after the old task was cancelled and before anything else has changed.
updatePlayback ==
    \/ /\ nextSong \in TooShort
       /\ songTimerTask' = NoTask
       /\ UNCHANGED <<db, activeSong, nextSong, faults>>
    \/ /\ nextSong \notin TooShort
       /\ songTimerTask' = "endOfSong"
       /\ songBegins \/ songDoesNotBegin

\* speakerStatusUpdate(Playing). With no next song it is a
\* NullPointerException and nothing changes; a speaker that plays neither
\* the next nor the active song is corrected; the active song is ignored.
statusPlaying(p, s) ==
    /\ Connected(p)
    /\ \/ nextSong # NoSong /\ s = nextSong /\ updatePlayback /\ out' = Nothing
       \/ /\ nextSong # NoSong /\ activeSong # NoSong
          /\ s \notin {nextSong, activeSong}
          /\ sendUpdates(<<Upcoming(activeSong), Stop(s)>>, p)
          /\ UNCHANGED <<db, activeSong, nextSong, songTimerTask, faults>>
       \/ /\ nextSong = NoSong \/ (s # nextSong /\ activeSong \in {NoSong, s})
          /\ out' = Nothing
          /\ UNCHANGED <<db, activeSong, nextSong, songTimerTask, faults>>
    /\ UNCHANGED <<orphans, timerThread, reminder, sessions, handlers, ratings>>

\* Every Stopped chooses a next song.
statusStoppedBug(p) ==
    /\ Connected(p)
    /\ activeSong # NoSong
    /\ status' = [status EXCEPT ![activeSong] = "Stopped"]
    /\ \/ \E s \in getNextSongFromDB(status') :
             nextSong' = s /\ sendUpdates(<<Upcoming(s)>>, p)
       \/ /\ getNextSongFromDB(status') = {}
          /\ UNCHANGED nextSong /\ out' = Nothing
    /\ UNCHANGED <<votes, likes, lastPlayed, activeSong, timer, faults, sessions, handlers, ratings>>

\* speakerStatusUpdate(Stopped). The active song is marked, whatever song the
\* message names; with no active song it is a NullPointerException.
statusStopped(p) ==
    /\ Connected(p)
    /\ \/ /\ activeSong # NoSong
          /\ status' = [status EXCEPT ![activeSong] = "Stopped"]
          /\ \/ /\ nextSong = NoSong
                /\ \E s \in getNextSongFromDB(status') :
                      nextSong' = s /\ sendUpdates(<<Upcoming(s)>>, p)
             \/ /\ nextSong # NoSong \/ getNextSongFromDB(status') = {}
                /\ UNCHANGED nextSong /\ out' = Nothing
       \/ /\ activeSong = NoSong
          /\ UNCHANGED <<status, nextSong>> /\ out' = Nothing
    /\ UNCHANGED <<votes, likes, lastPlayed, activeSong, timer, faults, sessions, handlers, ratings>>

\* speakerStatusUpdate(Ready) runs outside the monitor. It compares first,
\* which without a next song is a NullPointerException...
statusReady(p, s) ==
    /\ Connected(p)
    /\ \/ /\ nextSong # NoSong
          /\ readying' = [readying EXCEPT ![p] = IF s = nextSong THEN "play" ELSE "upcoming"]
       \/ nextSong = NoSong /\ UNCHANGED readying
    /\ out' = Nothing
    /\ UNCHANGED <<db, activeSong, nextSong, timer, faults, sessions, disliking, deciding,
                   stats, ratings>>

\* ... and reads nextSong again for the answer: null by now is a
\* NullPointerException.
answerReady(p) ==
    /\ readying[p] # NotReady
    /\ readying' = [readying EXCEPT ![p] = NotReady]
    /\ \/ nextSong = NoSong /\ out' = Nothing
       \/ /\ nextSong # NoSong
          /\ sendUpdates(<<IF readying[p] = "play" THEN Play(nextSong) ELSE Upcoming(nextSong)>>, p)
    /\ UNCHANGED <<db, activeSong, nextSong, timer, faults, sessions, disliking, deciding,
                   stats, ratings>>

-----------------------------------------------------------------------------
(***************************************************************************)
(* Requests of phone clients.                                              *)
(***************************************************************************)
\* A new user session; session ids are never used twice.
createUserSession(u) ==
    /\ u \notin users \cup disliking \cup deciding
    /\ votes[u] = NoSong /\ likes[u] = [s \in Song |-> 0]
    /\ users' = users \cup {u}
    /\ out' = Nothing
    /\ UNCHANGED <<db, activeSong, nextSong, timer, faults, speakers, welcoming, handlers, ratings>>

\* The session row goes, the votes and likes of the session stay.
destroyUserSession(u) ==
    /\ u \in users
    /\ users' = users \ {u}
    /\ out' = Nothing
    /\ UNCHANGED <<db, activeSong, nextSong, timer, faults, speakers, welcoming, handlers, ratings>>

Rate(u) == u \in users /\ ratings < MaxRatings /\ ratings' = ratings + 1

\* vote: one vote per session, the newest one.
vote(u, s) ==
    /\ Rate(u)
    /\ votes' = [votes EXCEPT ![u] = s]
    /\ out' = Nothing
    /\ UNCHANGED <<status, likes, lastPlayed, activeSong, nextSong, timer, faults, sessions, handlers>>

\* like: any song, playing or not.
like(u, s) ==
    /\ Rate(u)
    /\ likes' = [likes EXCEPT ![u][s] = 1]
    /\ out' = Nothing
    /\ UNCHANGED <<status, votes, lastPlayed, activeSong, nextSong, timer, faults, sessions, handlers>>

\* dislike, outside the monitor: store the row ...
dislike(u, s) ==
    /\ Rate(u) /\ u \notin disliking \cup deciding
    /\ likes' = [likes EXCEPT ![u][s] = -1]
    /\ disliking' = disliking \cup {u}
    /\ out' = Nothing
    /\ UNCHANGED <<status, votes, lastPlayed, activeSong, nextSong, timer, faults, sessions,
                   readying, deciding, stats>>

\* ... and read the statistics, which throws when there is no active song.
countDislikes(u) ==
    /\ u \in disliking
    /\ disliking' = disliking \ {u}
    /\ \/ activeSong = NoSong /\ UNCHANGED <<deciding, stats>>
       \/ /\ activeSong # NoSong
          /\ deciding' = deciding \cup {u}
          /\ stats' = [stats EXCEPT ![u] = getStats]
    /\ out' = Nothing
    /\ UNCHANGED <<db, activeSong, nextSong, timer, faults, sessions, readying, ratings>>

\* Do the dislikes outnumber the likes by more than a quarter of the
\* sessions? The quotient is a double, so without sessions it is infinite.
Hated(balance) == 4 * balance > Cardinality(users)

\* skipToNext: the end-of-song task is replaced by one that stops the song.
skipToNext ==
    IF NoCandidate
    THEN songTimerTask' = NoTask /\ UNCHANGED nextSong /\ out' = Nothing
    ELSE \E s \in getNextSongFromDB(status) :
            /\ nextSong' = s
            /\ broadcastUpdates(<<Upcoming(s), Upcoming(s)>>)
            /\ songTimerTask' = "stop"

\* The timer is cancelled before the decision.
decideSkipBug(u) ==
    /\ u \in deciding
    /\ deciding' = deciding \ {u}
    /\ stats' = [stats EXCEPT ![u] = 0]
    /\ \/ nextSong = NoSong /\ Hated(stats[u]) /\ skipToNext
       \/ /\ nextSong # NoSong \/ ~Hated(stats[u])
          /\ songTimerTask' = NoTask
          /\ UNCHANGED nextSong /\ out' = Nothing
    /\ UNCHANGED <<db, activeSong, orphans, timerThread, reminder, faults, sessions, readying, disliking, ratings>>

\* dislike, inside the monitor: decide on the statistics read before.
decideSkip(u) ==
    /\ u \in deciding
    /\ deciding' = deciding \ {u}
    /\ stats' = [stats EXCEPT ![u] = 0]
    /\ \/ nextSong = NoSong /\ Hated(stats[u]) /\ skipToNext
       \/ /\ nextSong # NoSong \/ ~Hated(stats[u])
          /\ UNCHANGED <<nextSong, songTimerTask>> /\ out' = Nothing
    /\ UNCHANGED <<db, activeSong, orphans, timerThread, reminder, faults, sessions, readying, disliking, ratings>>

-----------------------------------------------------------------------------
(***************************************************************************)
(* The timer thread. cancel() stops a task that is scheduled, not one that *)
(* has started and waits for the monitor.                                  *)
(***************************************************************************)
\* A task that runs is taken out of the queue twice.
startTaskBug(k) ==
    /\ timerThread = NoTask
    /\ timerThread' = k
    /\ songTimerTask = k \/ orphans[k] > 0
    /\ songTimerTask' = IF songTimerTask = k THEN NoTask ELSE songTimerTask
    /\ orphans' = [orphans EXCEPT ![k] = @ - 1]
    /\ out' = Nothing
    /\ UNCHANGED <<db, activeSong, nextSong, reminder, faults, sessions, handlers, ratings>>

startTask(k) ==
    /\ timerThread = NoTask
    /\ timerThread' = k
    /\ \/ songTimerTask = k /\ songTimerTask' = NoTask /\ UNCHANGED orphans
       \/ /\ orphans[k] > 0
          /\ orphans' = [orphans EXCEPT ![k] = @ - 1]
          /\ UNCHANGED songTimerTask
    /\ out' = Nothing
    /\ UNCHANGED <<db, activeSong, nextSong, reminder, faults, sessions, handlers, ratings>>

\* The task 20 seconds before the end of a song: choose the next song and
\* schedule a reminder. The field is overwritten whatever it refers to.
runEndOfSong ==
    /\ timerThread = "endOfSong"
    /\ timerThread' = NoTask
    /\ IF nextSong = NoSong /\ NoCandidate
       THEN UNCHANGED <<nextSong, songTimerTask, orphans>> /\ out' = Nothing
       ELSE /\ scheduleNextSong
            /\ songTimerTask' = "reminder"
            /\ \/ songTimerTask = NoTask /\ UNCHANGED orphans
               \/ /\ songTimerTask # NoTask /\ orphans[songTimerTask] < MaxOrphans
                  /\ orphans' = [orphans EXCEPT ![songTimerTask] = @ + 1]
    /\ UNCHANGED <<db, activeSong, reminder, faults, sessions, handlers, ratings>>

\* The reminder announces the next song again, choosing one when there is none.
\* It does not take the monitor. getNextSong looks at the field ...
runReminder ==
    /\ timerThread = "reminder"
    /\ picked' = nextSong
    /\ timerThread' = IF nextSong = NoSong THEN "reminderQuery" ELSE "reminderTell"
    /\ out' = Nothing
    /\ UNCHANGED <<db, activeSong, nextSong, songTimerTask, orphans, overtaken, faults, sessions,
                   handlers, ratings>>

\* ... asks the database, which throws when there is no choice ...
queryReminder ==
    /\ timerThread = "reminderQuery"
    /\ \/ picked' \in getNextSongFromDB(status) /\ timerThread' = "reminderStore"
       \/ NoCandidate /\ timerThread' = NoTask /\ UNCHANGED picked
    /\ out' = Nothing
    /\ UNCHANGED <<db, activeSong, nextSong, songTimerTask, orphans, overtaken, faults, sessions,
                   handlers, ratings>>

\* ... stores the song it got, whatever is there by now ...
storeReminder ==
    /\ timerThread = "reminderStore"
    /\ timerThread' = "reminderTell"
    /\ nextSong' = picked
    /\ overtaken' = (overtaken \/ nextSong \notin {NoSong, picked} \/ picked = activeSong)
    /\ out' = Nothing
    /\ UNCHANGED <<db, activeSong, songTimerTask, orphans, picked, faults, sessions, handlers, ratings>>

\* ... and the song is announced.
tellReminder ==
    /\ timerThread = "reminderTell"
    /\ timerThread' = NoTask
    /\ picked' = NoSong
    /\ overtaken' = (overtaken \/ nextSong # picked)
    /\ broadcastUpdates(<<Upcoming(picked)>>)
    /\ UNCHANGED <<db, activeSong, nextSong, songTimerTask, orphans, faults, sessions, handlers, ratings>>

\* The task of skipToNext: stop the song that is active now.
runStop ==
    /\ timerThread = "stop"
    /\ timerThread' = NoTask
    /\ broadcastUpdates(<<Stop(activeSong)>>)
    /\ UNCHANGED <<db, activeSong, nextSong, songTimerTask, orphans, reminder, faults, sessions,
                   handlers, ratings>>

-----------------------------------------------------------------------------
SpeakerRequest(p) ==
    \/ createSession(p) \/ authenticate(p) \/ deauthenticate(p)
    \/ statusStopped(p) \/ answerReady(p)
    \/ \E s \in Song : statusPlaying(p, s) \/ statusReady(p, s)

UserRequest(u) ==
    \/ createUserSession(u) \/ destroyUserSession(u)
    \/ countDislikes(u) \/ decideSkip(u)
    \/ \E s \in Song : vote(u, s) \/ like(u, s) \/ dislike(u, s)

TimerStep ==
    \/ \E k \in TaskKind : startTask(k)
    \/ runEndOfSong \/ runStop
    \/ runReminder \/ queryReminder \/ storeReminder \/ tellReminder

Next ==
    \/ \E p \in Speaker : SpeakerRequest(p)
    \/ \E u \in User : UserRequest(u)
    \/ TimerStep

Spec == Init /\ [][Next]_vars

-----------------------------------------------------------------------------
\* Every variable has the type of its column or field.
TypeOK ==
    /\ status \in [Song -> Status]
    /\ votes \in [User -> Song \cup {NoSong}]
    /\ likes \in [User -> [Song -> -1..1]]
    /\ lastPlayed \in [Song -> Nat]
    /\ activeSong \in Song \cup {NoSong}
    /\ nextSong \in Song \cup {NoSong}
    /\ songTimerTask \in TaskKind \cup {NoTask}
    /\ orphans \in [TaskKind -> Nat]
    /\ timerThread \in TaskKind \cup Reminder \cup {NoTask}
    /\ picked \in Song \cup {NoSong} /\ overtaken \in BOOLEAN
    /\ failed \in BOOLEAN /\ torn \in Song \cup {NoSong}
    /\ users \subseteq User /\ disliking \subseteq User /\ deciding \subseteq User
    /\ speakers \subseteq Speaker /\ welcoming \subseteq speakers
    /\ out \in [Speaker -> Seq(Update)]
    /\ readying \in [Speaker -> {"play", "upcoming", NotReady}]
    /\ stats \in [User -> Int]
    /\ ratings \in Nat

\* The table and the field agree: the active song is the only one that is not
\* Inactive ("Duplicate active songs", which getActiveSongFromDB says should
\* never happen), also after a transaction that failed and was rolled back.
\* After one that could be neither committed nor rolled back, at most the
\* song it was to start is marked besides, until that song has begun.
OneActiveSong ==
    IF torn = NoSong THEN Marked = {activeSong} \ {NoSong}
    ELSE Marked \subseteq {activeSong, torn}

\* The next song is never the one that is playing, so that a speaker told
\* about it has something to do when the song ends (getNextSong), as long as
\* no reminder has been overtaken by the song it chose or by another choice.
NextSongIsAnother == ~overtaken /\ nextSong # NoSong => nextSong # activeSong

\* The server never forgets to choose a next song: as long as none is chosen
\* for the song that plays, the task that chooses it is scheduled or running,
\* through skips, cancelled tasks, overwritten task references and
\* transactions that fail.
NextSongWillBeChosen ==
    activeSong # NoSong /\ nextSong = NoSong =>
       \/ songTimerTask = "endOfSong" \/ orphans["endOfSong"] > 0
       \/ timerThread \in {"endOfSong", "reminderQuery", "reminderStore"}

\* A chosen song is played or stays chosen: no skip, no Stopped, no new
\* speaker and no transaction that fails puts another one in its place. Only
\* a reminder does that had found none when it looked.
ChoiceIsFinal ==
    [][nextSong # NoSong /\ nextSong' # nextSong =>
          \/ nextSong' = NoSong /\ activeSong' = nextSong
          \/ timerThread = "reminderStore" /\ nextSong' = picked]_vars

\* "Next song already selected, not overriding": a song that was selected is
\* the next one until it begins.
NeverOverridden == [][nextSong # NoSong /\ nextSong' # nextSong => nextSong' = NoSong]_vars

\* A song that could not be started is not lost: it is still the next one, and
\* so the transaction is tried again when a speaker plays it, as long as no
\* reminder has been overtaken.
TornIsNext == ~overtaken /\ torn # NoSong => nextSong = torn
=============================================================================
