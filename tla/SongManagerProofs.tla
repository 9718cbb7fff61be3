------------------------- MODULE SongManagerProofs -------------------------
(***************************************************************************)
(* Proofs about SongManager for any library, any number of users and       *)
(* speakers and any number of ratings.                                     *)
(***************************************************************************)
EXTENDS SongManager, FiniteSetTheorems, TLAPS

-----------------------------------------------------------------------------
(***************************************************************************)
(* The query for the next song.                                            *)
(***************************************************************************)
\* A song the query returns is a song that is Inactive.
LEMMA NextSongType ==
    ASSUME NEW st, NEW s \in getNextSongFromDB(st)
    PROVE  s \in Song /\ st[s] = "Inactive"
BY DEF getNextSongFromDB

\* Among the elements of a set there is one for which f is least.
LEMMA LeastExists ==
    ASSUME NEW S, S # {}, NEW f, \A x \in S : f[x] \in Nat
    PROVE  \E x \in S : \A y \in S : f[x] <= f[y]
<1> DEFINE T == {f[x] : x \in S}
<1>1. T \subseteq Nat /\ T # {}
  OBVIOUS
<1>2. PICK m \in T : \A n \in T : ~(<<n, m>> \in OpToRel(<, Nat))
  <2> HIDE DEF T
  <2> QED BY <1>1, NatLessThanWellFounded, WFMin, Zenon
<1>3. ASSUME NEW n \in T PROVE m <= n
  <2>1. m \in Nat /\ n \in Nat
    BY <1>1
  <2>2. CASE n < m
    <3>1. <<n, m>> \in OpToRel(<, Nat)
      BY <2>1, <2>2 DEF OpToRel
    <3> QED BY <1>2, <3>1
  <2> QED BY <2>1, <2>2
<1>4. PICK x \in S : m = f[x]
  OBVIOUS
<1> QED BY <1>3, <1>4

\* The number of votes is a number between 0 and the number of users.
LEMMA VoteCountType ==
    ASSUME NEW s
    PROVE  VoteCount(s) \in Nat /\ VoteCount(s) <= Cardinality(User) /\ Cardinality(User) \in Nat
<1>1. IsFiniteSet(User) /\ {u \in User : votes[u] = s} \subseteq User
  BY FiniteAssumption
<1>2. /\ IsFiniteSet({u \in User : votes[u] = s})
      /\ Cardinality({u \in User : votes[u] = s}) <= Cardinality(User)
  BY <1>1, FS_Subset
<1> QED BY <1>1, <1>2, FS_CardinalityType DEF VoteCount

\* If any song is Inactive the query returns a song: the order by votes and
\* last_played always has a first row.
LEMMA NextSongExists ==
    ASSUME lastPlayed \in [Song -> Nat],
           NEW st, NEW r \in Song, st[r] = "Inactive"
    PROVE  getNextSongFromDB(st) # {}
<1> DEFINE inactive == {s \in Song : st[s] = "Inactive"}
           voted == {s \in inactive : \A q \in inactive : VoteCount(s) >= VoteCount(q)}
           missing == [s \in Song |-> Cardinality(User) - VoteCount(s)]
<1>1. inactive # {} /\ \A s \in inactive : missing[s] \in Nat
  BY VoteCountType
<1>2. \E s \in inactive : \A q \in inactive : missing[s] <= missing[q]
  <2> HIDE DEF inactive, missing
  <2> QED BY <1>1, LeastExists
<1>3. voted # {}
  <2>1. PICK s \in inactive : \A q \in inactive : missing[s] <= missing[q]
    BY <1>2
  <2>2. ASSUME NEW q \in inactive PROVE VoteCount(s) >= VoteCount(q)
    BY <2>1, VoteCountType
  <2> QED BY <2>2
<1>4. \A s \in voted : lastPlayed[s] \in Nat
  OBVIOUS
<1>5. \E s \in voted : \A q \in voted : lastPlayed[s] <= lastPlayed[q]
  <2> HIDE DEF voted
  <2> QED BY <1>3, <1>4, LeastExists
<1> QED BY <1>5 DEF getNextSongFromDB

-----------------------------------------------------------------------------
(***************************************************************************)
(* Type correctness, one lemma per group of actions.                       *)
(***************************************************************************)
LEMMA UpdateType ==
    ASSUME NEW s \in Song
    PROVE  Upcoming(s) \in Update /\ Play(s) \in Update /\ Stop(s) \in Update
BY DEF Upcoming, Play, Stop, Update

\* What a step queues for speakers is a sequence of updates.
LEMMA OutType ==
    /\ Nothing \in [Speaker -> Seq(Update)]
    /\ \A us \in Seq(Update) : broadcastUpdates(us) => out' \in [Speaker -> Seq(Update)]
    /\ \A us \in Seq(Update) : \A p \in Speaker :
          sendUpdates(us, p) => out' \in [Speaker -> Seq(Update)]
<1>1. << >> \in Seq(Update)
  OBVIOUS
<1> HIDE DEF Update
<1>2. Nothing \in [Speaker -> Seq(Update)]
  BY <1>1 DEF Nothing
<1>3. ASSUME NEW us \in Seq(Update), broadcastUpdates(us)
      PROVE  out' \in [Speaker -> Seq(Update)]
  BY <1>1, <1>3 DEF broadcastUpdates
<1>4. ASSUME NEW us \in Seq(Update), NEW p \in Speaker, sendUpdates(us, p)
      PROVE  out' \in [Speaker -> Seq(Update)]
  BY <1>2, <1>4 DEF sendUpdates
<1> QED BY <1>2, <1>3, <1>4

\* Choosing and announcing a next song.
LEMMA ScheduleType ==
    ASSUME nextSong \in Song \cup {NoSong}, scheduleNextSong
    PROVE  /\ nextSong' \in Song \cup {NoSong}
           /\ out' \in [Speaker -> Seq(Update)]
           /\ nextSong' # nextSong => nextSong = NoSong /\ nextSong' \in getNextSongFromDB(status)
           /\ nextSong' = NoSong => nextSong = NoSong /\ NoCandidate
<1>1. CASE nextSong # NoSong \/ NoCandidate
  <2>1. nextSong' = nextSong /\ out' = Nothing
    BY <1>1 DEF scheduleNextSong
  <2> QED BY <1>1, <2>1, OutType
<1>2. CASE ~(nextSong # NoSong \/ NoCandidate)
  <2>1. PICK s \in getNextSongFromDB(status) :
           nextSong' = s /\ broadcastUpdates(<<Upcoming(s)>>)
    BY <1>2 DEF scheduleNextSong
  <2>2. s \in Song
    BY NextSongType
  <2>3. <<Upcoming(s)>> \in Seq(Update)
    BY <2>2, UpdateType
  <2> QED BY <1>2, <2>1, <2>2, <2>3, OutType, NoSongAssumption
<1> QED BY <1>1, <1>2

\* The statements of updateNextSong, all or some of them.
LEMMA UpdateNextSongType ==
    ASSUME TypeOK, NEW n \in 1..4, updateNextSong(n)
    PROVE  status' \in [Song -> Status] /\ votes' \in [User -> Song \cup {NoSong}]
           /\ likes' \in [User -> [Song -> -1..1]] /\ lastPlayed' \in [Song -> Nat]
<1>1. status' \in [Song -> Status] /\ votes' \in [User -> Song \cup {NoSong}]
  BY DEF updateNextSong, TypeOK, Status
<1>2. likes' \in [User -> [Song -> -1..1]]
  BY DEF updateNextSong, TypeOK
<1>3. lastPlayed' \in [Song -> Nat]
  <2>1. CASE activeSong = NoSong \/ n < 2
    BY <2>1 DEF updateNextSong, TypeOK
  <2>2. CASE ~(activeSong = NoSong \/ n < 2)
    <3>1. activeSong \in Song /\ lastPlayed' = PlayedNow(activeSong)
      BY <2>2 DEF updateNextSong, TypeOK
    <3>2. Cardinality(Song) \in Nat
      BY FiniteAssumption, FS_CardinalityType
    <3> QED BY <3>1, <3>2 DEF PlayedNow, TypeOK
  <2> QED BY <2>1, <2>2
<1> QED BY <1>1, <1>2, <1>3

\* The requests of speakers keep the types.
LEMMA SpeakerRequestType ==
    ASSUME TypeOK, NEW p \in Speaker, SpeakerRequest(p)
    PROVE  TypeOK'
<1> USE DEF db, timer, reminder, faults, sessions, handlers
<1>1. CASE createSession(p)
  BY <1>1, OutType DEF createSession, TypeOK
<1>2. CASE authenticate(p)
  <2>1. nextSong' \in Song \cup {NoSong} /\ out' \in [Speaker -> Seq(Update)]
    <3>1. CASE activeSong # NoSong
      <4>1. activeSong \in Song /\ nextSong' = nextSong /\ sendUpdates(<<Play(activeSong)>>, p)
        BY <1>2, <3>1 DEF authenticate, TypeOK
      <4>2. <<Play(activeSong)>> \in Seq(Update)
        BY <4>1, UpdateType
      <4> QED BY <4>1, <4>2, OutType DEF TypeOK
    <3>2. CASE UNCHANGED nextSong /\ out' = Nothing
      BY <3>2, OutType DEF TypeOK
    <3>3. CASE scheduleNextSong
      BY <3>3, ScheduleType DEF TypeOK
    <3> QED BY <1>2, <3>1, <3>2, <3>3 DEF authenticate
  <2> QED BY <1>2, <2>1 DEF authenticate, TypeOK
<1>3. CASE deauthenticate(p)
  BY <1>3, OutType DEF deauthenticate, Connected, TypeOK
<1>4. ASSUME NEW s \in Song, statusPlaying(p, s) PROVE TypeOK'
  <2>1. CASE s = nextSong /\ updatePlayback /\ out' = Nothing
    <3>1. CASE nextSong \in TooShort
      BY <1>4, <2>1, <3>1, OutType DEF statusPlaying, updatePlayback, TypeOK
    <3>2. CASE nextSong \notin TooShort
      <4>1. /\ songBegins \/ songDoesNotBegin
            /\ songTimerTask' = "endOfSong"
        BY <2>1, <3>2 DEF updatePlayback
      <4>2. status' \in [Song -> Status] /\ votes' \in [User -> Song \cup {NoSong}]
            /\ likes' \in [User -> [Song -> -1..1]] /\ lastPlayed' \in [Song -> Nat]
        <5>1. ASSUME NEW n \in 1..4, updateNextSong(n)
              PROVE  status' \in [Song -> Status] /\ votes' \in [User -> Song \cup {NoSong}]
                     /\ likes' \in [User -> [Song -> -1..1]] /\ lastPlayed' \in [Song -> Nat]
          BY <5>1, UpdateNextSongType
        <5> QED BY <4>1, <5>1 DEF songBegins, songDoesNotBegin, TypeOK
      <4>3. /\ activeSong' \in Song \cup {NoSong} /\ nextSong' \in Song \cup {NoSong}
            /\ failed' \in BOOLEAN /\ torn' \in Song \cup {NoSong}
        BY <4>1 DEF songBegins, songDoesNotBegin, TypeOK
      <4> QED BY <1>4, <2>1, <4>1, <4>2, <4>3, OutType DEF statusPlaying, TypeOK, TaskKind
    <3> QED BY <3>1, <3>2
  <2>2. CASE /\ activeSong # NoSong
             /\ sendUpdates(<<Upcoming(activeSong), Stop(s)>>, p)
             /\ UNCHANGED <<db, activeSong, nextSong, songTimerTask, faults>>
    <3>1. <<Upcoming(activeSong), Stop(s)>> \in Seq(Update)
      BY <2>2, UpdateType DEF TypeOK
    <3>2. out' \in [Speaker -> Seq(Update)]
      BY <2>2, <3>1, OutType
    <3> QED BY <1>4, <2>2, <3>2 DEF statusPlaying, TypeOK
  <2>3. CASE out' = Nothing /\ UNCHANGED <<db, activeSong, nextSong, songTimerTask, faults>>
    BY <1>4, <2>3, OutType DEF statusPlaying, TypeOK
  <2> QED BY <1>4, <2>1, <2>2, <2>3 DEF statusPlaying
<1>5. CASE statusStopped(p)
  <2>1. nextSong' \in Song \cup {NoSong} /\ out' \in [Speaker -> Seq(Update)]
    <3>1. CASE UNCHANGED nextSong /\ out' = Nothing
      BY <3>1, OutType DEF TypeOK
    <3>2. ASSUME NEW s \in getNextSongFromDB(status'),
                 nextSong' = s /\ sendUpdates(<<Upcoming(s)>>, p)
          PROVE  nextSong' \in Song \cup {NoSong} /\ out' \in [Speaker -> Seq(Update)]
      <4>1. s \in Song
        BY NextSongType
      <4>2. <<Upcoming(s)>> \in Seq(Update)
        BY <4>1, UpdateType
      <4> QED BY <3>2, <4>1, <4>2, OutType
    <3> QED BY <1>5, <3>1, <3>2 DEF statusStopped
  <2> QED BY <1>5, <2>1 DEF statusStopped, TypeOK, Status
<1>6. ASSUME NEW s \in Song, statusReady(p, s) PROVE TypeOK'
  <2>1. readying' \in [Speaker -> {"play", "upcoming", NotReady}]
    <3>1. CASE nextSong # NoSong
      <4>1. PICK a \in {"play", "upcoming"} :
               readying' = [readying EXCEPT ![p] = a]
        BY <1>6, <3>1 DEF statusReady
      <4> QED BY <4>1 DEF TypeOK
    <3>2. CASE nextSong = NoSong
      BY <1>6, <3>2 DEF statusReady, TypeOK
    <3> QED BY <3>1, <3>2
  <2>2. UNCHANGED <<db, activeSong, nextSong, timer, faults, sessions, disliking, deciding, stats, ratings>>
    BY <1>6 DEF statusReady
  <2>3. out' \in [Speaker -> Seq(Update)]
    BY <1>6, OutType DEF statusReady
  <2> QED BY <2>1, <2>2, <2>3 DEF TypeOK
<1>7. CASE answerReady(p)
  <2>1. out' \in [Speaker -> Seq(Update)]
    <3>1. CASE nextSong = NoSong
      BY <1>7, <3>1, OutType DEF answerReady
    <3>2. CASE nextSong # NoSong
      <4>1. nextSong \in Song
        BY <3>2 DEF TypeOK
      <4>2. PICK u \in {Play(nextSong), Upcoming(nextSong)} : sendUpdates(<<u>>, p)
        BY <1>7, <3>2 DEF answerReady
      <4>3. <<u>> \in Seq(Update)
        BY <4>1, UpdateType
      <4> QED BY <4>2, <4>3, OutType
    <3> QED BY <3>1, <3>2
  <2> QED BY <1>7, <2>1 DEF answerReady, TypeOK
<1> QED BY <1>1, <1>2, <1>3, <1>4, <1>5, <1>6, <1>7 DEF SpeakerRequest

\* The balance of likes and dislikes is a number.
LEMMA StatsType ==
    getStats \in Int
<1> DEFINE rows(v) == {r \in User \X Song : r[2] \in Marked /\ likes[r[1]][r[2]] = v}
<1>1. IsFiniteSet(User \X Song)
  BY FiniteAssumption, FS_Product
<1>2. ASSUME NEW v PROVE Cardinality(rows(v)) \in Nat
  <2>1. rows(v) \subseteq User \X Song
    OBVIOUS
  <2>2. IsFiniteSet(rows(v))
    BY <1>1, <2>1, FS_Subset
  <2> QED BY <2>2, FS_CardinalityType
<1>3. Cardinality(rows(-1)) \in Nat /\ Cardinality(rows(1)) \in Nat
  BY <1>2
<1> QED BY <1>3 DEF getStats

\* skipToNext replaces the scheduled task and chooses, if there is a choice.
LEMMA SkipType ==
    ASSUME nextSong = NoSong, skipToNext
    PROVE  /\ out' \in [Speaker -> Seq(Update)]
           /\ songTimerTask' \in {"stop", NoTask}
           /\ \/ nextSong' \in getNextSongFromDB(status)
              \/ nextSong' = NoSong /\ NoCandidate
<1>1. CASE NoCandidate /\ songTimerTask' = NoTask /\ nextSong' = nextSong /\ out' = Nothing
  BY <1>1, OutType
<1>2. ASSUME NEW s \in getNextSongFromDB(status), nextSong' = s,
             broadcastUpdates(<<Upcoming(s), Upcoming(s)>>), songTimerTask' = "stop"
      PROVE  out' \in [Speaker -> Seq(Update)]
  <2>1. s \in Song
    BY NextSongType
  <2>2. <<Upcoming(s), Upcoming(s)>> \in Seq(Update)
    BY <2>1, UpdateType
  <2> QED BY <1>2, <2>2, OutType
<1> QED BY <1>1, <1>2 DEF skipToNext

\* The requests of phone clients keep the types.
LEMMA UserRequestType ==
    ASSUME TypeOK, NEW u \in User, UserRequest(u)
    PROVE  TypeOK'
<1> USE DEF db, timer, reminder, faults, sessions, handlers
<1>1. CASE createUserSession(u)
  BY <1>1, OutType DEF createUserSession, TypeOK
<1>2. CASE destroyUserSession(u)
  BY <1>2, OutType DEF destroyUserSession, TypeOK
<1>3. CASE decideSkip(u)
  <2>1. /\ nextSong' \in Song \cup {NoSong} /\ out' \in [Speaker -> Seq(Update)]
        /\ songTimerTask' \in TaskKind \cup {NoTask}
    <3>1. CASE UNCHANGED <<nextSong, songTimerTask>> /\ out' = Nothing
      BY <3>1, OutType DEF TypeOK
    <3>2. CASE nextSong = NoSong /\ skipToNext
      BY <3>2, SkipType, NextSongType DEF TaskKind
    <3> QED BY <1>3, <3>1, <3>2 DEF decideSkip
  <2> QED BY <1>3, <2>1 DEF decideSkip, TypeOK
<1>4. ASSUME NEW s \in Song, vote(u, s) PROVE TypeOK'
  BY <1>4, OutType DEF vote, Rate, TypeOK
<1>5. ASSUME NEW s \in Song, like(u, s) PROVE TypeOK'
  BY <1>5, OutType DEF like, Rate, TypeOK
<1>6. ASSUME NEW s \in Song, dislike(u, s) PROVE TypeOK'
  BY <1>6, OutType DEF dislike, Rate, TypeOK
<1>7. CASE countDislikes(u)
  <2>1. stats' \in [User -> Int] /\ deciding' \subseteq User
    BY <1>7, StatsType DEF countDislikes, TypeOK
  <2> QED BY <1>7, <2>1, OutType DEF countDislikes, TypeOK
<1> QED BY <1>1, <1>2, <1>3, <1>4, <1>5, <1>6, <1>7 DEF UserRequest

\* The timer thread keeps the types.
LEMMA TimerStepType ==
    ASSUME TypeOK, timerThread = "stop" => activeSong # NoSong,
           timerThread \in {"reminderStore", "reminderTell"} => picked # NoSong, TimerStep
    PROVE  TypeOK'
<1> USE DEF db, timer, reminder, faults, sessions, handlers
<1>1. ASSUME NEW k \in TaskKind, startTask(k) PROVE TypeOK'
  BY <1>1, OutType DEF startTask, TypeOK
<1>2. CASE runEndOfSong
  <2>1. nextSong' \in Song \cup {NoSong} /\ out' \in [Speaker -> Seq(Update)]
    BY <1>2, OutType, ScheduleType DEF runEndOfSong, TypeOK
  <2>2. orphans' \in [TaskKind -> Nat] /\ songTimerTask' \in TaskKind \cup {NoTask}
    <3>1. CASE UNCHANGED <<songTimerTask, orphans>>
      BY <3>1 DEF TypeOK
    <3>2. CASE songTimerTask' = "reminder" /\ UNCHANGED orphans
      BY <3>2 DEF TypeOK, TaskKind
    <3>3. CASE /\ songTimerTask' = "reminder" /\ songTimerTask # NoTask
               /\ orphans' = [orphans EXCEPT ![songTimerTask] = @ + 1]
      <4>1. songTimerTask \in TaskKind
        BY <3>3 DEF TypeOK
      <4>2. orphans[songTimerTask] + 1 \in Nat
        BY <4>1 DEF TypeOK
      <4>3. orphans' \in [TaskKind -> Nat]
        BY <3>3, <4>2 DEF TypeOK
      <4> QED BY <3>3, <4>3 DEF TaskKind
    <3> QED BY <1>2, <3>1, <3>2, <3>3 DEF runEndOfSong
  <2> QED BY <1>2, <2>1, <2>2 DEF runEndOfSong, TypeOK
<1>3. CASE runReminder
  BY <1>3, OutType DEF runReminder, TypeOK, Reminder
<1>4. CASE queryReminder
  BY <1>4, OutType, NextSongType DEF queryReminder, TypeOK, Reminder
<1>5. CASE storeReminder
  BY <1>5, OutType DEF storeReminder, TypeOK, Reminder
<1>6. CASE tellReminder
  <2>1. picked \in Song
    BY <1>6 DEF tellReminder, TypeOK
  <2>2. <<Upcoming(picked)>> \in Seq(Update)
    BY <2>1, UpdateType
  <2>3. out' \in [Speaker -> Seq(Update)]
    BY <1>6, <2>2, OutType DEF tellReminder
  <2> QED BY <1>6, <2>3 DEF tellReminder, TypeOK
<1>7. CASE runStop
  <2>1. activeSong \in Song
    BY <1>7 DEF runStop, TypeOK
  <2>2. <<Stop(activeSong)>> \in Seq(Update)
    BY <2>1, UpdateType
  <2>3. out' \in [Speaker -> Seq(Update)]
    BY <1>7, <2>2, OutType DEF runStop
  <2> QED BY <1>7, <2>3 DEF runStop, TypeOK
<1> QED BY <1>1, <1>2, <1>3, <1>4, <1>5, <1>6, <1>7 DEF TimerStep

-----------------------------------------------------------------------------
(***************************************************************************)
(* The inductive invariant. Besides the types and OneActiveSong it says    *)
(* where the task of a skip comes from: before the first song has begun    *)
(* there is none, and no dislike waits for a decision; that the reminder   *)
(* holds a song when it stores or tells one; and that a song is left half  *)
(* started only by a transaction that has failed.                          *)
(***************************************************************************)
NoSkipBeforeFirstSong ==
    activeSong = NoSong =>
       songTimerTask # "stop" /\ timerThread # "stop" /\ orphans["stop"] = 0 /\ deciding = {}

ReminderHolds == timerThread \in {"reminderStore", "reminderTell"} => picked # NoSong

TornByFailure == torn # NoSong => failed

IInv == TypeOK /\ OneActiveSong /\ NoSkipBeforeFirstSong /\ ReminderHolds /\ TornByFailure

LEMMA InitInv == Init => IInv
<1> SUFFICES ASSUME Init PROVE IInv
  OBVIOUS
<1>1. out \in [Speaker -> Seq(Update)]
  BY OutType DEF Init, Nothing
<1>2. TypeOK
  <2>1. /\ status \in [Song -> Status] /\ votes \in [User -> Song \cup {NoSong}]
        /\ likes \in [User -> [Song -> -1..1]] /\ lastPlayed \in [Song -> Nat]
    BY DEF Init, Status
  <2>2. /\ orphans \in [TaskKind -> Nat] /\ stats \in [User -> Int]
        /\ readying \in [Speaker -> {"play", "upcoming", NotReady}]
    BY DEF Init
  <2> QED BY <1>1, <2>1, <2>2 DEF Init, TypeOK
<1> QED BY <1>2, NoSongAssumption DEF Init, IInv, OneActiveSong, Marked, NoSkipBeforeFirstSong,
                                      ReminderHolds, TornByFailure, NoTask, TaskKind

\* What a step may do to the song that is active and to the column status.
LEMMA StatusSteps ==
    ASSUME TypeOK, [Next]_vars
    PROVE  \/ UNCHANGED <<status, activeSong, torn, failed>>
           \/ /\ activeSong # NoSong /\ UNCHANGED <<activeSong, torn, failed>>
              /\ status' = [status EXCEPT ![activeSong] = "Stopped"]
           \/ /\ nextSong # NoSong /\ nextSong \notin TooShort /\ songTimerTask' = "endOfSong"
              /\ songBegins \/ songDoesNotBegin
<1> USE DEF db, faults
<1>1. CASE UNCHANGED vars
  BY <1>1 DEF vars
<1>2. ASSUME NEW p \in Speaker, SpeakerRequest(p)
      PROVE  \/ UNCHANGED <<status, activeSong, torn, failed>>
             \/ statusStopped(p)
             \/ \E s \in Song : statusPlaying(p, s)
  BY <1>2 DEF SpeakerRequest, createSession, authenticate, deauthenticate, statusReady, answerReady
<1>3. ASSUME NEW u \in User, UserRequest(u) PROVE UNCHANGED <<status, activeSong, torn, failed>>
  BY <1>3 DEF UserRequest, createUserSession, destroyUserSession, countDislikes, decideSkip,
              vote, like, dislike
<1>4. CASE TimerStep
  BY <1>4 DEF TimerStep, startTask, runEndOfSong, runReminder, queryReminder, storeReminder,
              tellReminder, runStop
<1>5. ASSUME NEW p \in Speaker, statusStopped(p)
      PROVE  \/ UNCHANGED <<status, activeSong, torn, failed>>
             \/ /\ activeSong # NoSong /\ UNCHANGED <<activeSong, torn, failed>>
                /\ status' = [status EXCEPT ![activeSong] = "Stopped"]
  BY <1>5 DEF statusStopped
<1>6. ASSUME NEW p \in Speaker, NEW s \in Song, statusPlaying(p, s)
      PROVE  \/ UNCHANGED <<status, activeSong, torn, failed>>
             \/ /\ nextSong # NoSong /\ nextSong \notin TooShort /\ songTimerTask' = "endOfSong"
                /\ songBegins \/ songDoesNotBegin
  BY <1>6 DEF statusPlaying, updatePlayback
<1> QED BY <1>1, <1>2, <1>3, <1>4, <1>5, <1>6 DEF Next

\* The status of the songs after the first n statements of updateNextSong.
LEMMA UpdateNextSongStatus ==
    ASSUME TypeOK, nextSong # NoSong, NEW n \in 1..4, updateNextSong(n)
    PROVE  /\ \A s \in Song \ {activeSong, nextSong} : status'[s] = status[s]
           /\ n = 4 => Marked' = (Marked \ {activeSong}) \cup {nextSong}
<1>1. \A s \in Song : status'[s] = IF s = nextSong /\ n >= 4 THEN "Playing"
                                   ELSE IF s = activeSong /\ n >= 2 THEN "Inactive" ELSE status[s]
  BY DEF updateNextSong
<1> QED BY <1>1 DEF Marked, TypeOK

LEMMA OneActiveSongStep ==
    ASSUME TypeOK, OneActiveSong, TornByFailure, [Next]_vars
    PROVE  OneActiveSong' /\ TornByFailure'
<1>1. CASE UNCHANGED <<status, activeSong, torn, failed>>
  BY <1>1 DEF OneActiveSong, Marked, TornByFailure
<1>2. CASE /\ activeSong # NoSong /\ UNCHANGED <<activeSong, torn, failed>>
           /\ status' = [status EXCEPT ![activeSong] = "Stopped"]
  <2>1. Marked' = Marked \cup {activeSong}
    BY <1>2 DEF Marked, TypeOK
  <2> QED BY <1>2, <2>1 DEF OneActiveSong, TornByFailure
<1>3. CASE nextSong # NoSong /\ songBegins
  <2>1. /\ updateNextSong(4) /\ activeSong' = nextSong
        /\ torn' = IF torn = nextSong THEN NoSong ELSE torn
        /\ failed' = failed
    BY <1>3 DEF songBegins
  <2>2. Marked' = (Marked \ {activeSong}) \cup {nextSong}
    BY <1>3, <2>1, UpdateNextSongStatus
  <2> QED BY <1>3, <2>1, <2>2 DEF OneActiveSong, TornByFailure
<1>4. CASE nextSong # NoSong /\ songDoesNotBegin
  <2>1. torn = NoSong /\ UNCHANGED activeSong /\ failed'
    BY <1>4 DEF songDoesNotBegin, TornByFailure
  <2>2. CASE UNCHANGED <<db, torn>>
    BY <2>1, <2>2 DEF db, OneActiveSong, Marked, TornByFailure
  <2>3. ASSUME NEW n \in 1..4, updateNextSong(n), torn' = nextSong
        PROVE  OneActiveSong' /\ TornByFailure'
    <3>1. \A s \in Song \ {activeSong, nextSong} : status'[s] = status[s]
      BY <1>4, <2>3, UpdateNextSongStatus
    <3> QED BY <1>4, <2>1, <2>3, <3>1 DEF OneActiveSong, Marked, TornByFailure
  <2> QED BY <1>4, <2>2, <2>3 DEF songDoesNotBegin
<1> QED BY <1>1, <1>2, <1>3, <1>4, StatusSteps

LEMMA NoSkipStep ==
    ASSUME TypeOK, NoSkipBeforeFirstSong, [Next]_vars
    PROVE  NoSkipBeforeFirstSong'
<1> SUFFICES ASSUME activeSong' = NoSong
             PROVE  /\ songTimerTask' # "stop" /\ timerThread' # "stop"
                    /\ orphans'["stop"] = 0 /\ deciding' = {}
  BY DEF NoSkipBeforeFirstSong
<1> USE DEF db, timer, reminder, faults, sessions, handlers
<1>1. activeSong = NoSong
  BY StatusSteps, NoSongAssumption DEF songBegins, songDoesNotBegin
<1>2. /\ songTimerTask # "stop" /\ timerThread # "stop" /\ orphans["stop"] = 0
      /\ deciding = {}
  BY <1>1 DEF NoSkipBeforeFirstSong
<1>3. CASE UNCHANGED vars
  BY <1>2, <1>3 DEF vars
<1>4. ASSUME NEW p \in Speaker, SpeakerRequest(p)
      PROVE  /\ UNCHANGED <<timerThread, deciding, orphans>>
             /\ UNCHANGED songTimerTask \/ songTimerTask' \in {"endOfSong", NoTask}
  <2>1. ASSUME NEW s \in Song, statusPlaying(p, s)
        PROVE  /\ UNCHANGED <<timerThread, deciding, orphans>>
               /\ UNCHANGED songTimerTask \/ songTimerTask' \in {"endOfSong", NoTask}
    BY <2>1 DEF statusPlaying, updatePlayback
  <2> QED BY <1>4, <2>1 DEF SpeakerRequest, createSession, authenticate, deauthenticate,
                            statusStopped, statusReady, answerReady
<1>5. ASSUME NEW u \in User, UserRequest(u)
      PROVE  UNCHANGED <<songTimerTask, timerThread, deciding, orphans>>
  BY <1>1, <1>2, <1>5 DEF UserRequest, createUserSession, destroyUserSession, countDislikes,
                          decideSkip, vote, like, dislike
<1>6. CASE TimerStep
  <2>1. ASSUME NEW k \in TaskKind, startTask(k) PROVE k # "stop"
    BY <1>2, <2>1 DEF startTask
  <2>2. ASSUME NEW k \in TaskKind, startTask(k)
        PROVE  /\ songTimerTask' # "stop" /\ timerThread' # "stop"
               /\ orphans'["stop"] = 0 /\ deciding' = {}
    BY <1>2, <2>1, <2>2 DEF startTask, NoTask, TypeOK, TaskKind
  <2>3. CASE runEndOfSong
    BY <1>2, <2>3 DEF runEndOfSong, NoTask, TypeOK, TaskKind
  <2> QED BY <1>2, <1>6, <2>2, <2>3
          DEF TimerStep, runReminder, queryReminder, storeReminder, tellReminder, runStop, NoTask
<1> QED BY <1>2, <1>3, <1>4, <1>5, <1>6 DEF Next, NoTask

LEMMA ReminderStep ==
    ASSUME TypeOK, ReminderHolds, [Next]_vars
    PROVE  ReminderHolds'
<1> USE DEF db, timer, reminder, faults, sessions, handlers
<1>1. CASE UNCHANGED <<timerThread, picked>>
  BY <1>1 DEF ReminderHolds
<1>2. ASSUME NEW p \in Speaker, SpeakerRequest(p) PROVE UNCHANGED <<timerThread, picked>>
  BY <1>2 DEF SpeakerRequest, createSession, authenticate, deauthenticate, statusPlaying,
              statusStopped, statusReady, answerReady
<1>3. ASSUME NEW u \in User, UserRequest(u) PROVE UNCHANGED <<timerThread, picked>>
  BY <1>3 DEF UserRequest, createUserSession, destroyUserSession, countDislikes, decideSkip,
              vote, like, dislike
<1>4. CASE TimerStep
  <2>1. timerThread' \in TaskKind \cup {NoTask} => ReminderHolds'
    BY DEF ReminderHolds, TaskKind, NoTask
  <2>2. CASE runReminder
    BY <2>2 DEF runReminder, ReminderHolds
  <2>3. CASE queryReminder
    BY <2>3, NextSongType, NoSongAssumption DEF queryReminder, ReminderHolds, NoTask
  <2>4. CASE storeReminder
    BY <2>4 DEF storeReminder, ReminderHolds
  <2> QED BY <1>4, <2>1, <2>2, <2>3, <2>4
          DEF TimerStep, startTask, runEndOfSong, tellReminder, runStop
<1>5. CASE UNCHANGED vars
  BY <1>1, <1>5 DEF vars
<1> QED BY <1>1, <1>2, <1>3, <1>4, <1>5 DEF Next

\* Every step keeps the types.
LEMMA TypeStep ==
    ASSUME IInv, [Next]_vars
    PROVE  TypeOK'
<1>1. CASE UNCHANGED vars
  BY <1>1 DEF vars, db, timer, reminder, faults, sessions, handlers, IInv, TypeOK
<1>2. CASE TimerStep
  <2>1. timerThread = "stop" => activeSong # NoSong
    BY DEF IInv, NoSkipBeforeFirstSong
  <2> QED BY <1>2, <2>1, TimerStepType DEF IInv, ReminderHolds
<1> QED BY <1>1, <1>2, SpeakerRequestType, UserRequestType DEF Next, IInv

\* The invariant is kept by every step.
LEMMA InvStep == IInv /\ [Next]_vars => IInv'
BY TypeStep, OneActiveSongStep, NoSkipStep, ReminderStep DEF IInv

\* The invariant holds in every state.
THEOREM Invariance == Spec => []IInv
BY InitInv, InvStep, PTL DEF Spec

\* The tables and fields of SongManager keep their types.
THEOREM TypeCorrect == Spec => []TypeOK
<1>1. IInv => TypeOK
  BY DEF IInv
<1> QED BY Invariance, <1>1, PTL

\* The song that is not Inactive is the one the field activeSong names, so
\* that getActiveSongFromDB finds no duplicates, through all transactions that
\* succeed or are rolled back; after one that could be neither committed nor
\* rolled back one more song may be marked, the one it was to start.
THEOREM OneActiveSongTheorem == Spec => []OneActiveSong
<1>1. IInv => OneActiveSong
  BY DEF IInv
<1> QED BY Invariance, <1>1, PTL

-----------------------------------------------------------------------------
(***************************************************************************)
(* The next song.                                                          *)
(***************************************************************************)
\* A song that is Inactive is not the active one, unless a song is half started.
LEMMA InactiveIsAnother ==
    ASSUME OneActiveSong, torn = NoSong, NEW s \in Song, status[s] = "Inactive"
    PROVE  s # activeSong
BY NoSongAssumption DEF OneActiveSong, Marked

\* What a step may do to the field nextSong: nothing, also when the next song
\* cannot be started; choose a song; begin it; or what a reminder stores.
LEMMA NextSongSteps ==
    ASSUME IInv, [Next]_vars
    PROVE  \/ /\ UNCHANGED <<nextSong, activeSong, overtaken>>
              /\ torn' = torn \/ (nextSong # NoSong /\ torn' = nextSong)
           \/ /\ nextSong = NoSong /\ nextSong' \in Song
              /\ torn = NoSong => nextSong' # activeSong
              /\ UNCHANGED <<activeSong, torn, overtaken>>
           \/ /\ nextSong # NoSong /\ nextSong' = NoSong /\ activeSong' = nextSong
              /\ songTimerTask' = "endOfSong" /\ UNCHANGED overtaken
              /\ torn' = IF torn = nextSong THEN NoSong ELSE torn
           \/ storeReminder
           \/ tellReminder
<1> DEFINE Keep   == /\ UNCHANGED <<nextSong, activeSong, overtaken>>
                     /\ torn' = torn \/ (nextSong # NoSong /\ torn' = nextSong)
           Choose == /\ nextSong = NoSong /\ nextSong' \in Song
                     /\ torn = NoSong => nextSong' # activeSong
                     /\ UNCHANGED <<activeSong, torn, overtaken>>
           Begin  == /\ nextSong # NoSong /\ nextSong' = NoSong /\ activeSong' = nextSong
                     /\ songTimerTask' = "endOfSong" /\ UNCHANGED overtaken
                     /\ torn' = IF torn = nextSong THEN NoSong ELSE torn
<1> USE DEF db, timer, reminder, faults, sessions, handlers
<1>0. TypeOK /\ OneActiveSong
  BY DEF IInv
<1>1. ASSUME nextSong = NoSong, nextSong' \in getNextSongFromDB(status),
             UNCHANGED <<activeSong, torn, overtaken>>
      PROVE  Choose
  BY <1>0, <1>1, NextSongType, InactiveIsAnother
<1>2. ASSUME scheduleNextSong, UNCHANGED <<activeSong, torn, overtaken>> PROVE Keep \/ Choose
  BY <1>0, <1>1, <1>2, ScheduleType DEF TypeOK
<1>3. ASSUME NEW p \in Speaker, SpeakerRequest(p) PROVE Keep \/ Choose \/ Begin
  <2>1. CASE authenticate(p)
    BY <1>2, <2>1 DEF authenticate
  <2>2. ASSUME NEW s \in Song, statusPlaying(p, s) PROVE Keep \/ Begin
    <3>1. CASE nextSong # NoSong /\ updatePlayback
      BY <2>2, <3>1 DEF statusPlaying, updatePlayback, songBegins, songDoesNotBegin
    <3> QED BY <2>2, <3>1 DEF statusPlaying
  <2>3. CASE statusStopped(p)
    <3>1. CASE UNCHANGED nextSong
      BY <2>3, <3>1 DEF statusStopped
    <3>2. CASE nextSong = NoSong /\ \E s \in getNextSongFromDB(status') : nextSong' = s
      <4>1. nextSong' \in Song /\ status'[nextSong'] = "Inactive"
        BY <3>2, NextSongType
      <4>2. activeSong \in Song
        BY <1>0, <2>3, <3>2, <4>1, NoSongAssumption DEF statusStopped, TypeOK
      <4>3. status'[activeSong] = "Stopped" /\ UNCHANGED <<activeSong, torn, overtaken>>
        BY <1>0, <2>3, <4>2, NoSongAssumption DEF statusStopped, TypeOK
      <4> QED BY <3>2, <4>1, <4>3
    <3> QED BY <2>3, <3>1, <3>2 DEF statusStopped
  <2> QED BY <1>3, <2>1, <2>2, <2>3
          DEF SpeakerRequest, createSession, deauthenticate, statusReady, answerReady
<1>4. ASSUME NEW u \in User, UserRequest(u) PROVE Keep \/ Choose
  <2>1. CASE decideSkip(u)
    <3>1. /\ UNCHANGED <<activeSong, torn, overtaken>>
          /\ UNCHANGED nextSong \/ (nextSong = NoSong /\ skipToNext)
      BY <2>1 DEF decideSkip
    <3> QED BY <1>1, <3>1, SkipType
  <2> QED BY <1>4, <2>1 DEF UserRequest, createUserSession, destroyUserSession, countDislikes,
                            vote, like, dislike
<1>5. CASE TimerStep
  <2>1. CASE runEndOfSong
    BY <1>2, <2>1 DEF runEndOfSong
  <2> QED BY <1>5, <2>1 DEF TimerStep, startTask, runReminder, queryReminder, runStop
<1>6. CASE UNCHANGED vars
  BY <1>6 DEF vars
<1> QED BY <1>3, <1>4, <1>5, <1>6 DEF Next

\* A song that was left half started is still the next one.
LEMMA TornIsNextStep ==
    ASSUME IInv, TornIsNext, [Next]_vars PROVE TornIsNext'
<1>1. CASE storeReminder
  BY <1>1 DEF storeReminder, faults, TornIsNext
<1>2. CASE tellReminder
  BY <1>2 DEF tellReminder, faults, TornIsNext
<1> QED BY <1>1, <1>2, NextSongSteps, NoSongAssumption DEF TornIsNext

\* As long as no reminder has been overtaken, a song whose transaction could
\* be neither committed nor rolled back stays the next one until it begins.
THEOREM TornIsNextTheorem == Spec => []TornIsNext
<1>1. Init => TornIsNext
  BY DEF Init, TornIsNext
<1> QED BY Invariance, <1>1, TornIsNextStep, PTL DEF Spec

\* As long as no reminder has been overtaken, the next song is never the song
\* that plays, also after a song could not be started.
THEOREM NextSongIsAnotherTheorem == Spec => []NextSongIsAnother
<1>1. Init => NextSongIsAnother
  BY DEF Init, NextSongIsAnother
<1>2. ASSUME IInv, TornIsNext, NextSongIsAnother, [Next]_vars PROVE NextSongIsAnother'
  <2>1. CASE storeReminder
    BY <2>1 DEF storeReminder, NextSongIsAnother
  <2>2. CASE tellReminder
    BY <1>2, <2>2 DEF tellReminder, NextSongIsAnother
  <2> QED BY <1>2, <2>1, <2>2, NextSongSteps, NoSongAssumption DEF NextSongIsAnother, TornIsNext
<1> QED BY Invariance, TornIsNextTheorem, <1>1, <1>2, PTL DEF Spec

\* A chosen song stays the next one until it begins, through skips, Stopped,
\* new speakers and transactions that fail; only a reminder that had found no
\* next song when it looked replaces it, by the song it holds.
THEOREM ChoiceIsFinalTheorem == Spec => ChoiceIsFinal
<1>1. ASSUME IInv, [Next]_vars
      PROVE  [nextSong # NoSong /\ nextSong' # nextSong =>
                \/ nextSong' = NoSong /\ activeSong' = nextSong
                \/ timerThread = "reminderStore" /\ nextSong' = picked]_vars
  BY <1>1, NextSongSteps DEF storeReminder, tellReminder
<1> QED BY Invariance, <1>1, PTL DEF Spec, ChoiceIsFinal

\* With three songs there is always one to choose, although a song may be half
\* started besides the active one. So while a song plays and none is chosen,
\* the task that chooses one is scheduled or has started, whatever is
\* cancelled, overwritten, suspended or rolled back.
THEOREM NextSongWillBeChosenTheorem ==
    ASSUME NEW a \in Song, NEW b \in Song, NEW c \in Song, a # b, a # c, b # c
    PROVE  Spec => []NextSongWillBeChosen
<1> DEFINE Coming == \/ songTimerTask = "endOfSong" \/ orphans["endOfSong"] > 0
                     \/ timerThread \in {"endOfSong", "reminderQuery", "reminderStore"}
<1> USE DEF db, timer, reminder, faults, sessions, handlers
<1>1. Init => NextSongWillBeChosen
  BY DEF Init, NextSongWillBeChosen
<1>2. ASSUME IInv, NextSongWillBeChosen, [Next]_vars PROVE NextSongWillBeChosen'
  <2>0. TypeOK /\ OneActiveSong /\ ReminderHolds
    BY <1>2 DEF IInv
  <2>1. ~NoCandidate
    <3>1. PICK r \in Song : r # activeSong /\ r # torn
      OBVIOUS
    <3>2. status[r] = "Inactive"
      BY <2>0, <3>1 DEF OneActiveSong, Marked
    <3> QED BY <2>0, <3>2, NextSongExists DEF NoCandidate, TypeOK
  <2> SUFFICES ASSUME activeSong' # NoSong, nextSong' = NoSong PROVE Coming'
    BY DEF NextSongWillBeChosen
  <2>2. CASE activeSong' # activeSong \/ nextSong' # nextSong
    <3>1. ~storeReminder /\ ~tellReminder
      BY <2>0, <2>2 DEF storeReminder, tellReminder, ReminderHolds
    <3>2. songTimerTask' = "endOfSong"
      BY <1>2, <2>2, <3>1, NextSongSteps, NoSongAssumption
    <3> QED BY <3>2
  <2>3. CASE UNCHANGED <<activeSong, nextSong>>
    <3>0. Coming /\ activeSong # NoSong /\ nextSong = NoSong
      BY <1>2, <2>3 DEF NextSongWillBeChosen
    <3>1. CASE UNCHANGED <<songTimerTask, orphans, timerThread>>
      BY <3>0, <3>1
    <3>2. ASSUME NEW p \in Speaker, SpeakerRequest(p)
          PROVE  UNCHANGED <<songTimerTask, orphans, timerThread>>
      BY <3>0, <3>2 DEF SpeakerRequest, createSession, authenticate, deauthenticate,
             statusPlaying, statusStopped, statusReady, answerReady
    <3>3. ASSUME NEW u \in User, UserRequest(u)
          PROVE  UNCHANGED <<songTimerTask, orphans, timerThread>>
      <4>1. CASE decideSkip(u)
        <5>1. ~skipToNext
          BY <2>1, <2>3, <3>0, SkipType, NextSongType, NoSongAssumption
        <5> QED BY <4>1, <5>1 DEF decideSkip
      <4> QED BY <3>3, <4>1 DEF UserRequest, createUserSession, destroyUserSession,
                                countDislikes, vote, like, dislike
    <3>4. ASSUME NEW k \in TaskKind, startTask(k) PROVE Coming'
      <4>1. CASE k = "endOfSong"
        BY <3>4, <4>1 DEF startTask
      <4>2. CASE k # "endOfSong"
        <5>1. orphans'["endOfSong"] = orphans["endOfSong"]
          BY <2>0, <3>4, <4>2 DEF startTask, TypeOK, TaskKind
        <5>2. songTimerTask = "endOfSong" => songTimerTask' = "endOfSong"
          BY <3>4, <4>2 DEF startTask
        <5> QED BY <3>0, <3>4, <5>1, <5>2 DEF startTask, NoTask
      <4> QED BY <4>1, <4>2
    <3>5. CASE runEndOfSong
      <4>1. nextSong' # NoSong
        BY <2>0, <2>1, <3>0, <3>5, ScheduleType DEF runEndOfSong, TypeOK
      <4> QED BY <4>1
    <3>6. CASE runReminder
      BY <3>0, <3>6 DEF runReminder
    <3>7. CASE queryReminder
      BY <2>1, <3>7 DEF queryReminder
    <3>8. CASE storeReminder
      BY <2>0, <3>8 DEF storeReminder, ReminderHolds
    <3>9. CASE tellReminder
      BY <3>0, <3>9 DEF tellReminder
    <3>10. CASE runStop
      BY <3>0, <3>10 DEF runStop
    <3>11. CASE UNCHANGED vars
      BY <3>1, <3>11 DEF vars
    <3> QED BY <1>2, <3>1, <3>2, <3>3, <3>4, <3>5, <3>6, <3>7, <3>8, <3>9, <3>10, <3>11
            DEF Next, TimerStep
  <2> QED BY <2>2, <2>3
<1> QED BY Invariance, <1>1, <1>2, PTL DEF Spec

=============================================================================
