---------------------------- MODULE RaspberryPi ----------------------------
(***************************************************************************)
(* raspi.py: the program of a speaker. Three threads share four globals    *)
(* about the current and the next song:                                    *)
(*   - the update thread long-polls the server and feeds                   *)
(*     server_playback_queue;                                              *)
(*   - the playback thread handles those updates, drives pygame and feeds  *)
(*     playback_connection_queue;                                          *)
(*   - the communication thread posts the messages of that queue and       *)
(*     downloads songs.                                                    *)
(* Queues hold dictionaries, not copies of them: the playback thread       *)
(* reports every end of a song in one and the same dictionary, and the     *)
(* communication thread writes its next message into the one it has taken. *)
(*                                                                         *)
(* A thread's code between two blocking calls is one action. Here the      *)
(* server may send any update at any time; Party puts the real server in   *)
(* its place.                                                              *)
(***************************************************************************)
EXTENDS Integers, Sequences

CONSTANTS
    Song,            \* song ids
    Missing,         \* songs whose file the server can no longer read
    UNKNOWN,         \* -1
    StopPostsEnd,    \* does music.stop() make pygame post the end event?
    NetworkFails,    \* may a request of the communication thread raise?
    MaxQueue,        \* bound: length of the two queues
    MaxEvents        \* size of pygame's event queue, which drops what is too much

ASSUME UnknownAssumption == UNKNOWN \notin Song
ASSUME MissingAssumption == Missing \subseteq Song
ASSUME SwitchesAssumption == StopPostsEnd \in BOOLEAN /\ NetworkFails \in BOOLEAN
ASSUME BoundsAssumption == MaxQueue \in Nat /\ MaxEvents \in Nat

VARIABLES
    current_song, current_song_state,
    next_song, next_song_state,
    files,                       \* songs with a file in the working directory
    server_playback_queue,       \* updates for the playback thread
    playback_connection_queue,   \* messages for the communication thread
    message,                     \* what the dictionary _message of playback_func holds
    comm,                        \* the communication thread
    music,                       \* the song pygame plays, or UNKNOWN
    endEvents                    \* SONG_END events pygame has queued

songs   == <<current_song, current_song_state, next_song, next_song_state>>
mixer   == <<music, endEvents>>
piVars  == <<songs, files, server_playback_queue, playback_connection_queue, message, comm, mixer>>

Upcoming(s) == [type |-> "upcoming_song",    command |-> "none", song |-> s]
Play(s)     == [type |-> "playback_command", command |-> "Play", song |-> s]
Stop(s)     == [type |-> "playback_command", command |-> "Stop", song |-> s]
Update      == UNION {{Upcoming(s), Play(s), Stop(s)} : s \in Song}

Message == [status : {"Playing", "Stopped", "Ready", "need_song"}, id : Song]

Msg(st, s) == [status |-> st, id |-> s]
NoMessage  == Msg("none", UNKNOWN)

\* A queue entry that is the dictionary _message of playback_func.
Shared == Msg("shared", UNKNOWN)
Entry  == Message \cup {Shared}

SharedQueued == \E i \in 1..Len(playback_connection_queue) : playback_connection_queue[i] = Shared

\* What the communication thread does, the message it sends, and whether the
\* dictionary it has taken is the one of playback_func.
At(l, msg)    == [pc |-> l, msg |-> msg, shared |-> FALSE]
Taken(msg, e) == [pc |-> "post", msg |-> msg, shared |-> e = Shared]
Idle          == At("idle", NoMessage)
Dead          == At("dead", NoMessage)

Init ==
    /\ current_song = UNKNOWN /\ current_song_state = "UNKNOWN"
    /\ next_song = UNKNOWN /\ next_song_state = "UNKNOWN"
    /\ files \in SUBSET Song
    /\ server_playback_queue = <<>> /\ playback_connection_queue = <<>>
    /\ message = NoMessage /\ comm = Idle
    /\ music = UNKNOWN /\ endEvents = 0

-----------------------------------------------------------------------------
(***************************************************************************)
(* The playback thread.                                                    *)
(***************************************************************************)
put(msg) == playback_connection_queue' = Append(playback_connection_queue, msg)

\* pygame posts SONG_END.
postEnd == endEvents' = IF endEvents < MaxEvents THEN endEvents + 1 ELSE endEvents

check_for_song(s) == s \in files

\* Any song is played when none is playing.
handle_play_commandBug(s) ==
    \/ /\ current_song_state # "PLAYING"
       /\ current_song' = s /\ current_song_state' = "PLAYING"
       /\ next_song' = UNKNOWN /\ next_song_state' = "UNKNOWN"
       /\ IF s \in files THEN music' = s /\ put(Msg("Playing", s))
                         ELSE UNCHANGED <<music, playback_connection_queue>>
       /\ UNCHANGED endEvents
    \/ /\ current_song_state = "PLAYING"
       /\ UNCHANGED <<songs, mixer, playback_connection_queue>>

\* handle_play_command. pygame raises on a missing file; the thread survives
\* and the globals have changed already.
handle_play_command(s) ==
    \/ /\ s # current_song /\ s = next_song
       /\ current_song_state # "PLAYING" /\ next_song_state = "READY"
       /\ current_song' = s /\ current_song_state' = "PLAYING"
       /\ next_song' = UNKNOWN /\ next_song_state' = "UNKNOWN"
       /\ IF s \in files THEN music' = s /\ put(Msg("Playing", s))
                         ELSE UNCHANGED <<music, playback_connection_queue>>
       /\ UNCHANGED endEvents
    \/ /\ s # current_song /\ s = next_song /\ next_song_state = "UNKNOWN"
       /\ put(Msg("need_song", s))
       /\ UNCHANGED <<songs, mixer>>
    \/ /\ \/ s = current_song \/ s # next_song
          \/ current_song_state = "PLAYING" /\ next_song_state = "READY"
          \/ next_song_state = "DOWNLOADING"
       /\ UNCHANGED <<songs, mixer, playback_connection_queue>>

\* The music stops and the song is still taken for playing.
handle_stop_commandBug(s) ==
    \/ /\ s = current_song /\ current_song_state = "PLAYING"
       /\ put(Msg("Stopped", s))
       /\ music' = UNKNOWN
       /\ IF StopPostsEnd /\ music # UNKNOWN THEN postEnd ELSE UNCHANGED endEvents
       /\ UNCHANGED songs
    \/ /\ s # current_song \/ current_song_state # "PLAYING"
       /\ UNCHANGED <<songs, mixer, playback_connection_queue>>

\* handle_stop_command.
handle_stop_command(s) ==
    \/ /\ s = current_song /\ current_song_state = "PLAYING"
       /\ current_song_state' = "STOPPED"
       /\ put(Msg("Stopped", s))
       /\ music' = UNKNOWN
       /\ IF StopPostsEnd /\ music # UNKNOWN THEN postEnd ELSE UNCHANGED endEvents
       /\ UNCHANGED <<current_song, next_song, next_song_state>>
    \/ /\ s # current_song \/ current_song_state # "PLAYING"
       /\ UNCHANGED <<songs, mixer, playback_connection_queue>>

\* A song that is announced while another one plays is not fetched.
handle_upcoming_song_updateBug(s) ==
    /\ UNCHANGED <<current_song, current_song_state, mixer>>
    /\ next_song' = s
    /\ next_song_state' = IF s = next_song THEN next_song_state ELSE "UNKNOWN"
    /\ IF current_song_state # "PLAYING" /\ ~check_for_song(s)
       THEN put(Msg("need_song", s)) ELSE UNCHANGED playback_connection_queue

\* handle_upcoming_song_update: a new song, or one that has not been fetched.
handle_upcoming_song_update(s) ==
    LET fetch == s # next_song \/ next_song_state = "UNKNOWN"
    IN  /\ UNCHANGED <<current_song, current_song_state, mixer>>
        /\ \/ /\ s # current_song /\ fetch
              /\ next_song' = s
              /\ next_song_state' = IF check_for_song(s) THEN "READY" ELSE "UNKNOWN"
              /\ \/ ~check_for_song(s) /\ put(Msg("need_song", s))
                 \/ /\ check_for_song(s) /\ current_song_state # "PLAYING"
                    /\ put(Msg("Ready", s))
                 \/ /\ check_for_song(s) /\ current_song_state = "PLAYING"
                    /\ UNCHANGED playback_connection_queue
           \/ /\ s = current_song \/ ~fetch
              /\ UNCHANGED <<next_song, next_song_state, playback_connection_queue>>

\* playback_func takes the next update.
playback ==
    /\ server_playback_queue # <<>> /\ Len(playback_connection_queue) < MaxQueue
    /\ server_playback_queue' = Tail(server_playback_queue)
    /\ LET u == Head(server_playback_queue)
       IN  \/ u.command = "Play" /\ handle_play_command(u.song)
           \/ u.command = "Stop" /\ handle_stop_command(u.song)
           \/ u.type = "upcoming_song" /\ handle_upcoming_song_update(u.song)
    /\ UNCHANGED <<files, message, comm>>

\* Whatever event pygame returns is taken for the end of the song.
pollEventBug ==
    /\ server_playback_queue = <<>> /\ Len(playback_connection_queue) < MaxQueue
    /\ current_song_state = "PLAYING"
    /\ endEvents' = endEvents - 1
    /\ current_song_state' = "STOPPED"
    /\ message' = Msg("Stopped", current_song) /\ put(Shared)
    /\ UNCHANGED <<current_song, next_song, next_song_state, files, server_playback_queue,
                   comm, music>>

\* The end of the song is not reported.
pollEventSilent ==
    /\ server_playback_queue = <<>> /\ Len(playback_connection_queue) < MaxQueue
    /\ current_song_state = "PLAYING" /\ endEvents > 0
    /\ endEvents' = endEvents - 1
    /\ current_song_state' = "STOPPED"
    /\ UNCHANGED <<current_song, next_song, next_song_state, files, server_playback_queue,
                   playback_connection_queue, message, comm, music>>

\* playback_func finds no update and asks pygame whether the song has ended.
pollEvent ==
    /\ server_playback_queue = <<>> /\ Len(playback_connection_queue) < MaxQueue
    /\ current_song_state = "PLAYING" /\ endEvents > 0
    /\ endEvents' = endEvents - 1
    /\ current_song_state' = "STOPPED"
    /\ message' = Msg("Stopped", current_song) /\ put(Shared)
    /\ UNCHANGED <<current_song, next_song, next_song_state, files, server_playback_queue,
                   comm, music>>

\* pygame: the music reaches its end.
songEnds ==
    /\ music # UNKNOWN
    /\ music' = UNKNOWN
    /\ postEnd
    /\ UNCHANGED <<songs, files, server_playback_queue, playback_connection_queue, message, comm>>

-----------------------------------------------------------------------------
(***************************************************************************)
(* The communication thread. It marks the next song, whatever song it      *)
(* downloads.                                                              *)
(***************************************************************************)
\* The thread is done with the dictionary it has taken, into which it has
\* written msg. What nobody can read any more is forgotten.
done(msg) ==
    message' = IF SharedQueued' THEN (IF comm.shared THEN msg ELSE message) ELSE NoMessage

\* communicate_func takes a message: it posts it or starts a download.
communicate ==
    /\ comm = Idle /\ playback_connection_queue # <<>>
    /\ playback_connection_queue' = Tail(playback_connection_queue)
    /\ LET e   == Head(playback_connection_queue)
           msg == IF e = Shared THEN message ELSE e
       IN  \/ /\ msg.status = "need_song"
              /\ comm' = At("download", msg) /\ next_song_state' = "DOWNLOADING"
              /\ done(msg)
           \/ /\ msg.status # "need_song"
              /\ comm' = Taken(msg, e) /\ UNCHANGED <<next_song_state, message>>
    /\ UNCHANGED <<current_song, current_song_state, next_song, files,
                   server_playback_queue, mixer>>

\* The server's SongManager.getSongData finds the file of song s.
getSongData(s) == s \notin Missing

\* The download is marked as finished and its file is not written.
handle_need_songBug ==
    /\ comm.pc = "download"
    /\ next_song_state' = "READY"
    /\ comm' = IF current_song_state = "PLAYING" THEN Idle
               ELSE At("post", Msg("Ready", comm.msg.id))
    /\ UNCHANGED <<files, current_song, current_song_state, next_song, server_playback_queue,
                   playback_connection_queue, message, mixer>>

\* handle_need_song, when the server has answered: with the song data, which
\* is saved, or with an error, about which nothing is done.
handle_need_song ==
    /\ comm.pc = "download"
    /\ \/ /\ getSongData(comm.msg.id)
          /\ files' = files \cup {comm.msg.id}
          /\ next_song_state' = "READY"
          /\ comm' = IF current_song_state = "PLAYING" THEN Idle
                     ELSE At("post", Msg("Ready", comm.msg.id))
       \/ /\ ~getSongData(comm.msg.id)
          /\ next_song_state' = "UNKNOWN"
          /\ comm' = Idle
          /\ UNCHANGED files
    /\ UNCHANGED <<current_song, current_song_state, next_song, server_playback_queue,
                   playback_connection_queue, message, mixer>>

\* The status update reaches the server, which has handled it when it answers.
post ==
    /\ comm.pc = "post"
    /\ comm' = [comm EXCEPT !.pc = "answer"]
    /\ UNCHANGED <<songs, files, server_playback_queue, playback_connection_queue, message, mixer>>

\* Nothing is done about the next song.
answeredBug ==
    /\ comm.pc = "answer"
    /\ comm' = Idle
    /\ UNCHANGED <<songs, files, server_playback_queue, playback_connection_queue, message, mixer>>

\* The rest of communicate_func: after Stopped, which the dictionary may say
\* by now, the next song.
answered ==
    /\ comm.pc = "answer"
    /\ LET stopped == (IF comm.shared THEN message.status ELSE comm.msg.status) = "Stopped"
       IN  \/ /\ stopped /\ next_song # UNKNOWN /\ next_song_state = "READY"
              /\ comm' = At("post", Msg("Ready", next_song))
              /\ UNCHANGED playback_connection_queue
              /\ done(Msg("Ready", next_song))
           \/ /\ stopped /\ next_song # UNKNOWN /\ next_song_state = "UNKNOWN"
              /\ comm' = Idle
              /\ put(IF comm.shared THEN Shared ELSE Msg("need_song", next_song))
              /\ done(Msg("need_song", next_song))
           \/ /\ ~stopped \/ next_song = UNKNOWN \/ next_song_state = "DOWNLOADING"
              /\ comm' = Idle
              /\ UNCHANGED playback_connection_queue
              /\ done(message)
    /\ UNCHANGED <<songs, files, server_playback_queue, mixer>>

\* A request of the thread raises (socket.timeout, connection refused).
\* Nothing catches it, so the thread ends; the others go on.
commRaises ==
    /\ NetworkFails /\ comm.pc \in {"download", "post"}
    /\ comm' = Dead
    /\ UNCHANGED <<songs, files, server_playback_queue, playback_connection_queue, mixer>>
    /\ done(message)

-----------------------------------------------------------------------------
\* update_func: the poll is answered with update u.
receive(u) ==
    /\ Len(server_playback_queue) < MaxQueue
    /\ server_playback_queue' = Append(server_playback_queue, u)
    /\ UNCHANGED <<songs, files, playback_connection_queue, message, comm, mixer>>

\* The program is killed and started again: everything but the files is lost.
restart ==
    /\ current_song' = UNKNOWN /\ current_song_state' = "UNKNOWN"
    /\ next_song' = UNKNOWN /\ next_song_state' = "UNKNOWN"
    /\ server_playback_queue' = <<>> /\ playback_connection_queue' = <<>>
    /\ message' = NoMessage /\ comm' = Idle
    /\ music' = UNKNOWN /\ endEvents' = 0
    /\ UNCHANGED files

PlaybackThread == playback \/ pollEvent
CommThread     == communicate \/ handle_need_song \/ post \/ answered

Next ==
    \/ PlaybackThread \/ CommThread \/ commRaises \/ songEnds \/ restart
    \/ \E u \in Update : receive(u)

Spec == Init /\ [][Next]_piVars

\* Threads that can go on do; songs end by themselves.
FairSpec == /\ Spec
            /\ WF_piVars(PlaybackThread) /\ WF_piVars(CommThread) /\ WF_piVars(songEnds)

-----------------------------------------------------------------------------
\* Every variable has its type.
TypeOK ==
    /\ current_song \in Song \cup {UNKNOWN} /\ next_song \in Song \cup {UNKNOWN}
    /\ current_song_state \in {"UNKNOWN", "PLAYING", "STOPPED"}
    /\ next_song_state \in {"UNKNOWN", "DOWNLOADING", "READY"}
    /\ files \subseteq Song
    /\ server_playback_queue \in Seq(Update)
    /\ playback_connection_queue \in Seq(Entry)
    /\ message \in Message \cup {NoMessage}
    /\ comm \in [pc : {"download", "post", "answer"}, msg : Message, shared : BOOLEAN]
                \cup {Idle, Dead}
    /\ music \in Song \cup {UNKNOWN}
    /\ endEvents \in 0..MaxEvents

\* Whatever the server sends and however the threads interleave, the file of
\* the next song is there or will be: it is on disk, being downloaded, or a
\* need_song for it is queued, as long as the communication thread lives and
\* the server has the file.
\* (Protocol: "Client responds by sending REQUEST_SONG to get file".)
SongIsOnItsWay ==
    next_song \notin Missing \cup {UNKNOWN} /\ comm.pc # "dead" =>
       \/ next_song \in files
       \/ comm.pc = "download" /\ comm.msg = Msg("need_song", next_song)
       \/ \E i \in 1..Len(playback_connection_queue) :
             playback_connection_queue[i] = Msg("need_song", next_song)

\* A next song that the server has is fetched, unless another one takes its
\* place or a request fails, which ends the communication thread.
NextIsFetched ==
    \A s \in Song \ Missing :
       next_song = s ~> s \in files \/ next_song # s \/ comm.pc = "dead"
=============================================================================
