------------------------- MODULE RaspberryPiProofs -------------------------
(***************************************************************************)
(* Proofs about RaspberryPi for any library, any length of the queues and  *)
(* any server.                                                             *)
(***************************************************************************)
EXTENDS RaspberryPi, SequenceTheorems, TLAPS

-----------------------------------------------------------------------------
(***************************************************************************)
(* Facts about messages and queues.                                        *)
(***************************************************************************)
LEMMA MessageType ==
    ASSUME NEW s \in Song
    PROVE  /\ Msg("Playing", s) \in Message /\ Msg("Stopped", s) \in Message
           /\ Msg("Ready", s) \in Message /\ Msg("need_song", s) \in Message
BY DEF Msg, Message

LEMMA UpdateType ==
    ASSUME NEW u \in Update
    PROVE  u.song \in Song
BY DEF Update, Upcoming, Play, Stop

\* Taking the first element of a queue leaves a queue.
LEMMA TailType ==
    ASSUME NEW S, NEW q \in Seq(S), q # << >>
    PROVE  /\ Head(q) \in S /\ Tail(q) \in Seq(S)
           /\ \A j \in 1..Len(Tail(q)) : \E i \in 1..Len(q) : q[i] = Tail(q)[j]
<1>1. /\ Len(Tail(q)) = Len(q) - 1 /\ Len(q) \in Nat
      /\ Head(q) \in S /\ Tail(q) \in Seq(S)
      /\ \A j \in 1..Len(Tail(q)) : Tail(q)[j] = q[j + 1]
  BY HeadTailProperties
<1>2. ASSUME NEW j \in 1..Len(Tail(q)) PROVE j + 1 \in 1..Len(q) /\ q[j + 1] = Tail(q)[j]
  BY <1>1
<1> QED BY <1>1, <1>2

\* What is in a queue stays in it, or is taken, or has moved up.
LEMMA InTail ==
    ASSUME NEW S, NEW q \in Seq(S), q # << >>, NEW i \in 1..Len(q), q[i] # Head(q)
    PROVE  \E j \in 1..Len(Tail(q)) : Tail(q)[j] = q[i]
<1>1. /\ Len(Tail(q)) = Len(q) - 1 /\ Len(q) \in Nat
      /\ \A j \in 1..Len(Tail(q)) : Tail(q)[j] = q[j + 1]
  BY HeadTailProperties
<1>2. i # 1
  OBVIOUS
<1>3. i - 1 \in 1..Len(Tail(q)) /\ Tail(q)[i - 1] = q[i]
  BY <1>1, <1>2
<1> QED BY <1>3

\* Appending keeps what is there and adds the new element.
LEMMA InAppend ==
    ASSUME NEW S, NEW q \in Seq(S), NEW e \in S
    PROVE  /\ Append(q, e) \in Seq(S)
           /\ \E j \in 1..Len(Append(q, e)) : Append(q, e)[j] = e
           /\ \A i \in 1..Len(q) : \E j \in 1..Len(Append(q, e)) : Append(q, e)[j] = q[i]
           /\ \A j \in 1..Len(Append(q, e)) :
                 Append(q, e)[j] = e \/ \E i \in 1..Len(q) : Append(q, e)[j] = q[i]
<1>1. /\ Append(q, e) \in Seq(S) /\ Len(Append(q, e)) = Len(q) + 1 /\ Len(q) \in Nat
      /\ \A i \in 1..Len(q) : Append(q, e)[i] = q[i]
      /\ Append(q, e)[Len(q) + 1] = e
  BY AppendProperties
<1> QED BY <1>1

-----------------------------------------------------------------------------
(***************************************************************************)
(* Type correctness. The playback thread reports the end of the current    *)
(* song, so its message has a type only if a song that plays has an id;    *)
(* and an entry that stands for the shared dictionary has one only if the  *)
(* dictionary has been filled in.                                          *)
(***************************************************************************)
PlayingHasSong == current_song_state = "PLAYING" => current_song \in Song

SharedIsFilled == SharedQueued \/ comm.shared => message \in Message

TypeInv == TypeOK /\ PlayingHasSong /\ SharedIsFilled

CommState == [pc : {"download", "post", "answer"}, msg : Message, shared : BOOLEAN]

LEMMA NotShared == Shared \notin Message
BY DEF Shared, Msg, Message

LEMMA InitType == Init => TypeInv
BY BoundsAssumption DEF Init, TypeInv, PlayingHasSong, SharedIsFilled, SharedQueued, TypeOK, Idle,
                        Dead, At, NoMessage, Entry

LEMMA PostEndType ==
    ASSUME TypeOK, postEnd PROVE endEvents' \in 0..MaxEvents
BY BoundsAssumption DEF TypeOK, postEnd

\* Putting an entry. The shared dictionary is queued then only if it was or is
\* the entry.
LEMMA PutType ==
    ASSUME TypeOK, NEW e \in Entry, put(e)
    PROVE  /\ playback_connection_queue' \in Seq(Entry)
           /\ SharedQueued' => SharedQueued \/ e = Shared
<1> DEFINE q == playback_connection_queue
<1>1. q \in Seq(Entry) /\ q' = Append(q, e)
  BY DEF put, TypeOK
<1>2. /\ q' \in Seq(Entry)
      /\ \A j \in 1..Len(q') : q'[j] = e \/ \E i \in 1..Len(q) : q'[j] = q[i]
  <2> HIDE DEF q
  <2> QED BY <1>1, InAppend
<1>3. ASSUME SharedQueued' PROVE SharedQueued \/ e = Shared
  <2>1. PICK j \in 1..Len(q') : q'[j] = Shared
    BY <1>3 DEF SharedQueued, Shared, Msg
  <2>2. q'[j] = e \/ \E i \in 1..Len(q) : q'[j] = q[i]
    BY <1>2
  <2> QED BY <2>1, <2>2 DEF SharedQueued
<1> QED BY <1>2, <1>3

LEMMA PutMessage ==
    ASSUME TypeOK, NEW s \in Song, NEW st \in {"Playing", "Stopped", "Ready", "need_song"},
           put(Msg(st, s))
    PROVE  playback_connection_queue' \in Seq(Entry) /\ (SharedQueued' => SharedQueued)
<1>1. Msg(st, s) \in Message
  BY MessageType
<1> QED BY <1>1, PutType, NotShared DEF Entry

\* Taking an entry.
LEMMA TakeType ==
    ASSUME TypeOK, communicate
    PROVE  /\ Head(playback_connection_queue) \in Entry
           /\ playback_connection_queue' \in Seq(Entry)
           /\ SharedQueued' \/ Head(playback_connection_queue) = Shared => SharedQueued
<1> DEFINE q == playback_connection_queue
<1>1. q \in Seq(Entry) /\ q # << >> /\ q' = Tail(q)
  BY DEF communicate, TypeOK
<1>2. /\ Head(q) \in Entry /\ q' \in Seq(Entry)
      /\ \A j \in 1..Len(q') : \E i \in 1..Len(q) : q[i] = q'[j]
      /\ Head(q) = q[1] /\ 1 \in 1..Len(q)
  <2> HIDE DEF q
  <2> QED BY <1>1, TailType, HeadTailProperties, EmptySeq, LenProperties
<1>3. ASSUME SharedQueued' PROVE SharedQueued
  <2>1. PICK j \in 1..Len(q') : q'[j] = Shared
    BY <1>3 DEF SharedQueued, Shared, Msg
  <2>2. \E i \in 1..Len(q) : q[i] = q'[j]
    BY <1>2
  <2> QED BY <2>1, <2>2 DEF SharedQueued
<1>4. Head(q) = Shared => SharedQueued
  BY <1>2 DEF SharedQueued
<1> QED BY <1>2, <1>3, <1>4

\* The dictionary after the communication thread is done with it.
LEMMA DoneType ==
    ASSUME TypeInv, NEW msg, done(msg), msg \in Message \/ msg = message,
           SharedQueued' => SharedQueued \/ comm.shared
    PROVE  message' \in Message \cup {NoMessage} /\ (SharedQueued' => message' \in Message)
BY DEF done, TypeInv, SharedIsFilled

\* The three handlers of the playback thread.
LEMMA HandlerType ==
    ASSUME TypeOK, NEW s \in Song,
           handle_play_command(s) \/ handle_stop_command(s) \/ handle_upcoming_song_update(s)
    PROVE  /\ current_song' \in Song \cup {UNKNOWN} /\ next_song' \in Song \cup {UNKNOWN}
           /\ current_song_state' \in {"UNKNOWN", "PLAYING", "STOPPED"}
           /\ next_song_state' \in {"UNKNOWN", "DOWNLOADING", "READY"}
           /\ playback_connection_queue' \in Seq(Entry)
           /\ SharedQueued' => SharedQueued
           /\ music' \in Song \cup {UNKNOWN} /\ endEvents' \in 0..MaxEvents
<1> DEFINE Kept == playback_connection_queue' \in Seq(Entry) /\ (SharedQueued' => SharedQueued)
<1>1. /\ put(Msg("Playing", s)) => Kept
      /\ put(Msg("Stopped", s)) => Kept
      /\ put(Msg("Ready", s)) => Kept
      /\ put(Msg("need_song", s)) => Kept
  BY PutMessage
<1>2. UNCHANGED playback_connection_queue => Kept
  BY DEF TypeOK, SharedQueued
<1> HIDE DEF Kept
<1>3. CASE handle_play_command(s)
  <2>1. Kept
    BY <1>1, <1>2, <1>3 DEF handle_play_command
  <2> QED BY <1>3, <2>1 DEF handle_play_command, TypeOK, songs, mixer, Kept
<1>4. CASE handle_stop_command(s)
  <2>1. Kept
    BY <1>1, <1>2, <1>4 DEF handle_stop_command
  <2> QED BY <1>4, <2>1, PostEndType DEF handle_stop_command, TypeOK, songs, mixer, Kept
<1>5. CASE handle_upcoming_song_update(s)
  <2>1. Kept
    BY <1>1, <1>2, <1>5 DEF handle_upcoming_song_update
  <2> QED BY <1>5, <2>1 DEF handle_upcoming_song_update, TypeOK, mixer, Kept
<1> QED BY <1>3, <1>4, <1>5

\* The update the playback thread takes names a song.
LEMMA PlaybackUpdate ==
    ASSUME TypeOK, playback
    PROVE  \E s \in Song : \/ handle_play_command(s) \/ handle_stop_command(s)
                           \/ handle_upcoming_song_update(s)
<1>1. Head(server_playback_queue) \in Update
  BY TailType DEF playback, TypeOK
<1> QED BY <1>1, UpdateType DEF playback

LEMMA PlaybackType ==
    ASSUME TypeInv, playback PROVE TypeOK' /\ SharedIsFilled'
<1>1. server_playback_queue' \in Seq(Update)
  BY TailType DEF playback, TypeInv, TypeOK
<1>2. PICK s \in Song : \/ handle_play_command(s) \/ handle_stop_command(s)
                        \/ handle_upcoming_song_update(s)
  BY PlaybackUpdate DEF TypeInv
<1>3. TypeOK'
  BY <1>1, <1>2, HandlerType DEF playback, TypeInv, TypeOK
<1>4. SharedQueued' => SharedQueued
  BY <1>2, HandlerType DEF TypeInv
<1> QED BY <1>3, <1>4 DEF playback, TypeInv, SharedIsFilled

LEMMA CommunicateType ==
    ASSUME TypeInv, communicate PROVE TypeOK' /\ SharedIsFilled'
<1> DEFINE e   == Head(playback_connection_queue)
           msg == IF e = Shared THEN message ELSE e
<1>1. /\ e \in Entry /\ playback_connection_queue' \in Seq(Entry)
      /\ SharedQueued' \/ e = Shared => SharedQueued
  BY TakeType DEF TypeInv
<1>2. msg \in Message /\ (e = Shared => message \in Message)
  BY <1>1 DEF TypeInv, SharedIsFilled, Entry
<1>3. CASE comm' = At("download", msg) /\ next_song_state' = "DOWNLOADING" /\ done(msg)
  <2>1. message' \in Message \cup {NoMessage} /\ (SharedQueued' => message' \in Message)
    BY <1>1, <1>2, <1>3, DoneType
  <2>2. comm' \in CommState /\ comm'.shared = FALSE
    BY <1>2, <1>3 DEF At, CommState
  <2> QED BY <1>1, <1>3, <2>1, <2>2
          DEF communicate, TypeInv, TypeOK, SharedIsFilled, mixer, CommState
<1>4. CASE comm' = Taken(msg, e) /\ UNCHANGED <<next_song_state, message>>
  <2>1. comm' \in CommState /\ (comm'.shared => e = Shared)
    BY <1>2, <1>4 DEF Taken, CommState
  <2> QED BY <1>1, <1>2, <1>4, <2>1
          DEF communicate, TypeInv, TypeOK, SharedIsFilled, mixer, CommState
<1> QED BY <1>3, <1>4 DEF communicate

LEMMA CommType ==
    ASSUME TypeOK, comm.pc \in {"download", "post", "answer"}
    PROVE  comm \in CommState /\ comm.msg \in Message /\ comm.msg.id \in Song
BY DEF TypeOK, Idle, Dead, At, Message, CommState

LEMMA AnsweredType ==
    ASSUME TypeInv, answered PROVE TypeOK' /\ SharedIsFilled'
<1>0. TypeOK
  BY DEF TypeInv
<1>1. comm' \in CommState \cup {Idle} /\ comm'.shared = FALSE
  <2>1. CASE comm' = Idle
    BY <2>1 DEF Idle, At
  <2>2. CASE next_song # UNKNOWN /\ comm' = At("post", Msg("Ready", next_song))
    <3>1. Msg("Ready", next_song) \in Message
      BY <1>0, <2>2, MessageType DEF TypeOK
    <3> QED BY <2>2, <3>1 DEF At, CommState
  <2> QED BY <2>1, <2>2 DEF answered
<1>2. /\ playback_connection_queue' \in Seq(Entry)
      /\ message' \in Message \cup {NoMessage} /\ (SharedQueued' => message' \in Message)
  <2>1. CASE UNCHANGED playback_connection_queue
    <3>1. SharedQueued' => SharedQueued
      BY <2>1 DEF SharedQueued
    <3>2. CASE done(message)
      BY <1>0, <2>1, <3>1, <3>2, DoneType DEF TypeOK
    <3>3. CASE next_song # UNKNOWN /\ done(Msg("Ready", next_song))
      <4>1. Msg("Ready", next_song) \in Message
        BY <1>0, <3>3, MessageType DEF TypeOK
      <4> QED BY <1>0, <2>1, <3>1, <3>3, <4>1, DoneType DEF TypeOK
    <3>4. CASE /\ next_song # UNKNOWN /\ done(Msg("need_song", next_song))
      <4>1. Msg("need_song", next_song) \in Message
        BY <1>0, <3>4, MessageType DEF TypeOK
      <4> QED BY <1>0, <2>1, <3>1, <3>4, <4>1, DoneType DEF TypeOK
    <3> QED BY <3>2, <3>3, <3>4 DEF answered
  <2>2. CASE /\ next_song # UNKNOWN
             /\ put(IF comm.shared THEN Shared ELSE Msg("need_song", next_song))
             /\ done(Msg("need_song", next_song))
    <3>1. Msg("need_song", next_song) \in Message
      BY <1>0, <2>2, MessageType DEF TypeOK
    <3>2. PICK e \in Entry : put(e) /\ (e = Shared => comm.shared)
      BY <2>2, <3>1, NotShared DEF Entry
    <3>3. playback_connection_queue' \in Seq(Entry) /\ (SharedQueued' => SharedQueued \/ comm.shared)
      BY <1>0, <3>2, PutType
    <3> QED BY <2>2, <3>1, <3>3, DoneType
  <2> QED BY <2>1, <2>2 DEF answered
<1> QED BY <1>0, <1>1, <1>2 DEF answered, TypeOK, SharedIsFilled, songs, mixer, CommState

\* Every step keeps the types.
LEMMA TypeStep ==
    ASSUME TypeInv, [Next]_piVars PROVE TypeOK' /\ SharedIsFilled'
<1> USE DEF songs, mixer
<1>0. TypeOK /\ PlayingHasSong /\ SharedIsFilled
  BY DEF TypeInv
<1>1. CASE playback
  BY <1>1, PlaybackType
<1>2. CASE pollEvent
  <2>1. Msg("Stopped", current_song) \in Message
    BY <1>0, <1>2, MessageType DEF pollEvent, PlayingHasSong
  <2>2. playback_connection_queue' \in Seq(Entry)
    BY <1>0, <1>2, PutType DEF pollEvent, Entry
  <2> QED BY <1>0, <1>2, <2>1, <2>2, BoundsAssumption DEF pollEvent, TypeOK, SharedIsFilled
<1>3. CASE communicate
  BY <1>3, CommunicateType
<1>4. CASE handle_need_song
  <2>1. comm.msg.id \in Song
    BY <1>0, <1>4, CommType DEF handle_need_song
  <2>2. Msg("Ready", comm.msg.id) \in Message
    BY <2>1, MessageType
  <2>3. comm' \in CommState \cup {Idle} /\ comm'.shared = FALSE
    <3>1. CASE comm' = Idle
      BY <3>1 DEF Idle, At
    <3>2. CASE comm' = At("post", Msg("Ready", comm.msg.id))
      BY <2>2, <3>2 DEF At, CommState
    <3> QED BY <1>4, <3>1, <3>2 DEF handle_need_song
  <2> QED BY <1>0, <1>4, <2>1, <2>3
          DEF handle_need_song, TypeOK, SharedIsFilled, SharedQueued, CommState
<1>5. CASE post
  <2>1. comm \in CommState
    BY <1>0, <1>5, CommType DEF post
  <2>2. comm' \in CommState /\ comm'.shared = comm.shared
    BY <1>5, <2>1 DEF post, CommState
  <2> QED BY <1>0, <1>5, <2>2 DEF post, TypeOK, SharedIsFilled, SharedQueued, CommState
<1>6. CASE answered
  BY <1>6, AnsweredType
<1>7. CASE commRaises
  <2>1. SharedQueued' => SharedQueued
    BY <1>7 DEF commRaises, SharedQueued
  <2>2. message' \in Message \cup {NoMessage} /\ (SharedQueued' => message' \in Message)
    BY <1>7, <2>1, DoneType DEF commRaises
  <2> QED BY <1>0, <1>7, <2>2 DEF commRaises, TypeOK, SharedIsFilled, Dead, At
<1>8. CASE songEnds
  BY <1>0, <1>8, PostEndType DEF songEnds, TypeOK, SharedIsFilled, SharedQueued
<1>9. ASSUME NEW u \in Update, receive(u) PROVE TypeOK' /\ SharedIsFilled'
  <2>1. server_playback_queue' \in Seq(Update)
    BY <1>0, <1>9, InAppend DEF receive, TypeOK
  <2> QED BY <1>0, <1>9, <2>1 DEF receive, TypeOK, SharedIsFilled, SharedQueued
<1>10. CASE restart
  BY <1>0, <1>10, BoundsAssumption
     DEF restart, TypeOK, SharedIsFilled, SharedQueued, Idle, At, Entry
<1>11. CASE UNCHANGED piVars
  BY <1>0, <1>11 DEF piVars, TypeOK, SharedIsFilled, SharedQueued
<1> QED BY <1>1, <1>2, <1>3, <1>4, <1>5, <1>6, <1>7, <1>8, <1>9, <1>10, <1>11
        DEF Next, PlaybackThread, CommThread

\* Every step keeps a song with what plays.
LEMMA PlayingStep ==
    ASSUME TypeInv, [Next]_piVars PROVE PlayingHasSong'
<1> USE DEF songs, mixer
<1>0. TypeOK /\ PlayingHasSong
  BY DEF TypeInv
<1>1. CASE playback
  <2>1. PICK s \in Song : \/ handle_play_command(s) \/ handle_stop_command(s)
                          \/ handle_upcoming_song_update(s)
    BY <1>0, <1>1, PlaybackUpdate
  <2> QED BY <1>0, <2>1 DEF PlayingHasSong, handle_play_command, handle_stop_command,
                            handle_upcoming_song_update
<1>2. CASE UNCHANGED <<current_song, current_song_state>>
  BY <1>0, <1>2 DEF PlayingHasSong
<1>3. CASE pollEvent \/ restart
  BY <1>3 DEF PlayingHasSong, pollEvent, restart
<1>4. CASE CommThread \/ commRaises \/ songEnds
  BY <1>2, <1>4 DEF CommThread, communicate, handle_need_song, post, answered, commRaises, songEnds
<1>5. ASSUME NEW u \in Update, receive(u) PROVE UNCHANGED <<current_song, current_song_state>>
  BY <1>5 DEF receive
<1> QED BY <1>1, <1>2, <1>3, <1>4, <1>5 DEF Next, PlaybackThread, piVars

\* The globals, the two queues and the communication thread of raspi.py keep
\* their types, however its threads interleave and whatever the server sends.
THEOREM TypeCorrect == Spec => []TypeOK
<1>1. TypeInv /\ [Next]_piVars => TypeInv'
  BY TypeStep, PlayingStep DEF TypeInv
<1>2. TypeInv => TypeOK
  BY DEF TypeInv
<1> QED BY InitType, <1>1, <1>2, PTL DEF Spec

-----------------------------------------------------------------------------
(***************************************************************************)
(* The next song is on its way. The invariant is inductive relative to the *)
(* types: a step that names a new next song finds its file or asks for it, *)
(* and a need_song leaves the queue only for the download.                 *)
(***************************************************************************)
\* A need_song for song s is queued.
Queued(s) == \E i \in 1..Len(playback_connection_queue) :
                playback_connection_queue[i] = Msg("need_song", s)

\* Putting a message keeps what is queued.
LEMMA PutQueues ==
    ASSUME TypeOK, NEW msg \in Entry, put(msg), NEW s \in Song
    PROVE  /\ Queued(s) => Queued(s)'
           /\ msg = Msg("need_song", s) => Queued(s)'
<1> DEFINE q == playback_connection_queue
<1>1. q \in Seq(Entry) /\ q' = Append(q, msg)
  BY DEF put, TypeOK
<1>2. /\ \E j \in 1..Len(q') : q'[j] = msg
      /\ \A i \in 1..Len(q) : \E j \in 1..Len(q') : q'[j] = q[i]
  <2> HIDE DEF q
  <2>1. /\ Len(q') = Len(q) + 1 /\ Len(q) \in Nat /\ q'[Len(q) + 1] = msg
        /\ \A i \in 1..Len(q) : q'[i] = q[i]
    BY <1>1, AppendProperties
  <2> QED BY <2>1
<1>3. ASSUME Queued(s) PROVE Queued(s)'
  <2>1. PICK i \in 1..Len(q) : q[i] = Msg("need_song", s)
    BY <1>3 DEF Queued
  <2>2. PICK j \in 1..Len(q') : q'[j] = q[i]
    BY <1>2, <2>1
  <2> QED BY <2>1, <2>2 DEF Queued, Msg
<1>4. ASSUME msg = Msg("need_song", s) PROVE Queued(s)'
  BY <1>2, <1>4 DEF Queued, Msg
<1> QED BY <1>3, <1>4

\* Taking a message keeps what is queued, but for the message taken.
LEMMA TakeQueues ==
    ASSUME TypeOK, communicate, NEW s \in Song, Queued(s)
    PROVE  Queued(s)' \/ Head(playback_connection_queue) = Msg("need_song", s)
<1>1. PICK i \in 1..Len(playback_connection_queue) :
         playback_connection_queue[i] = Msg("need_song", s)
  BY DEF Queued
<1>2. CASE playback_connection_queue[i] # Head(playback_connection_queue)
  BY <1>1, <1>2, InTail DEF communicate, TypeOK, Queued
<1> QED BY <1>1, <1>2

LEMMA OnItsWayHandlers ==
    ASSUME TypeOK, SongIsOnItsWay, NEW s \in Song,
           handle_play_command(s) \/ handle_stop_command(s) \/ handle_upcoming_song_update(s),
           UNCHANGED <<files, comm>>
    PROVE  SongIsOnItsWay'
<1>1. ASSUME NEW msg \in Message, put(msg), UNCHANGED next_song
      PROVE  SongIsOnItsWay'
  BY <1>1, PutQueues DEF SongIsOnItsWay, Queued, TypeOK, Entry
<1>2. CASE UNCHANGED <<next_song, playback_connection_queue>>
  BY <1>2 DEF SongIsOnItsWay
<1>3. CASE next_song' = UNKNOWN
  BY <1>3 DEF SongIsOnItsWay
<1>4. CASE handle_play_command(s)
  BY <1>1, <1>2, <1>3, <1>4, MessageType DEF handle_play_command, songs
<1>5. CASE handle_stop_command(s)
  BY <1>1, <1>2, <1>5, MessageType DEF handle_stop_command, songs
<1>6. CASE handle_upcoming_song_update(s)
  <2>1. CASE next_song' = s /\ s \in files
    BY <2>1 DEF SongIsOnItsWay
  <2>2. CASE next_song' = s /\ put(Msg("need_song", s))
    BY <2>2, PutQueues, MessageType DEF SongIsOnItsWay, Queued, Entry
  <2> QED BY <1>2, <1>6, <2>1, <2>2 DEF handle_upcoming_song_update, check_for_song
<1> QED BY <1>4, <1>5, <1>6

\* Every step keeps the next song on its way.
LEMMA OnItsWayStep ==
    ASSUME TypeInv, SongIsOnItsWay, [Next]_piVars PROVE SongIsOnItsWay'
<1> USE DEF songs, mixer
<1>0. TypeOK /\ PlayingHasSong
  BY DEF TypeInv
<1>1. CASE playback
  BY <1>0, <1>1, PlaybackUpdate, OnItsWayHandlers DEF playback
<1>2. CASE pollEvent
  <2>1. Shared \in Entry
    BY DEF Entry
  <2> QED BY <1>0, <1>2, <2>1, PutQueues DEF pollEvent, SongIsOnItsWay, Queued, TypeOK
<1>3. CASE communicate
  <2> SUFFICES ASSUME next_song # UNKNOWN, next_song \notin Missing, next_song \notin files
               PROVE  \/ comm'.pc = "download" /\ comm'.msg = Msg("need_song", next_song)
                      \/ Queued(next_song)'
    BY <1>3 DEF communicate, SongIsOnItsWay, Queued
  <2>1. next_song \in Song /\ Queued(next_song)
    BY <1>0, <1>3 DEF TypeOK, communicate, SongIsOnItsWay, Queued, Idle, At
  <2>2. CASE Head(playback_connection_queue) = Msg("need_song", next_song)
    BY <1>3, <2>2 DEF communicate, Msg, Shared, At
  <2>3. UNCHANGED next_song
    BY <1>3 DEF communicate
  <2>4. CASE Queued(next_song)'
    BY <2>4
  <2> QED BY <1>0, <1>3, <2>1, <2>2, <2>3, <2>4, TakeQueues DEF Queued
<1>4. CASE handle_need_song
  BY <1>4 DEF handle_need_song, getSongData, SongIsOnItsWay, At, Msg
<1>5. CASE post
  BY <1>5 DEF post, SongIsOnItsWay, At
<1>6. CASE answered
  <2>1. comm.pc = "answer" /\ UNCHANGED <<next_song, files>>
    BY <1>6 DEF answered
  <2>2. CASE UNCHANGED playback_connection_queue
    BY <2>1, <2>2 DEF SongIsOnItsWay, At
  <2>3. ASSUME NEW e \in Entry, put(e) PROVE SongIsOnItsWay'
    BY <1>0, <2>1, <2>3, PutQueues DEF SongIsOnItsWay, Queued, TypeOK
  <2>4. next_song # UNKNOWN => (IF comm.shared THEN Shared ELSE Msg("need_song", next_song)) \in Entry
    BY <1>0, MessageType DEF Entry, TypeOK
  <2> QED BY <1>6, <2>2, <2>3, <2>4 DEF answered
<1>7. CASE commRaises
  BY <1>7 DEF commRaises, SongIsOnItsWay, Dead, At
<1>8. CASE restart
  BY <1>8 DEF restart, SongIsOnItsWay
<1>9. CASE UNCHANGED <<next_song, files, comm, playback_connection_queue>>
  BY <1>9 DEF SongIsOnItsWay
<1>10. CASE songEnds
  BY <1>9, <1>10 DEF songEnds
<1>11. ASSUME NEW u \in Update, receive(u) PROVE SongIsOnItsWay'
  BY <1>9, <1>11 DEF receive
<1> QED BY <1>1, <1>2, <1>3, <1>4, <1>5, <1>6, <1>7, <1>8, <1>9, <1>10, <1>11
        DEF Next, PlaybackThread, CommThread, piVars

\* While the communication thread lives the file of the next song is on disk,
\* being downloaded or asked for, although another thread may name a new next
\* song between any two of its steps and a finished download marks whatever
\* song is next then.
THEOREM SongIsOnItsWayTheorem == Spec => []SongIsOnItsWay
<1>1. Init => SongIsOnItsWay
  BY DEF Init, SongIsOnItsWay
<1>2. TypeInv /\ SongIsOnItsWay /\ [Next]_piVars => TypeInv' /\ SongIsOnItsWay'
  BY TypeStep, PlayingStep, OnItsWayStep DEF TypeInv
<1> QED BY InitType, <1>1, <1>2, PTL DEF Spec
=============================================================================
