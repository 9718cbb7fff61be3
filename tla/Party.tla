------------------------------- MODULE Party -------------------------------
(***************************************************************************)
(* The server's SongManager, one speaker running raspi.py, the update      *)
(* queue of its session and the network between them.                      *)
(*                                                                         *)
(* The speaker holds at most one long-poll request open. A request that    *)
(* times out leaves a channel behind that the server takes for alive until *)
(* it notices. A speaker that is restarted gets a new session; nobody      *)
(* polls the old one.                                                      *)
(***************************************************************************)
EXTENDS SongManager

CONSTANTS
    Missing,        \* songs whose file the server can no longer read
    StopPostsEnd,   \* does music.stop() make pygame post the end event?
    MaxQueue,       \* bound: length of the speaker's two queues
    MaxEvents,      \* size of pygame's event queue
    MaxTimeouts     \* bound: polls that time out

ASSUME PartyAssumption ==
    StopPostsEnd \in BOOLEAN /\ Missing \subseteq Song
    /\ MaxQueue \in Nat /\ MaxEvents \in Nat /\ MaxTimeouts \in Nat

VARIABLES
    \* raspi.py
    current_song, current_song_state, next_song, next_song_state, files,
    server_playback_queue, playback_connection_queue, message, comm, music, endEvents,
    \* the update thread and the server's side of it
    update_thread,   \* what update_func does
    client_id,       \* the session of the speaker, or NoSession
    mailbox,         \* the session's update queue and the open request
    timeouts         \* polls that have timed out

Pi == INSTANCE RaspberryPi WITH UNKNOWN <- NoSong, NetworkFails <- FALSE

speaker == <<current_song, current_song_state, next_song, next_song_state, files,
             server_playback_queue, playback_connection_queue, message, comm, music, endEvents>>
link    == <<update_thread, client_id, mailbox, timeouts>>
allVars == <<vars, speaker, link>>

NoSession    == "none"
EmptyMailbox == [pending |-> <<>>, waiting |-> FALSE, stale |-> 0, wire |-> <<>>]

PartyInit ==
    /\ Init /\ Pi!Init
    /\ update_thread = "authenticate" /\ client_id = NoSession
    /\ mailbox = EmptyMailbox /\ timeouts = 0

-----------------------------------------------------------------------------
(***************************************************************************)
(* Session.sendUpdate: what SessionUpdateQueue does with an update of the  *)
(* speaker's session. Dead channels are ahead of the open one in the queue, *)
(* and an update written to one that is taken for alive is lost.            *)
(***************************************************************************)
queueUpdate(box, u) ==
    IF box.stale > 0 THEN [box EXCEPT !.stale = @ - 1]
    ELSE IF box.waiting THEN [box EXCEPT !.waiting = FALSE, !.wire = <<u>>]
    ELSE IF \E i \in DOMAIN box.pending : box.pending[i].type = u.type
    THEN [box EXCEPT !.pending =
             [i \in DOMAIN @ |-> IF @[i].type = u.type THEN u ELSE @[i]]]
    ELSE [box EXCEPT !.pending = Append(@, u)]

\* A step of the server gives a session two updates at most.
queueUpdates(box, us) ==
    LET first == queueUpdate(box, us[1])
    IN  IF us = <<>> THEN box
        ELSE IF Len(us) = 1 THEN first ELSE queueUpdate(first, us[2])

\* The server's step has filled out; the speaker's session gets its part.
Deliver(p) ==
    mailbox' = IF p = NoSession THEN mailbox ELSE queueUpdates(mailbox, out'[p])

ServerIdle  == UNCHANGED vars
SpeakerIdle == UNCHANGED speaker

-----------------------------------------------------------------------------
(***************************************************************************)
(* The update thread.                                                      *)
(***************************************************************************)
\* The speaker asks for a session ...
connect(p) ==
    /\ update_thread = "authenticate"
    /\ createSession(p)
    /\ update_thread' = "authenticating" /\ client_id' = p /\ mailbox' = EmptyMailbox
    /\ SpeakerIdle /\ UNCHANGED timeouts

\* ... and gets its id, or an error, which ends the thread.
connected ==
    /\ update_thread = "authenticating"
    /\ authenticate(client_id) /\ Deliver(client_id)
    /\ update_thread' = IF Welcomes THEN "request" ELSE "ended"
    /\ SpeakerIdle /\ UNCHANGED <<client_id, timeouts>>

\* request_update: SpeakerHandler.requestUpdate, SessionUpdateQueue.queueRequest.
requestUpdate ==
    /\ update_thread = "request"
    /\ update_thread' = "wait"
    /\ mailbox' = IF mailbox.pending = <<>> THEN [mailbox EXCEPT !.waiting = TRUE]
                  ELSE [mailbox EXCEPT !.pending = Tail(@), !.wire = <<Head(mailbox.pending)>>]
    /\ ServerIdle /\ SpeakerIdle /\ UNCHANGED <<client_id, timeouts>>

\* The response arrives.
updateReceived ==
    /\ update_thread = "wait" /\ mailbox.wire # <<>>
    /\ Pi!receive(Head(mailbox.wire))
    /\ mailbox' = [mailbox EXCEPT !.wire = <<>>]
    /\ update_thread' = "request"
    /\ ServerIdle /\ UNCHANGED <<client_id, timeouts>>

\* socket.timeout: the poll is given up, with the response if one is under
\* way, and sent again.
pollTimesOut ==
    /\ update_thread = "wait" /\ timeouts < MaxTimeouts
    /\ timeouts' = timeouts + 1
    /\ update_thread' = "request"
    /\ mailbox' = [mailbox EXCEPT !.wire = <<>>, !.waiting = FALSE,
                                    !.stale = IF mailbox.waiting THEN @ + 1 ELSE @]
    /\ ServerIdle /\ SpeakerIdle /\ UNCHANGED client_id

\* netty: the server notices that a channel is closed.
noticeClosed ==
    /\ mailbox.stale > 0
    /\ mailbox' = [mailbox EXCEPT !.stale = @ - 1]
    /\ ServerIdle /\ SpeakerIdle /\ UNCHANGED <<update_thread, client_id, timeouts>>

\* The speaker is killed and started again.
restart ==
    /\ client_id # NoSession /\ speakers # Speaker
    /\ update_thread # "authenticating"
    /\ Pi!restart
    /\ update_thread' = "authenticate" /\ client_id' = NoSession /\ mailbox' = EmptyMailbox
    /\ ServerIdle /\ UNCHANGED timeouts

-----------------------------------------------------------------------------
(***************************************************************************)
(* The communication thread posts, the server handles.                     *)
(***************************************************************************)
postStatus ==
    /\ Pi!post
    /\ LET msg == comm.msg
       IN  \/ msg.status = "Playing" /\ statusPlaying(client_id, msg.id)
           \/ msg.status = "Stopped" /\ statusStopped(client_id)
           \/ msg.status = "Ready"   /\ statusReady(client_id, msg.id)
    /\ Deliver(client_id)
    /\ UNCHANGED <<update_thread, client_id, timeouts>>

\* The second half of the server's handler for Ready.
readyHandled(p) ==
    /\ answerReady(p) /\ Deliver(client_id)
    /\ SpeakerIdle /\ UNCHANGED <<update_thread, client_id, timeouts>>

\* The speaker's other steps. The answer to Ready comes when it is handled.
CommSteps ==
    /\ \/ Pi!communicate \/ Pi!handle_need_song
       \/ Pi!answered /\ readying[client_id] = NotReady
    /\ ServerIdle /\ UNCHANGED link

PlaybackSteps == Pi!PlaybackThread /\ ServerIdle /\ UNCHANGED link

songEnds == Pi!songEnds /\ ServerIdle /\ UNCHANGED link

-----------------------------------------------------------------------------
(***************************************************************************)
(* Steps of the server that no speaker asked for.                          *)
(***************************************************************************)
ByServer == Deliver(client_id) /\ SpeakerIdle /\ UNCHANGED <<update_thread, client_id, timeouts>>

timerStarts(k) == startTask(k) /\ ByServer
timerRuns      ==
    /\ \/ runEndOfSong \/ runStop
       \/ runReminder \/ queryReminder \/ storeReminder \/ tellReminder
    /\ ByServer
userRequests   == (\E u \in User : UserRequest(u)) /\ ByServer

UpdateThread == connected \/ requestUpdate \/ updateReceived \/ \E p \in Speaker : connect(p)

PartyNext ==
    \/ UpdateThread \/ PlaybackSteps \/ CommSteps \/ postStatus \/ songEnds
    \/ pollTimesOut \/ noticeClosed \/ restart
    \/ \E p \in Speaker : readyHandled(p)
    \/ \E k \in TaskKind : timerStarts(k)
    \/ timerRuns \/ userRequests

\* Every thread of the speaker and of the server goes on when it can, songs
\* end, timers fire and requests that have begun are finished. Nobody has to
\* rate, no poll has to time out and no speaker has to be restarted.
Fairness ==
    /\ WF_allVars(UpdateThread) /\ WF_allVars(PlaybackSteps)
    /\ WF_allVars(CommSteps \/ postStatus) /\ WF_allVars(songEnds)
    /\ WF_allVars(noticeClosed)
    /\ \A p \in Speaker : WF_allVars(readyHandled(p))
    /\ \A k \in TaskKind : WF_allVars(timerStarts(k))
    /\ WF_allVars(timerRuns)
    /\ \A u \in User : WF_allVars((countDislikes(u) \/ decideSkip(u)) /\ ByServer)

PartySpec == PartyInit /\ [][PartyNext]_allVars

FairPartySpec == PartySpec /\ Fairness

-----------------------------------------------------------------------------
\* The flow of control of the protocol, "(goto step 1)": a song is always
\* followed by another one.
MusicGoesOn == []<><<activeSong' # activeSong>>_activeSong

\* The same, unless a reminder is overtaken.
MusicGoesOnInTime == MusicGoesOn \/ <>overtaken

(***************************************************************************)
(* What server and speaker know of each other. A reminder that stores or   *)
(* announces an outdated song can break all of it, so all of it is stated  *)
(* for as long as none has.                                                *)
(***************************************************************************)
\* The speaker plays nothing the server has not chosen: the song it plays is
\* the active one or, until the server has heard of it, the next one.
SpeakerPlaysChosen ==
    ~overtaken /\ current_song_state = "PLAYING" => current_song \in {activeSong, nextSong}

\* A Playing that is under way announces the server's next song, so that the
\* correction of "Incorrect song being played" is never needed for one speaker.
PlayingIsExpected ==
    LET Expected(msg) == msg.status = "Playing" => msg.id = nextSong
    IN  ~overtaken =>
        /\ \A i \in DOMAIN playback_connection_queue : Expected(playback_connection_queue[i])
        /\ comm.pc = "post" => Expected(comm.msg)

\* The end of the active song is reported: until the server has been told that
\* it stopped, a Stopped is queued or being posted, although the playback
\* thread fills in one dictionary for all of them and the communication thread
\* writes other messages into the dictionary it has taken.
EndIsReported ==
    ~overtaken /\ current_song_state = "STOPPED" /\ current_song = activeSong /\ status[activeSong] = "Playing" =>
       \/ comm.pc = "post" /\ comm.msg.status = "Stopped"
       \/ \E i \in DOMAIN playback_connection_queue :
             LET e == playback_connection_queue[i]
             IN  (IF e = Pi!Shared THEN message ELSE e).status = "Stopped"

\* "Client sends READY message with ID of song ready to play": although the
\* communication thread marks the next song READY whatever song it has
\* downloaded, and asks for a song twice when it is announced twice, a Ready
\* names a song whose file is there.
ReadyIsOnDisk ==
    ~overtaken /\ comm.pc = "post" /\ comm.msg.status = "Ready" => comm.msg.id \in files

\* A speaker that takes a song for playing plays it or is about to notice its
\* end: it never waits for the end of a song that it could not load.
NotWedged ==
    ~overtaken /\ current_song_state = "PLAYING" => music = current_song \/ endEvents > 0
=============================================================================
