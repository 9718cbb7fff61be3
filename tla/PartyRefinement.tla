-------------------------- MODULE PartyRefinement --------------------------
(***************************************************************************)
(* The parts of Party are the components by themselves: its server is      *)
(* SongManager and its speaker RaspberryPi, in every behaviour.            *)
(***************************************************************************)
EXTENDS Party, SongManagerProofs, SequenceTheorems

-----------------------------------------------------------------------------
(***************************************************************************)
(* The speaker. T is RaspberryPi again, with what is proved of it.         *)
(***************************************************************************)
T == INSTANCE RaspberryPiProofs WITH UNKNOWN <- NoSong, NetworkFails <- FALSE

LEMMA SameSpeaker == (Pi!Init => T!Init) /\ ([Pi!Next]_(Pi!piVars) => [T!Next]_(T!piVars))
BY DEF Pi!Upcoming, T!Upcoming, Pi!Play, T!Play, Pi!Stop, T!Stop, Pi!Update, T!Update,
       Pi!Message, T!Message, Pi!Msg, T!Msg, Pi!NoMessage, T!NoMessage, Pi!Shared, T!Shared,
       Pi!Entry, T!Entry, Pi!SharedQueued, T!SharedQueued, Pi!At, T!At, Pi!Taken, T!Taken,
       Pi!Idle, T!Idle, Pi!Dead, T!Dead, Pi!Init, T!Init, Pi!put, T!put, Pi!postEnd, T!postEnd,
       Pi!check_for_song, T!check_for_song, Pi!handle_play_command, T!handle_play_command,
       Pi!handle_stop_command, T!handle_stop_command, Pi!handle_upcoming_song_update,
       T!handle_upcoming_song_update, Pi!playback, T!playback, Pi!pollEvent, T!pollEvent,
       Pi!songEnds, T!songEnds, Pi!done, T!done, Pi!communicate, T!communicate, Pi!getSongData,
       T!getSongData, Pi!handle_need_song, T!handle_need_song, Pi!post, T!post, Pi!answered,
       T!answered, Pi!commRaises, T!commRaises, Pi!receive, T!receive, Pi!restart, T!restart,
       Pi!PlaybackThread, T!PlaybackThread, Pi!CommThread, T!CommThread, Pi!Next, T!Next,
       Pi!songs, T!songs, Pi!mixer, T!mixer, Pi!piVars, T!piVars

LEMMA SpeakerInitTypes == ASSUME Pi!Init PROVE T!TypeInv
BY SameSpeaker, T!InitType, NoSongAssumption, PartyAssumption

LEMMA SpeakerTypes == ASSUME T!TypeInv, [Pi!Next]_(Pi!piVars) PROVE T!TypeInv'
<1>1. [T!Next]_(T!piVars)
  BY SameSpeaker
<1>2. T!TypeOK' /\ T!SharedIsFilled' /\ T!PlayingHasSong'
  BY <1>1, T!TypeStep, T!PlayingStep, NoSongAssumption, PartyAssumption
<1> QED BY <1>2 DEF T!TypeInv

\* A message that is posted names a song.
LEMMA PostedSong == ASSUME T!TypeInv, comm.pc = "post" PROVE comm.msg.id \in Song
BY DEF T!TypeInv, T!TypeOK, T!Message, T!Idle, T!Dead, T!At

-----------------------------------------------------------------------------
(***************************************************************************)
(* What is under way from the server to the speaker are updates.           *)
(***************************************************************************)
BoxTypes(box) ==
    /\ box \in [pending : Seq(Update), waiting : BOOLEAN, stale : Nat, wire : Seq(Update)]

Types ==
    IInv /\ T!TypeInv /\ BoxTypes(mailbox) /\ client_id \in Speaker \cup {NoSession}

LEMMA SameUpdates == Update = Pi!Update
BY DEF Update, Upcoming, Play, Stop, Pi!Update, Pi!Upcoming, Pi!Play, Pi!Stop

LEMMA EmptyTypes == << >> \in Seq(Update) /\ \A u \in Update : <<u>> \in Seq(Update)
<1> HIDE DEF Update
<1> QED OBVIOUS

LEMMA QueueUpdateTypes ==
    ASSUME NEW box, BoxTypes(box), NEW u \in Update
    PROVE  BoxTypes(queueUpdate(box, u))
<1> HIDE DEF Update
<1> DEFINE p == box.pending
           replaced == [i \in DOMAIN p |-> IF p[i].type = u.type THEN u ELSE p[i]]
<1>1. p \in Seq(Update) /\ box.stale \in Nat
  BY DEF BoxTypes
<1>2. CASE box.stale > 0
  <2>1. box.stale - 1 \in Nat /\ queueUpdate(box, u) = [box EXCEPT !.stale = box.stale - 1]
    BY <1>1, <1>2 DEF queueUpdate
  <2> QED BY <2>1 DEF BoxTypes
<1>3. CASE ~(box.stale > 0) /\ box.waiting
  BY <1>3, EmptyTypes DEF queueUpdate, BoxTypes
<1>4. CASE ~(box.stale > 0) /\ ~box.waiting
  <2>1. replaced \in Seq(Update)
    <3>1. DOMAIN p = 1..Len(p) /\ Len(p) \in Nat /\ \A i \in 1..Len(p) : p[i] \in Update
      BY <1>1
    <3>2. replaced \in [1..Len(p) -> Update]
      BY <3>1
    <3> QED BY <3>1, <3>2, SeqDef
  <2>2. Append(p, u) \in Seq(Update)
    BY <1>1
  <2>3. \/ queueUpdate(box, u) = [box EXCEPT !.pending = replaced]
        \/ queueUpdate(box, u) = [box EXCEPT !.pending = Append(p, u)]
    BY <1>4 DEF queueUpdate
  <2> HIDE DEF replaced
  <2> QED BY <2>1, <2>2, <2>3 DEF BoxTypes
<1> QED BY <1>2, <1>3, <1>4

LEMMA QueueUpdatesTypes ==
    ASSUME NEW box, BoxTypes(box), NEW us \in Seq(Update)
    PROVE  BoxTypes(queueUpdates(box, us))
<1> HIDE DEF Update
<1> DEFINE first == queueUpdate(box, us[1])
<1>1. CASE us = << >>
  BY <1>1 DEF queueUpdates
<1>2. CASE us # << >>
  <2>1. us[1] \in Update /\ (Len(us) # 1 => us[2] \in Update)
    <3> DEFINE n == Len(us)
    <3>1. n \in Nat \ {0}
      BY <1>2, EmptySeq
    <3>2. \A i \in 1..Len(us) : us[i] \in Update
      BY ElementOfSeq
    <3>3. 1 \in 1..n /\ (n # 1 => 2 \in 1..n)
      <4> HIDE DEF n
      <4> QED BY <3>1
    <3> QED BY <3>2, <3>3
  <2>2. BoxTypes(first)
    BY <2>1, QueueUpdateTypes
  <2> QED BY <1>2, <2>1, <2>2, QueueUpdateTypes DEF queueUpdates
<1> QED BY <1>1, <1>2

LEMMA DeliveredTypes ==
    ASSUME BoxTypes(mailbox), out' \in [Speaker -> Seq(Update)],
           client_id \in Speaker \cup {NoSession}, Deliver(client_id)
    PROVE  BoxTypes(mailbox')
<1> HIDE DEF Update
<1>1. CASE client_id = NoSession
  BY <1>1 DEF Deliver, BoxTypes
<1>2. CASE client_id # NoSession
  <2>1. out'[client_id] \in Seq(Update)
    BY <1>2
  <2> QED BY <1>2, <2>1, QueueUpdatesTypes DEF Deliver
<1> QED BY <1>1, <1>2

-----------------------------------------------------------------------------
(***************************************************************************)
(* Steps.                                                                  *)
(***************************************************************************)
\* Steps of which the server knows nothing.
SpeakerOnly ==
    \/ requestUpdate \/ updateReceived \/ pollTimesOut \/ noticeClosed \/ restart
    \/ PlaybackSteps \/ CommSteps \/ songEnds

\* Steps of which the speaker knows nothing.
ServerOnly ==
    \/ connected \/ (\E p \in Speaker : connect(p) \/ readyHandled(p))
    \/ (\E k \in TaskKind : timerStarts(k)) \/ timerRuns \/ userRequests

LEMMA AllSteps == PartyNext <=> SpeakerOnly \/ ServerOnly \/ postStatus
BY DEF PartyNext, UpdateThread, SpeakerOnly, ServerOnly

LEMMA ServerSteps == ASSUME Types, [PartyNext]_allVars PROVE [Next]_vars
<1>1. CASE SpeakerOnly
  <2>1. ServerIdle
    BY <1>1 DEF SpeakerOnly, requestUpdate, updateReceived, pollTimesOut, noticeClosed, restart,
                PlaybackSteps, CommSteps, songEnds
  <2> QED BY <2>1 DEF ServerIdle
<1>2. CASE ServerOnly
  <2>1. CASE connected
    <3>1. client_id \in Speaker
      BY <2>1 DEF connected, authenticate, Types, IInv, TypeOK
    <3> QED BY <2>1, <3>1 DEF connected, Next, SpeakerRequest
  <2>2. ASSUME NEW p \in Speaker, connect(p) \/ readyHandled(p) PROVE Next
    BY <2>2 DEF connect, readyHandled, Next, SpeakerRequest
  <2>3. CASE (\E k \in TaskKind : timerStarts(k)) \/ timerRuns
    BY <2>3 DEF timerStarts, timerRuns, Next, TimerStep
  <2>4. CASE userRequests
    BY <2>4 DEF userRequests, Next
  <2> QED BY <1>2, <2>1, <2>2, <2>3, <2>4 DEF ServerOnly
<1>3. CASE postStatus
  <2>1. client_id \in Speaker
    BY <1>3 DEF postStatus, statusPlaying, statusStopped, statusReady, Connected, Types, IInv, TypeOK
  <2>2. comm.msg.id \in Song
    BY <1>3, PostedSong DEF postStatus, Pi!post, Types
  <2> QED BY <1>3, <2>1, <2>2 DEF postStatus, Next, SpeakerRequest
<1>4. CASE UNCHANGED allVars
  BY <1>4 DEF allVars
<1> QED BY <1>1, <1>2, <1>3, <1>4, AllSteps

LEMMA SpeakerSteps == ASSUME Types, [PartyNext]_allVars PROVE [Pi!Next]_(Pi!piVars)
<1>1. ASSUME UNCHANGED speaker PROVE UNCHANGED Pi!piVars
  BY <1>1 DEF speaker, Pi!piVars, Pi!songs, Pi!mixer
<1>2. CASE updateReceived
  <2> HIDE DEF Update, Pi!Update
  <2>1. Head(mailbox.wire) \in Pi!Update
    BY <1>2, HeadTailProperties, SameUpdates DEF updateReceived, Types, BoxTypes
  <2> QED BY <1>2, <2>1 DEF updateReceived, Pi!Next
<1>3. CASE restart \/ PlaybackSteps \/ CommSteps \/ songEnds \/ postStatus
  BY <1>3 DEF PlaybackSteps, CommSteps, songEnds, postStatus, restart, Pi!Next, Pi!CommThread
<1>4. CASE requestUpdate \/ pollTimesOut \/ noticeClosed
  BY <1>1, <1>4 DEF requestUpdate, pollTimesOut, noticeClosed, SpeakerIdle
<1>5. CASE ServerOnly
  BY <1>1, <1>5 DEF ServerOnly, connected, connect, readyHandled, timerStarts, timerRuns,
                    userRequests, ByServer, SpeakerIdle
<1>6. CASE UNCHANGED allVars
  BY <1>1, <1>6 DEF allVars
<1> QED BY <1>2, <1>3, <1>4, <1>5, <1>6, AllSteps DEF SpeakerOnly

LEMMA LinkSteps ==
    ASSUME Types, [PartyNext]_allVars, out' \in [Speaker -> Seq(Update)]
    PROVE  BoxTypes(mailbox') /\ client_id' \in Speaker \cup {NoSession}
<1> HIDE DEF Update
<1>1. BoxTypes(mailbox) /\ BoxTypes(EmptyMailbox) /\ client_id \in Speaker \cup {NoSession}
  BY EmptyTypes DEF Types, BoxTypes, EmptyMailbox
<1>2. CASE Deliver(client_id) /\ UNCHANGED client_id
  BY <1>1, <1>2, DeliveredTypes
<1>3. CASE UNCHANGED <<mailbox, client_id>>
  BY <1>1, <1>3
<1>4. CASE (\E p \in Speaker : connect(p)) \/ restart
  BY <1>1, <1>4 DEF connect, restart
<1>5. CASE requestUpdate
  <2>1. CASE mailbox.pending = << >>
    BY <1>1, <1>5, <2>1 DEF requestUpdate, BoxTypes
  <2>2. CASE mailbox.pending # << >>
    <3>1. Head(mailbox.pending) \in Update /\ Tail(mailbox.pending) \in Seq(Update)
      BY <1>1, <2>2, HeadTailProperties DEF BoxTypes
    <3>2. <<Head(mailbox.pending)>> \in Seq(Update)
      BY <3>1, EmptyTypes
    <3> QED BY <1>1, <1>5, <2>2, <3>1, <3>2 DEF requestUpdate, BoxTypes
  <2> QED BY <2>1, <2>2
<1>6. CASE updateReceived
  BY <1>1, <1>6, EmptyTypes DEF updateReceived, BoxTypes
<1>7. CASE pollTimesOut
  <2> DEFINE n == IF mailbox.waiting THEN mailbox.stale + 1 ELSE mailbox.stale
  <2>1. n \in Nat
    BY <1>1 DEF BoxTypes
  <2>2. mailbox' = [mailbox EXCEPT !.wire = << >>, !.waiting = FALSE, !.stale = n]
        /\ UNCHANGED client_id
    BY <1>7 DEF pollTimesOut
  <2> HIDE DEF n
  <2> QED BY <1>1, <2>1, <2>2, EmptyTypes DEF BoxTypes
<1>8. CASE noticeClosed
  <2>1. mailbox.stale - 1 \in Nat
    BY <1>1, <1>8 DEF noticeClosed, BoxTypes
  <2> QED BY <1>1, <1>8, <2>1 DEF noticeClosed, BoxTypes
<1>9. CASE connected \/ timerRuns \/ userRequests \/ postStatus
           \/ (\E p \in Speaker : readyHandled(p)) \/ \E k \in TaskKind : timerStarts(k)
  BY <1>2, <1>9 DEF connected, timerRuns, userRequests, postStatus, readyHandled, timerStarts, ByServer
<1>10. CASE PlaybackSteps \/ CommSteps \/ songEnds \/ UNCHANGED allVars
  BY <1>3, <1>10 DEF PlaybackSteps, CommSteps, songEnds, link, allVars
<1> QED BY <1>4, <1>5, <1>6, <1>7, <1>8, <1>9, <1>10, AllSteps DEF SpeakerOnly, ServerOnly

LEMMA TypesStep == ASSUME Types, [PartyNext]_allVars PROVE Types'
<1>1. [Next]_vars /\ [Pi!Next]_(Pi!piVars)
  BY ServerSteps, SpeakerSteps
<1>2. IInv' /\ T!TypeInv'
  BY <1>1, InvStep, SpeakerTypes DEF Types
<1>3. out' \in [Speaker -> Seq(Update)]
  BY <1>2 DEF IInv, TypeOK
<1> QED BY <1>2, <1>3, LinkSteps DEF Types

\* In the composition every variable of the server, the speaker and the
\* connection between them keeps its type.
THEOREM PartyTypes == PartySpec => []Types
<1>1. PartyInit => Types
  BY InitInv, SpeakerInitTypes, EmptyTypes DEF PartyInit, Types, BoxTypes, EmptyMailbox
<1> QED BY <1>1, TypesStep, PTL DEF PartySpec

-----------------------------------------------------------------------------
\* The server of the composition is SongManager with any speakers and users:
\* what is proved of SongManager holds of it.
THEOREM ServerIsSongManager == PartySpec => Spec
<1>1. PartyInit => Init
  BY DEF PartyInit
<1> QED BY <1>1, PartyTypes, ServerSteps, PTL DEF PartySpec, Spec

\* The speaker of the composition is the one of RaspberryPi, whose server may
\* send any update at any time, with requests that do not raise.
THEOREM SpeakerIsRaspberryPi == PartySpec => Pi!Spec
<1>1. PartyInit => Pi!Init
  BY DEF PartyInit
<1> QED BY <1>1, PartyTypes, SpeakerSteps, PTL DEF PartySpec, Pi!Spec
=============================================================================
