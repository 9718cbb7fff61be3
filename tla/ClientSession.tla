---------------------------- MODULE ClientSession ----------------------------
(***************************************************************************)
(* ClientSession.m, LoginViewController.m and PartyViewController.m: a     *)
(* phone that joins a party, shows the votes, leaves and may join again,   *)
(* with what the server does for it: vote counts are broadcast to all      *)
(* sessions, and the queue of a session keeps the newest count or answers  *)
(* one long poll with it.                                                  *)
(*                                                                         *)
(* Every request of the phone is asynchronous: it is sent, handled by the  *)
(* server some time later, and its completion block runs when the response *)
(* arrives. Requests travel on connections of their own and overtake each  *)
(* other. A response goes to the delegate, the screen of that moment. A    *)
(* poll loop is a request_update whose completion block starts the next    *)
(* one, on a background thread, as long as _requestingUpdates is set.      *)
(*                                                                         *)
(* A session is named by the login it belongs to, a state of the votes by  *)
(* the number of votes cast so far.                                        *)
(***************************************************************************)
EXTENDS Integers, Sequences, FiniteSets, SequencesExt

CONSTANTS
    MaxLogins,      \* bound: authenticate requests of the phone; the last party is not left
    MaxVotes,       \* bound: votes cast, by anybody
    MaxFailures,    \* bound: requests the network fails, other than by a timeout
    MaxClosed       \* bound: polls given up by the phone that netty still takes for open

ASSUME PhoneBoundsAssumption ==
    MaxLogins \in Nat /\ MaxVotes \in Nat /\ MaxFailures \in Nat /\ MaxClosed \in Nat

VARIABLES
    \* the phone
    view,                \* the screen: "login", "waiting" behind the overlay, "party"
    clientID,            \* _clientID, or NoID
    requestingUpdates,   \* _requestingUpdates
    shown,               \* the votes in the song list on the screen, or NoCount
    \* requests and their responses
    authenticating,      \* authenticate requests: their login and state
    deauthenticating,    \* deauthenticate requests: their session and state
    lists,               \* lists[n]: the request_song_list of session n
    polls,               \* request_update requests
    \* the server
    live,                \* sessions of this phone
    stored,              \* stored[n]: the count waiting in the queue of session n
    votes,               \* votes in the table
    broadcasts,          \* counts read by getVotes and not yet broadcast
    \* history
    logins,              \* authenticate requests sent
    failures,            \* requests failed by the network
    newest,              \* the newest count broadcast
    seen,                \* the newest count shown or received since the party view was loaded
    crossed              \* a count was lost, or overtaken by a newer one

phone    == <<view, clientID, requestingUpdates, shown>>
requests == <<authenticating, deauthenticating, lists, polls>>
server   == <<live, stored, votes, broadcasts>>
history  == <<logins, failures, newest, seen, crossed>>
vars     == <<phone, requests, server, history>>

Login   == 1..MaxLogins
NoID    == 0
NoCount == -1
Count   == 0..MaxVotes \cup {NoCount}

Request(n, state) == [sid |-> n, state |-> state]
Asked(n, state)   == [sid |-> n, state |-> state, count |-> NoCount]

Init ==
    /\ view = "login" /\ clientID = NoID /\ requestingUpdates = FALSE /\ shown = NoCount
    /\ authenticating = {} /\ deauthenticating = {} /\ polls = <<>>
    /\ lists = [n \in Login |-> Asked(n, "none")]
    /\ live = {} /\ stored = [n \in Login |-> NoCount] /\ votes = 0 /\ broadcasts = {}
    /\ logins = 0 /\ failures = 0 /\ newest = 0 /\ seen = NoCount /\ crossed = FALSE

Newer(a, b) == IF a > b THEN a ELSE b

networkFails == failures < MaxFailures /\ failures' = failures + 1

\* clientDidFailTask: the login view lifts the overlay, whichever request it
\* was; the party view only logs.
clientDidFailTask == view' = IF view = "waiting" THEN "login" ELSE view

-----------------------------------------------------------------------------
(***************************************************************************)
(* Joining and leaving.                                                    *)
(***************************************************************************)
\* enterPressed and authenticateClient.
authenticateClient ==
    /\ view = "login" /\ logins < MaxLogins
    /\ view' = "waiting" /\ logins' = logins + 1
    /\ authenticating' = authenticating \cup {Request(logins + 1, "sent")}
    /\ UNCHANGED <<clientID, requestingUpdates, shown, deauthenticating, lists, polls, server,
                   failures, newest, seen, crossed>>

\* The server creates the session.
createSession(a) ==
    /\ a \in authenticating /\ a.state = "sent"
    /\ authenticating' = (authenticating \ {a}) \cup {Request(a.sid, "created")}
    /\ live' = live \cup {a.sid}
    /\ UNCHANGED <<phone, deauthenticating, lists, polls, stored, votes, broadcasts, history>>

\* The flag is not looked at.
startUpdateRequestsBug(id) ==
    /\ requestingUpdates' = TRUE
    /\ polls' = polls \o <<Asked(id, "sent"), Asked(id, "sent")>>

\* startUpdateRequests, with session id.
startUpdateRequests(id) ==
    IF requestingUpdates THEN UNCHANGED <<requestingUpdates, polls>>
    ELSE requestingUpdates' = TRUE /\ polls' = Append(polls, Asked(id, "sent"))

\* The response of authenticate reaches the login view: the party view is
\* loaded, asks for the song list and starts to poll.
clientDidAuthenticate(a) ==
    /\ a \in authenticating /\ a.state = "created" /\ view # "party"
    /\ authenticating' = authenticating \ {a}
    /\ clientID' = a.sid /\ view' = "party"
    /\ shown' = NoCount /\ seen' = NoCount
    /\ lists' = [lists EXCEPT ![a.sid] = Asked(a.sid, "sent")]
    /\ startUpdateRequests(a.sid)
    /\ UNCHANGED <<deauthenticating, server, logins, failures, newest, crossed>>

\* The response of a second authenticate reaches the party view, which has no
\* clientDidAuthenticate. The poll loop changes over to the new session.
lateAuthenticate(a) ==
    /\ a \in authenticating /\ a.state = "created" /\ view = "party"
    /\ authenticating' = authenticating \ {a}
    /\ clientID' = a.sid
    /\ crossed' = TRUE
    /\ UNCHANGED <<view, requestingUpdates, shown, deauthenticating, lists, polls, server, logins,
                   failures, newest, seen>>

\* The authenticate request fails, before or after the server has handled it.
authenticateFails(a) ==
    /\ a \in authenticating /\ networkFails
    /\ authenticating' = authenticating \ {a}
    /\ clientDidFailTask
    /\ UNCHANGED <<clientID, requestingUpdates, shown, deauthenticating, lists, polls, server,
                   logins, newest, seen, crossed>>

\* The poll loop is not told to stop.
viewWillDisappearBug ==
    /\ view = "party" /\ logins < MaxLogins
    /\ view' = "login"
    /\ deauthenticating' = deauthenticating \cup {Request(clientID, "sent")}
    /\ UNCHANGED <<clientID, requestingUpdates, shown, authenticating, lists, polls, server,
                   history>>

\* viewWillDisappear: stopUpdateRequests and deauthenticateClient. The poll
\* that is open stays open.
viewWillDisappear ==
    /\ view = "party" /\ logins < MaxLogins
    /\ view' = "login"
    /\ requestingUpdates' = FALSE
    /\ deauthenticating' = deauthenticating \cup {Request(clientID, "sent")}
    /\ UNCHANGED <<clientID, shown, authenticating, lists, polls, server, history>>

\* The server destroys the session, if there is one. It does not answer the
\* requests waiting in the session's queue.
destroySession(d) ==
    /\ d \in deauthenticating /\ d.state = "sent"
    /\ live' = live \ {d.sid}
    /\ deauthenticating' = (deauthenticating \ {d}) \cup
          {Request(d.sid, IF d.sid \in live THEN "done" ELSE "refused")}
    /\ UNCHANGED <<phone, authenticating, lists, polls, stored, votes, broadcasts, history>>

\* Success resets _clientID, whatever session it names by now.
deauthenticated(d) ==
    /\ d \in deauthenticating /\ d.state = "done"
    /\ deauthenticating' = deauthenticating \ {d}
    /\ clientID' = NoID
    /\ UNCHANGED <<view, requestingUpdates, shown, authenticating, lists, polls, server, history>>

\* Nothing was destroyed, or the network failed before or after it was.
deauthenticateFails(d) ==
    /\ d \in deauthenticating
    /\ IF d.state = "refused" THEN UNCHANGED failures ELSE networkFails
    /\ deauthenticating' = deauthenticating \ {d}
    /\ clientDidFailTask
    /\ UNCHANGED <<clientID, requestingUpdates, shown, authenticating, lists, polls, server, logins,
                   newest, seen, crossed>>

-----------------------------------------------------------------------------
(***************************************************************************)
(* The song list.                                                          *)
(***************************************************************************)
\* The server reads the list, with its votes, for a valid session.
getSongList(n) ==
    /\ lists[n].state = "sent"
    /\ lists' = [lists EXCEPT ![n] = IF n \in live
                                     THEN [@ EXCEPT !.state = "read", !.count = votes]
                                     ELSE [@ EXCEPT !.state = "refused"]]
    /\ UNCHANGED <<phone, authenticating, deauthenticating, polls, server, history>>

\* What arrives at the party view is recorded: c is late if a newer count has
\* been received.
receive(c) ==
    /\ crossed' = (crossed \/ c < seen)
    /\ seen' = Newer(seen, c)

\* clientDidReceiveSongList: the list replaces the one on the screen. The
\* login view has no such method.
clientDidReceiveSongList(n) ==
    /\ lists[n].state = "read"
    /\ lists' = [lists EXCEPT ![n] = Asked(n, "none")]
    /\ IF view = "party" THEN shown' = lists[n].count /\ receive(lists[n].count)
                         ELSE UNCHANGED <<shown, seen, crossed>>
    /\ UNCHANGED <<view, clientID, requestingUpdates, authenticating, deauthenticating, polls,
                   server, logins, failures, newest>>

\* The list never comes: it was refused, or the network failed.
requestSongListFails(n) ==
    /\ lists[n].state # "none"
    /\ IF lists[n].state = "refused" THEN UNCHANGED failures ELSE networkFails
    /\ lists' = [lists EXCEPT ![n] = Asked(n, "none")]
    /\ clientDidFailTask
    /\ crossed' = TRUE
    /\ UNCHANGED <<clientID, requestingUpdates, shown, authenticating, deauthenticating, polls,
                   server, logins, newest, seen>>

-----------------------------------------------------------------------------
(***************************************************************************)
(* Votes and the queue of a session.                                       *)
(***************************************************************************)
\* The vote is counted twice.
voteBug ==
    /\ votes < MaxVotes
    /\ votes' = votes + 1
    /\ broadcasts' = broadcasts \cup {votes + 2}
    /\ UNCHANGED <<phone, requests, live, stored, history>>

\* SongManager.vote: somebody's vote is inserted and the votes are counted.
vote ==
    /\ votes < MaxVotes
    /\ votes' = votes + 1
    /\ broadcasts' = broadcasts \cup {votes + 1}
    /\ UNCHANGED <<phone, requests, live, stored, history>>

\* Requests that wait in the queue of session n. The queue does not know yet
\* that the phone has given up on a "closed" one.
InQueue(n, i) == polls[i].sid = n /\ polls[i].state \in {"waiting", "closed"}
FirstInQueue(n, i) == InQueue(n, i) /\ \A j \in 1..i - 1 : ~InQueue(n, j)
HasRequest(n) == \E i \in 1..Len(polls) : InQueue(n, i)
Answered(i) == polls[i].sid \in live /\ FirstInQueue(polls[i].sid, i)

\* An update that no request waits for is dropped.
queueUpdateBug(c) ==
    /\ polls' = [i \in 1..Len(polls) |->
                    IF Answered(i) THEN [polls[i] EXCEPT !.count = c, !.state = "answered"] ELSE polls[i]]
    /\ UNCHANGED stored

\* Session.sendUpdate for all sessions: the first waiting request is answered,
\* for nobody if the phone has given it up, or the update replaces what is
\* stored.
queueUpdate(c) ==
    /\ polls' = [i \in 1..Len(polls) |->
                    IF Answered(i) THEN [sid |-> polls[i].sid, count |-> c,
                                         state |-> IF polls[i].state = "closed" THEN "lost" ELSE "answered"]
                                   ELSE polls[i]]
    /\ stored' = [n \in Login |-> IF n \in live /\ ~HasRequest(n) THEN c ELSE stored[n]]

\* broadcastUpdate of a count that was read earlier.
broadcastUpdate(c) ==
    /\ c \in broadcasts
    /\ broadcasts' = broadcasts \ {c}
    /\ queueUpdate(c)
    /\ newest' = Newer(newest, c)
    /\ crossed' = (crossed \/ c < newest \/
                   \E i \in 1..Len(polls) : Answered(i) /\ polls[i].state = "closed")
    /\ UNCHANGED <<phone, authenticating, deauthenticating, lists, live, votes, logins, failures,
                   seen>>

-----------------------------------------------------------------------------
(***************************************************************************)
(* The poll loop. Polls that are no longer needed leave the sequence.      *)
(***************************************************************************)
\* updateRequestLoop, on the background thread.
updateRequestLoop(i) ==
    /\ polls[i].state = "again"
    /\ polls' = [polls EXCEPT ![i] = Asked(clientID, "sent")]
    /\ UNCHANGED <<phone, authenticating, deauthenticating, lists, server, history>>

\* The server registers the request: it is answered with a stored update,
\* waits, or is refused because its session is not valid.
registerRequest(i) ==
    /\ polls[i].state = "sent"
    /\ LET n == polls[i].sid
       IN  IF n \in live
           THEN /\ polls' = [polls EXCEPT ![i] =
                       [@ EXCEPT !.count = stored[n],
                                 !.state = IF stored[n] = NoCount THEN "waiting" ELSE "answered"]]
                /\ stored' = [stored EXCEPT ![n] = NoCount]
           ELSE polls' = [polls EXCEPT ![i].state = "refused"] /\ UNCHANGED stored
    /\ UNCHANGED <<phone, authenticating, deauthenticating, lists, live, votes, broadcasts, history>>

\* The polls left when poll i has ended for the phone. The server still holds
\* a request it has not answered.
Ended(i) == IF polls[i].state = "waiting" THEN [polls EXCEPT ![i].state = "closed"]
                                          ELSE RemoveAt(polls, i)

mayClose(i) ==
    polls[i].state = "waiting" =>
       Cardinality({j \in 1..Len(polls) : polls[j].state \in {"closed", "lost"}}) < MaxClosed

\* The flag is looked at when the poll ends.
pollAgain(i) ==
    polls' = IF requestingUpdates THEN Append(Ended(i), Asked(NoID, "again")) ELSE Ended(i)

\* The success block: the votes on the screen are replaced if there is a list.
updateSuccess(i) ==
    /\ polls[i].state = "answered"
    /\ IF view = "party"
       THEN /\ shown' = IF shown = NoCount THEN NoCount ELSE polls[i].count
            /\ receive(polls[i].count)
       ELSE UNCHANGED <<shown, seen, crossed>>
    /\ pollAgain(i)
    /\ UNCHANGED <<view, clientID, requestingUpdates, authenticating, deauthenticating, lists,
                   server, logins, failures, newest>>

\* A timeout ends the loop.
updateTimeoutBug(i) ==
    /\ polls[i].state \in {"sent", "waiting", "answered"} /\ mayClose(i)
    /\ polls' = Ended(i)
    /\ crossed' = (crossed \/ polls[i].state = "answered")
    /\ UNCHANGED <<phone, authenticating, deauthenticating, lists, server, logins, failures, newest,
                   seen>>

\* Error -1001: no response for 30 seconds. One that is under way is lost, and
\* so is a request that has not reached the server yet.
updateTimeout(i) ==
    /\ polls[i].state \in {"sent", "waiting", "answered"} /\ mayClose(i)
    /\ pollAgain(i)
    /\ crossed' = (crossed \/ polls[i].state = "answered")
    /\ UNCHANGED <<phone, authenticating, deauthenticating, lists, server, logins, failures, newest,
                   seen>>

\* Any other error, of this loop or of one left over from an earlier login,
\* resets the flag.
updateFailure(i) ==
    /\ \/ polls[i].state = "refused" /\ UNCHANGED failures
       \/ polls[i].state \in {"sent", "waiting", "answered"} /\ mayClose(i) /\ networkFails
    /\ clientDidFailTask
    /\ requestingUpdates' = FALSE
    /\ polls' = Ended(i)
    /\ crossed' = (crossed \/ polls[i].state = "answered")
    /\ UNCHANGED <<clientID, shown, authenticating, deauthenticating, lists, server, logins,
                   newest, seen>>

\* netty notices that the phone has closed the connection.
channelInactive(i) ==
    /\ polls[i].state \in {"closed", "lost"}
    /\ polls' = RemoveAt(polls, i)
    /\ UNCHANGED <<phone, authenticating, deauthenticating, lists, server, history>>

-----------------------------------------------------------------------------
User == authenticateClient \/ viewWillDisappear \/ vote

\* What answers requests other than polls, and what goes on in the server.
Responses ==
    \/ \E a \in authenticating : createSession(a) \/ clientDidAuthenticate(a) \/ lateAuthenticate(a)
    \/ \E d \in deauthenticating : destroySession(d) \/ deauthenticated(d) \/ deauthenticateFails(d)
    \/ \E n \in Login : getSongList(n) \/ clientDidReceiveSongList(n) \/ requestSongListFails(n)
    \/ \E c \in broadcasts : broadcastUpdate(c)

PollStep(i) == updateRequestLoop(i) \/ registerRequest(i) \/ updateSuccess(i) \/ channelInactive(i)
PollEnd     == \E i \in 1..Len(polls) : updateTimeout(i) \/ updateFailure(i)

Next ==
    \/ User \/ Responses \/ PollEnd
    \/ \E a \in authenticating : authenticateFails(a)
    \/ \E i \in 1..Len(polls) : PollStep(i)

Spec == Init /\ [][Next]_vars

\* Requests are handled and their responses arrive; a thread that has read the
\* votes goes on to broadcast them; the phone gives up a poll after 30 seconds,
\* and when polls are sent again and again, some reach the server in time. The
\* user owes nothing. A poll only moves forward in the sequence, so fairness by
\* place is fairness to it.
FairSpec ==
    /\ Spec
    /\ WF_vars(Responses) /\ WF_vars(PollEnd)
    /\ SF_vars(\E i \in 1..Len(polls) : registerRequest(i))
    /\ \A i \in 1..MaxLogins + MaxClosed : WF_vars(i \in DOMAIN polls /\ PollStep(i))
-----------------------------------------------------------------------------
Poll == [sid : Login \cup {NoID}, count : Count,
         state : {"again", "sent", "waiting", "answered", "refused", "closed", "lost"}]

\* Every variable has its type.
TypeOK ==
    /\ view \in {"login", "waiting", "party"} /\ clientID \in Login \cup {NoID}
    /\ requestingUpdates \in BOOLEAN /\ shown \in Count
    /\ authenticating \subseteq [sid : Login, state : {"sent", "created"}]
    /\ deauthenticating \subseteq [sid : Login \cup {NoID}, state : {"sent", "done", "refused"}]
    /\ lists \in [Login -> [sid : Login, state : {"none", "sent", "read", "refused"}, count : Count]]
    /\ polls \in Seq(Poll)
    /\ live \subseteq Login /\ stored \in [Login -> Count]
    /\ votes \in 0..MaxVotes /\ broadcasts \subseteq Count
    /\ logins \in 0..MaxLogins /\ failures \in 0..MaxFailures
    /\ newest \in Count /\ seen \in Count /\ crossed \in BOOLEAN

\* The polls the phone waits for: each is a poll loop.
Loops == {i \in 1..Len(polls) : polls[i].state \notin {"closed", "lost"}}

\* While _requestingUpdates is set a poll loop is running, through timeouts,
\* errors and changes of the session: startUpdateRequests, which starts none
\* when the flag is set, can rely on it.
PollingIsReal == requestingUpdates => Loops # {}

\* A loop that is left over when the user leaves may be revived by the next
\* login, so the phone may run two; but never more than it has joined parties.
LoopsBounded == Cardinality(Loops) <= logins

\* The loops of a user who has left come to an end, and so does what the
\* server keeps for them.
LoopsEnd == view = "login" ~> polls = <<>> \/ view # "login"

\* A phone in the party shows the newest votes again and again, unless its
\* polling was stopped by an error or a count was lost or overtaken.
ShowsLatest == []<>(shown = votes \/ crossed \/ view # "party" \/ ~requestingUpdates)
=============================================================================
