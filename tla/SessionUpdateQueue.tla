------------------------- MODULE SessionUpdateQueue -------------------------
(***************************************************************************)
(* SessionUpdateQueue.java: the queue every session of the server owns. It *)
(* matches the long-poll requests of one client (channels that wait for an *)
(* answer) with the updates the server has for it. Every operation is one  *)
(* synchronized block, hence one action.                                   *)
(*                                                                         *)
(* An update is its type and its number among the updates of that type:    *)
(* the payload does not matter to the queue, only which of two updates of  *)
(* a type is the newer one. Channels are netty's; of a channel the queue   *)
(* observes isActive() and writes at most one response to it, after which  *)
(* the server closes it.                                                   *)
(***************************************************************************)
EXTENDS Integers, Sequences

CONSTANTS
    UpdateType,   \* SessionUpdate.UpdateType
    Channel,      \* the connections of one client
    MaxUpdates    \* bound: updates of each type in a behaviour

ASSUME MaxUpdatesAssumption == MaxUpdates \in Nat

VARIABLES
    channelQueue,      \* requests waiting for an update, oldest first
    updateTypeQueue,   \* types with an update waiting, oldest first
    updates,           \* updates[t]: the waiting update of type t, or NoUpdate
    active,            \* channels whose isActive() is true
    wire,              \* wire[c]: the response written to c, or NoResponse
    sent,              \* history: updates of each type given to queueUpdate
    handed             \* history: last update of each type written to a channel

vars == <<channelQueue, updateTypeQueue, updates, active, wire, sent, handed>>

NoUpdate   == 0
NoResponse == [type |-> "none", version |-> NoUpdate]
Response   == [type : UpdateType, version : Nat \ {NoUpdate}]

Elements(q) == {q[i] : i \in 1..Len(q)}

Init ==
    /\ channelQueue    = <<>>
    /\ updateTypeQueue = <<>>
    /\ updates = [t \in UpdateType |-> NoUpdate]
    /\ active  = {}
    /\ wire    = [c \in Channel |-> NoResponse]
    /\ sent    = [t \in UpdateType |-> 0]
    /\ handed  = [t \in UpdateType |-> 0]

-----------------------------------------------------------------------------
\* RequestHandler.sendResponse: the update of type t and number v is written
\* to channel c. A write to a channel whose peer is gone fails without the
\* queue learning of it.
sendResponse(c, t, v) ==
    /\ wire'   = [wire EXCEPT ![c] = [type |-> t, version |-> v]]
    /\ handed' = [handed EXCEPT ![t] = v]

\* updateQueueSize: the channels of q from the first active one on.
updateQueueSize(q) ==
    LET first == CHOOSE k \in 1..Len(q) + 1 :
                    /\ \A i \in 1..k - 1 : q[i] \notin active
                    /\ k = Len(q) + 1 \/ q[k] \in active
    IN  SubSeq(q, first, Len(q))

(***************************************************************************)
(* Altered forms of the two operations, each with a bug the operation      *)
(* could plausibly have. No specification uses them; they show that the    *)
(* properties below can fail.                                              *)
(***************************************************************************)
\* The type stays queued and its update stays stored when it is sent.
queueRequestPeeks(c) ==
    /\ c \in active /\ wire[c] = NoResponse /\ c \notin Elements(channelQueue)
    /\ IF updateTypeQueue # <<>>
       THEN /\ sendResponse(c, Head(updateTypeQueue), updates[Head(updateTypeQueue)])
            /\ UNCHANGED channelQueue
       ELSE /\ channelQueue' = Append(channelQueue, c)
            /\ UNCHANGED <<wire, handed>>
    /\ UNCHANGED <<updates, updateTypeQueue, active, sent>>

\* The update is removed, its type stays queued, and whether there is an
\* update for the type is not checked.
queueRequestNoCheck(c) ==
    /\ c \in active /\ wire[c] = NoResponse /\ c \notin Elements(channelQueue)
    /\ IF updateTypeQueue # <<>>
       THEN LET t == Head(updateTypeQueue)
            IN  /\ updates' = [updates EXCEPT ![t] = NoUpdate]
                /\ sendResponse(c, t, updates[t])
                /\ UNCHANGED channelQueue
       ELSE /\ channelQueue' = Append(channelQueue, c)
            /\ UNCHANGED <<updates, wire, handed>>
    /\ UNCHANGED <<updateTypeQueue, active, sent>>

\* An update that replaces another one queues its type a second time.
queueUpdateRequeues(t) ==
    /\ sent[t] < MaxUpdates
    /\ sent' = [sent EXCEPT ![t] = @ + 1]
    /\ LET waiting == updateQueueSize(channelQueue)
       IN  IF waiting # <<>>
           THEN /\ sendResponse(Head(waiting), t, sent[t] + 1)
                /\ channelQueue' = Tail(waiting)
                /\ UNCHANGED <<updates, updateTypeQueue>>
           ELSE /\ channelQueue' = waiting
                /\ updates' = [updates EXCEPT ![t] = sent[t] + 1]
                /\ updateTypeQueue' = Append(updateTypeQueue, t)
                /\ UNCHANGED <<wire, handed>>
    /\ UNCHANGED active

\* An update that replaces another one goes to the end of the queue.
queueUpdateToTail(t) ==
    /\ sent[t] < MaxUpdates
    /\ sent' = [sent EXCEPT ![t] = @ + 1]
    /\ LET waiting == updateQueueSize(channelQueue)
       IN  IF waiting # <<>>
           THEN /\ sendResponse(Head(waiting), t, sent[t] + 1)
                /\ channelQueue' = Tail(waiting)
                /\ UNCHANGED <<updates, updateTypeQueue>>
           ELSE /\ channelQueue' = waiting
                /\ updates' = [updates EXCEPT ![t] = sent[t] + 1]
                /\ updateTypeQueue' =
                       Append(SelectSeq(updateTypeQueue, LAMBDA u : u # t), t)
                /\ UNCHANGED <<wire, handed>>
    /\ UNCHANGED active

\* The old update of a type is kept when a newer one comes.
queueUpdateKeepsOld(t) ==
    /\ sent[t] < MaxUpdates
    /\ sent' = [sent EXCEPT ![t] = @ + 1]
    /\ LET waiting == updateQueueSize(channelQueue)
       IN  IF waiting # <<>>
           THEN /\ sendResponse(Head(waiting), t, sent[t] + 1)
                /\ channelQueue' = Tail(waiting)
                /\ UNCHANGED <<updates, updateTypeQueue>>
           ELSE /\ channelQueue' = waiting
                /\ IF updates[t] # NoUpdate
                   THEN UNCHANGED <<updates, updateTypeQueue>>
                   ELSE /\ updates' = [updates EXCEPT ![t] = sent[t] + 1]
                        /\ updateTypeQueue' = Append(updateTypeQueue, t)
                /\ UNCHANGED <<wire, handed>>
    /\ UNCHANGED active

\* A closed channel at the head is not removed, only not written to.
queueUpdateSkipsClosedHead(t) ==
    /\ sent[t] < MaxUpdates
    /\ sent' = [sent EXCEPT ![t] = @ + 1]
    /\ IF channelQueue # <<>> /\ Head(channelQueue) \in active
       THEN /\ sendResponse(Head(channelQueue), t, sent[t] + 1)
            /\ channelQueue' = Tail(channelQueue)
            /\ UNCHANGED <<updates, updateTypeQueue>>
       ELSE /\ updates' = [updates EXCEPT ![t] = sent[t] + 1]
            /\ updateTypeQueue' = IF updates[t] # NoUpdate THEN updateTypeQueue
                                  ELSE Append(updateTypeQueue, t)
            /\ UNCHANGED <<channelQueue, wire, handed>>
    /\ UNCHANGED active

-----------------------------------------------------------------------------
\* queueRequest(ch): a long-poll request takes the oldest waiting update or
\* waits itself. A connection carries one request.
queueRequest(c) ==
    /\ c \in active /\ wire[c] = NoResponse /\ c \notin Elements(channelQueue)
    /\ IF updateTypeQueue # <<>>
       THEN LET t == Head(updateTypeQueue)
            IN  /\ updateTypeQueue' = Tail(updateTypeQueue)
                /\ IF updates[t] # NoUpdate
                   THEN /\ updates' = [updates EXCEPT ![t] = NoUpdate]
                        /\ sendResponse(c, t, updates[t])
                        /\ UNCHANGED channelQueue
                   ELSE /\ channelQueue' = Append(channelQueue, c)
                        /\ UNCHANGED <<updates, wire, handed>>
       ELSE /\ channelQueue' = Append(channelQueue, c)
            /\ UNCHANGED <<updates, updateTypeQueue, wire, handed>>
    /\ UNCHANGED <<active, sent>>

\* queueUpdate(update): the update goes to the longest waiting request whose
\* channel is active; with none it replaces the waiting update of its type,
\* which keeps its place, or joins the end of the queue.
queueUpdate(t) ==
    /\ sent[t] < MaxUpdates
    /\ sent' = [sent EXCEPT ![t] = @ + 1]
    /\ LET waiting == updateQueueSize(channelQueue)
       IN  IF waiting # <<>>
           THEN /\ sendResponse(Head(waiting), t, sent[t] + 1)
                /\ channelQueue' = Tail(waiting)
                /\ UNCHANGED <<updates, updateTypeQueue>>
           ELSE /\ channelQueue' = waiting
                /\ updates' = [updates EXCEPT ![t] = sent[t] + 1]
                /\ updateTypeQueue' = IF updates[t] # NoUpdate THEN updateTypeQueue
                                      ELSE Append(updateTypeQueue, t)
                /\ UNCHANGED <<wire, handed>>
    /\ UNCHANGED active

\* closePendingRequests: every waiting request is dropped and its channel closed.
closePendingRequests ==
    /\ channelQueue # <<>>
    /\ channelQueue' = <<>>
    /\ active' = active \ Elements(channelQueue)
    /\ UNCHANGED <<updateTypeQueue, updates, wire, sent, handed>>

\* netty: a connection is accepted. A member of Channel stands for a new
\* object once the queue holds no reference to the old one.
channelActive(c) ==
    /\ c \notin active \cup Elements(channelQueue)
    /\ active' = active \cup {c}
    /\ wire' = [wire EXCEPT ![c] = NoResponse]
    /\ UNCHANGED <<channelQueue, updateTypeQueue, updates, sent, handed>>

\* netty: the server notices that the peer is gone, or has closed the channel
\* itself after the response. The queue is not told.
channelInactive(c) ==
    /\ c \in active
    /\ active' = active \ {c}
    /\ UNCHANGED <<channelQueue, updateTypeQueue, updates, wire, sent, handed>>

Next ==
    \/ \E c \in Channel : queueRequest(c) \/ channelActive(c) \/ channelInactive(c)
    \/ \E t \in UpdateType : queueUpdate(t)
    \/ closePendingRequests

Spec == Init /\ [][Next]_vars

-----------------------------------------------------------------------------
\* Every variable has the type the Java fields declare.
TypeOK ==
    /\ channelQueue \in Seq(Channel)
    /\ updateTypeQueue \in Seq(UpdateType)
    /\ updates \in [UpdateType -> Nat]
    /\ active \subseteq Channel
    /\ wire \in [Channel -> Response \cup {NoResponse}]
    /\ sent \in [UpdateType -> Nat]
    /\ handed \in [UpdateType -> Nat]

\* The two queues never hold something at the same time: no client waits
\* for an update while one is stored for it (queueRequest, queueUpdate). A
\* closed channel left at the head of the queue must not hide the live one
\* behind it.
NobodyWaitsInVain == updateTypeQueue = <<>> \/ channelQueue = <<>>

\* updateTypeQueue lists the keys of the map updates, each exactly once, so
\* the branch of queueRequest for a type without an update is dead code.
QueueListsMap ==
    /\ \A t \in UpdateType : updates[t] # NoUpdate <=> t \in Elements(updateTypeQueue)
    /\ \A i, j \in 1..Len(updateTypeQueue) :
          updateTypeQueue[i] = updateTypeQueue[j] => i = j

\* Coalescing never loses the newest state: the last update of a type that
\* was queued is stored, or is the last one of that type written.
NewestKept ==
    \A t \in UpdateType : updates[t] = (IF handed[t] = sent[t] THEN NoUpdate ELSE sent[t])

\* A response never carries an update that is as old as or older than one of
\* its type written before, whatever channels the two went to.
OnlyNewerWritten ==
    [][\A c \in Channel : wire'[c] \notin {wire[c], NoResponse} =>
          wire'[c].version > handed[wire'[c].type]]_vars

\* A stored update is sent before every type that was queued after it: its
\* place in updateTypeQueue never gets worse, also not when it is overwritten.
NeverOvertaken ==
    [][\A i \in 1..Len(updateTypeQueue) :
          \/ i = 1 /\ handed' # handed
          \/ \E j \in 1..i : /\ j <= Len(updateTypeQueue')
                             /\ updateTypeQueue'[j] = updateTypeQueue[i]]_vars

\* The queue is a register per type that always hands out the newest value.
Mailbox == INSTANCE UpdateMailbox

\* The queue implements the mailbox, step by step.
ImplementsMailbox == Mailbox!Spec
=============================================================================
