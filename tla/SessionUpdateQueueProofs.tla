---------------------- MODULE SessionUpdateQueueProofs ----------------------
(***************************************************************************)
(* Proofs about SessionUpdateQueue for any set of update types, any set of *)
(* channels and any number of updates.                                     *)
(*                                                                         *)
(* The inductive invariant is the conjunction of the properties the runs   *)
(* check with HandedWasSent: no property is inductive alone. That the map  *)
(* is listed exactly (QueueListsMap) is what makes queueRequest hand out a *)
(* stored update and never reach its dead branch; that nobody waits while  *)
(* an update is stored is what makes queueUpdate's direct hand-out the     *)
(* newest update of its type.                                              *)
(***************************************************************************)
EXTENDS SessionUpdateQueue, SequenceTheorems, WellFoundedInduction, TLAPS

\* No update is written that was not queued before.
HandedWasSent == \A t \in UpdateType : handed[t] <= sent[t]

IInv ==
    /\ TypeOK
    /\ NobodyWaitsInVain
    /\ QueueListsMap
    /\ NewestKept
    /\ HandedWasSent

-----------------------------------------------------------------------------
\* updateQueueSize, which removes the closed channels at the head, returns a
\* queue of channels.
LEMMA UpdateQueueSizeType ==
    ASSUME NEW q \in Seq(Channel)
    PROVE  updateQueueSize(q) \in Seq(Channel)
<1> DEFINE Live(k) == k = Len(q) + 1 \/ q[k] \in active
           Ks == {k \in 1..Len(q) + 1 : Live(k)}
           First(k) == /\ \A i \in 1..k - 1 : q[i] \notin active
                       /\ k = Len(q) + 1 \/ q[k] \in active
           first == CHOOSE k \in 1..Len(q) + 1 : First(k)
<1>0. Len(q) \in Nat
  BY LenProperties
<1>1. Ks \subseteq Nat /\ Ks # {}
  <2>1. Len(q) + 1 \in Ks
    BY <1>0
  <2> QED BY <2>1, <1>0
<1>2. PICK x \in Ks : \A y \in Ks : ~(<<y, x>> \in OpToRel(<, Nat))
  <2> HIDE DEF Ks
  <2> QED BY <1>1, NatLessThanWellFounded, WFMin, Zenon
<1>3. \A y \in Ks : ~(y < x)
  <2> SUFFICES ASSUME NEW y \in Ks, y < x PROVE FALSE
    OBVIOUS
  <2>1. x \in Nat /\ y \in Nat
    BY <1>1
  <2>2. <<y, x>> \in OpToRel(<, Nat)
    BY <2>1 DEF OpToRel
  <2> QED BY <1>2, <2>2
<1>4. x \in 1..Len(q) + 1 /\ First(x)
  BY <1>0, <1>3
<1>5. first \in 1..Len(q) + 1
  <2> HIDE DEF First
  <2> QED BY <1>4
<1>6. updateQueueSize(q) = SubSeq(q, first, Len(q))
  BY DEF updateQueueSize
<1>7. \A i \in first..Len(q) : q[i] \in Channel
  BY <1>0, <1>5, ElementOfSeq
<1> HIDE DEF first
<1>8. SubSeq(q, first, Len(q)) \in Seq(Channel)
  BY <1>0, <1>5, <1>7, SubSeqProperties
<1> QED BY <1>6, <1>8

\* Taking the head of a queue without duplicates removes exactly that element.
LEMMA TailElements ==
    ASSUME NEW S, NEW q \in Seq(S), q # <<>>,
           \A i, j \in 1..Len(q) : q[i] = q[j] => i = j
    PROVE  /\ \A x : x \in Elements(Tail(q)) <=> x \in Elements(q) /\ x # Head(q)
           /\ \A i, j \in 1..Len(Tail(q)) : Tail(q)[i] = Tail(q)[j] => i = j
           /\ Head(q) \in Elements(q)
<1>1. /\ Len(q) \in Nat \ {0} /\ Head(q) = q[1]
      /\ Len(Tail(q)) = Len(q) - 1
      /\ \A i \in 1..Len(Tail(q)) : Tail(q)[i] = q[i + 1]
  BY HeadTailProperties, EmptySeq, LenProperties
<1>2. ASSUME NEW x, x \in Elements(Tail(q))
      PROVE  x \in Elements(q) /\ x # Head(q)
  BY <1>1, <1>2 DEF Elements
<1>3. ASSUME NEW x, x \in Elements(q), x # Head(q)
      PROVE  x \in Elements(Tail(q))
  <2>1. PICK i \in 1..Len(q) : x = q[i]
    BY <1>3 DEF Elements
  <2>2. i - 1 \in 1..Len(Tail(q)) /\ Tail(q)[i - 1] = x
    BY <1>1, <1>3, <2>1
  <2> QED BY <2>2 DEF Elements
<1>4. Head(q) \in Elements(q)
  BY <1>1 DEF Elements
<1>5. \A i, j \in 1..Len(Tail(q)) : Tail(q)[i] = Tail(q)[j] => i = j
  BY <1>1
<1> QED BY <1>2, <1>3, <1>4, <1>5

\* Appending an element that is not in the queue adds it and keeps the queue
\* free of duplicates.
LEMMA AppendElements ==
    ASSUME NEW S, NEW q \in Seq(S), NEW e \in S, e \notin Elements(q),
           \A i, j \in 1..Len(q) : q[i] = q[j] => i = j
    PROVE  /\ \A x : x \in Elements(Append(q, e)) <=> x \in Elements(q) \/ x = e
           /\ \A i, j \in 1..Len(Append(q, e)) : Append(q, e)[i] = Append(q, e)[j] => i = j
<1>1. /\ Len(q) \in Nat
      /\ Len(Append(q, e)) = Len(q) + 1
      /\ \A i \in 1..Len(q) : Append(q, e)[i] = q[i]
      /\ Append(q, e)[Len(q) + 1] = e
  BY AppendProperties, LenProperties
<1>2. \A i \in 1..Len(q) : q[i] # e
  BY DEF Elements
<1>3. ASSUME NEW x, x \in Elements(Append(q, e))
      PROVE  x \in Elements(q) \/ x = e
  BY <1>1, <1>3 DEF Elements
<1>4. ASSUME NEW x, x \in Elements(q) \/ x = e
      PROVE  x \in Elements(Append(q, e))
  <2>1. CASE x \in Elements(q)
    <3>1. PICK i \in 1..Len(q) : x = q[i]
      BY <2>1 DEF Elements
    <3>2. i \in 1..Len(Append(q, e)) /\ Append(q, e)[i] = x
      BY <1>1, <3>1
    <3> QED BY <3>2 DEF Elements
  <2>2. CASE x = e
    BY <1>1, <2>2 DEF Elements
  <2> QED BY <1>4, <2>1, <2>2
<1>5. \A i, j \in 1..Len(Append(q, e)) : Append(q, e)[i] = Append(q, e)[j] => i = j
  BY <1>1, <1>2
<1> QED BY <1>3, <1>4, <1>5

-----------------------------------------------------------------------------
LEMMA InitInv == Init => IInv
<1> SUFFICES ASSUME Init PROVE IInv
  OBVIOUS
<1>1. TypeOK
  BY EmptySeq DEF Init, TypeOK, NoUpdate
<1>2. NobodyWaitsInVain
  BY DEF Init, NobodyWaitsInVain
<1>3. QueueListsMap
  BY EmptySeq DEF Init, QueueListsMap, Elements
<1>4. NewestKept /\ HandedWasSent
  BY DEF Init, NewestKept, HandedWasSent, NoUpdate
<1> QED BY <1>1, <1>2, <1>3, <1>4 DEF IInv

\* A request takes the oldest stored update, or waits when none is stored.
LEMMA QueueRequestInv ==
    ASSUME IInv, NEW c \in Channel, queueRequest(c)
    PROVE  IInv'
<1> USE DEF NoUpdate
<1>0. /\ TypeOK /\ NobodyWaitsInVain /\ QueueListsMap /\ NewestKept /\ HandedWasSent
      /\ active' = active /\ sent' = sent
  BY DEF IInv, queueRequest
<1>1. CASE updateTypeQueue # <<>>
  <2> DEFINE t == Head(updateTypeQueue)
  <2>1. t \in UpdateType /\ t \in Elements(updateTypeQueue)
    BY <1>0, <1>1, TailElements, HeadTailProperties DEF TypeOK, QueueListsMap
  <2>2. updates[t] # 0 /\ updates[t] = sent[t] /\ sent[t] > handed[t]
    BY <1>0, <2>1 DEF QueueListsMap, NewestKept, HandedWasSent, TypeOK
  <2>3. /\ updateTypeQueue' = Tail(updateTypeQueue)
        /\ updates' = [updates EXCEPT ![t] = 0]
        /\ wire' = [wire EXCEPT ![c] = [type |-> t, version |-> updates[t]]]
        /\ handed' = [handed EXCEPT ![t] = updates[t]]
        /\ channelQueue' = channelQueue
    BY <1>1, <2>2 DEF queueRequest, sendResponse
  <2> HIDE DEF t
  <2>4. TypeOK'
    <3>1. Tail(updateTypeQueue) \in Seq(UpdateType)
      BY <1>0, <1>1, HeadTailProperties DEF TypeOK
    <3>2. [type |-> t, version |-> updates[t]] \in Response
      BY <1>0, <2>1, <2>2 DEF TypeOK, Response
    <3> QED BY <1>0, <2>1, <2>3, <3>1, <3>2 DEF TypeOK
  <2>5. NobodyWaitsInVain'
    BY <1>0, <1>1, <2>3 DEF NobodyWaitsInVain
  <2>6. QueueListsMap'
    <3>1. /\ \A x : x \in Elements(updateTypeQueue') <=> x \in Elements(updateTypeQueue) /\ x # t
          /\ \A i, j \in 1..Len(updateTypeQueue') :
                updateTypeQueue'[i] = updateTypeQueue'[j] => i = j
      BY <1>0, <1>1, <2>3, TailElements DEF TypeOK, QueueListsMap, t
    <3>2. \A u \in UpdateType : updates'[u] # 0 <=> updates[u] # 0 /\ u # t
      BY <1>0, <2>1, <2>3 DEF TypeOK
    <3>3. \A u \in UpdateType : updates'[u] # 0 <=> u \in Elements(updateTypeQueue')
      BY <1>0, <3>1, <3>2 DEF QueueListsMap
    <3>4. Elements(updateTypeQueue') = Elements(updateTypeQueue)'
      BY DEF Elements
    <3> QED BY <3>1, <3>3, <3>4 DEF QueueListsMap
  <2>7. NewestKept' /\ HandedWasSent'
    BY <1>0, <2>1, <2>2, <2>3 DEF NewestKept, HandedWasSent, TypeOK
  <2> QED BY <2>4, <2>5, <2>6, <2>7 DEF IInv
<1>2. CASE updateTypeQueue = <<>>
  <2>1. /\ channelQueue' = Append(channelQueue, c)
        /\ UNCHANGED <<updates, updateTypeQueue, wire, handed>>
    BY <1>2 DEF queueRequest
  <2>2. TypeOK'
    BY <1>0, <2>1, AppendProperties DEF TypeOK
  <2>3. NobodyWaitsInVain'
    BY <1>2, <2>1 DEF NobodyWaitsInVain
  <2>4. QueueListsMap' /\ NewestKept' /\ HandedWasSent'
    BY <1>0, <2>1 DEF QueueListsMap, NewestKept, HandedWasSent, Elements
  <2> QED BY <2>2, <2>3, <2>4 DEF IInv
<1> QED BY <1>1, <1>2

\* What queueUpdate does to the state, by whether a live request waits.
LEMMA QueueUpdateCases ==
    ASSUME TypeOK, NEW t \in UpdateType, queueUpdate(t)
    PROVE  /\ sent' = [sent EXCEPT ![t] = @ + 1]
           /\ active' = active
           /\ \/ \E c \in Channel :
                    /\ wire' = [wire EXCEPT ![c] = [type |-> t, version |-> sent[t] + 1]]
                    /\ handed' = [handed EXCEPT ![t] = sent[t] + 1]
                    /\ channelQueue' \in Seq(Channel)
                    /\ channelQueue # <<>>
                    /\ UNCHANGED <<updates, updateTypeQueue>>
              \/ /\ channelQueue' = <<>>
                 /\ updates' = [updates EXCEPT ![t] = sent[t] + 1]
                 /\ updateTypeQueue' = IF updates[t] # NoUpdate THEN updateTypeQueue
                                       ELSE Append(updateTypeQueue, t)
                 /\ UNCHANGED <<wire, handed>>
<1> DEFINE waiting == updateQueueSize(channelQueue)
<1>1. waiting \in Seq(Channel)
  BY UpdateQueueSizeType DEF TypeOK
<1>2. sent' = [sent EXCEPT ![t] = @ + 1] /\ active' = active
  BY DEF queueUpdate
<1>3. CASE waiting # <<>>
  <2>1. /\ wire' = [wire EXCEPT ![Head(waiting)] = [type |-> t, version |-> sent[t] + 1]]
        /\ handed' = [handed EXCEPT ![t] = sent[t] + 1]
        /\ channelQueue' = Tail(waiting)
        /\ UNCHANGED <<updates, updateTypeQueue>>
    BY <1>3 DEF queueUpdate, sendResponse
  <2>2. channelQueue # <<>>
    <3>1. SUFFICES ASSUME channelQueue = <<>> PROVE waiting = <<>>
      BY <1>3
    <3> DEFINE k == CHOOSE k \in 1..Len(channelQueue) + 1 :
                        /\ \A i \in 1..k - 1 : channelQueue[i] \notin active
                        /\ k = Len(channelQueue) + 1 \/ channelQueue[k] \in active
    <3>2. Len(channelQueue) = 0
      BY <3>1
    <3>3. k = 1
      BY <3>2
    <3>4. waiting = SubSeq(channelQueue, k, Len(channelQueue))
      BY DEF updateQueueSize
    <3> QED BY <3>2, <3>3, <3>4, SubSeqEmpty
  <2>3. Head(waiting) \in Channel /\ Tail(waiting) \in Seq(Channel)
    BY <1>1, <1>3, HeadTailProperties
  <2> HIDE DEF waiting
  <2> QED BY <1>2, <2>1, <2>2, <2>3
<1>4. CASE waiting = <<>>
  BY <1>2, <1>4 DEF queueUpdate
<1> QED BY <1>3, <1>4

\* An update goes to a waiting request, replaces its predecessor in place or
\* joins the queue.
LEMMA QueueUpdateInv ==
    ASSUME IInv, NEW t \in UpdateType, queueUpdate(t)
    PROVE  IInv'
<1> USE DEF NoUpdate
<1>0. TypeOK /\ NobodyWaitsInVain /\ QueueListsMap /\ NewestKept /\ HandedWasSent
  BY DEF IInv
<1>1. sent' = [sent EXCEPT ![t] = @ + 1] /\ active' = active
  BY <1>0, QueueUpdateCases
<1>2. ASSUME NEW c \in Channel,
             wire' = [wire EXCEPT ![c] = [type |-> t, version |-> sent[t] + 1]],
             handed' = [handed EXCEPT ![t] = sent[t] + 1],
             channelQueue' \in Seq(Channel),
             channelQueue # <<>>,
             UNCHANGED <<updates, updateTypeQueue>>
      PROVE  IInv'
  <2>1. updateTypeQueue = <<>>
    BY <1>0, <1>2 DEF NobodyWaitsInVain
  <2>2. updates[t] = 0
    BY <1>0, <2>1 DEF QueueListsMap, Elements
  <2>3. TypeOK'
    <3>1. [type |-> t, version |-> sent[t] + 1] \in Response
      BY <1>0 DEF TypeOK, Response
    <3> QED BY <1>0, <1>1, <1>2, <3>1 DEF TypeOK
  <2>4. NobodyWaitsInVain' /\ QueueListsMap'
    BY <1>0, <1>2, <2>1 DEF NobodyWaitsInVain, QueueListsMap, Elements
  <2>5. NewestKept' /\ HandedWasSent'
    BY <1>0, <1>1, <1>2, <2>2 DEF NewestKept, HandedWasSent, TypeOK
  <2> QED BY <2>3, <2>4, <2>5 DEF IInv
<1>3. ASSUME channelQueue' = <<>>,
             updates' = [updates EXCEPT ![t] = sent[t] + 1],
             updateTypeQueue' = IF updates[t] # NoUpdate THEN updateTypeQueue
                                ELSE Append(updateTypeQueue, t),
             UNCHANGED <<wire, handed>>
      PROVE  IInv'
  <2>1. TypeOK'
    <3>1. updateTypeQueue' \in Seq(UpdateType)
      BY <1>0, <1>3, AppendProperties DEF TypeOK
    <3> QED BY <1>0, <1>1, <1>3, <3>1, EmptySeq DEF TypeOK
  <2>2. NobodyWaitsInVain'
    BY <1>3 DEF NobodyWaitsInVain
  <2>3. \A u \in UpdateType : updates'[u] # 0 <=> updates[u] # 0 \/ u = t
    BY <1>0, <1>3 DEF TypeOK
  <2>4. QueueListsMap'
    <3>1. Elements(updateTypeQueue)' = Elements(updateTypeQueue')
      BY DEF Elements
    <3>2. CASE updates[t] # 0
      BY <1>0, <1>3, <2>3, <3>2 DEF QueueListsMap, Elements
    <3>3. CASE updates[t] = 0
      <4>1. t \notin Elements(updateTypeQueue) /\ updateTypeQueue' = Append(updateTypeQueue, t)
        BY <1>0, <1>3, <3>3 DEF QueueListsMap
      <4>2. /\ \A x : x \in Elements(updateTypeQueue') <=> x \in Elements(updateTypeQueue) \/ x = t
            /\ \A i, j \in 1..Len(updateTypeQueue') :
                  updateTypeQueue'[i] = updateTypeQueue'[j] => i = j
        <5> DEFINE q == updateTypeQueue
        <5>1. q \in Seq(UpdateType) /\ \A i, j \in 1..Len(q) : q[i] = q[j] => i = j
          BY <1>0 DEF TypeOK, QueueListsMap
        <5>2. t \notin Elements(q)
          BY <4>1
        <5> HIDE DEF q
        <5>3. /\ \A x : x \in Elements(Append(q, t)) <=> x \in Elements(q) \/ x = t
              /\ \A i, j \in 1..Len(Append(q, t)) :
                    Append(q, t)[i] = Append(q, t)[j] => i = j
          BY <5>1, <5>2, AppendElements
        <5> QED BY <4>1, <5>3 DEF q
      <4>3. \A u \in UpdateType : updates'[u] # 0 <=> u \in Elements(updateTypeQueue')
        BY <1>0, <2>3, <4>2 DEF QueueListsMap
      <4> QED BY <3>1, <4>2, <4>3 DEF QueueListsMap
    <3> QED BY <3>2, <3>3
  <2>5. NewestKept' /\ HandedWasSent'
    BY <1>0, <1>1, <1>3 DEF NewestKept, HandedWasSent, TypeOK
  <2> QED BY <2>1, <2>2, <2>4, <2>5 DEF IInv
<1> QED BY <1>0, <1>2, <1>3, QueueUpdateCases

\* Closing requests and connections coming and going leave updates alone.
LEMMA ChannelInv ==
    ASSUME IInv,
           \/ closePendingRequests
           \/ \E c \in Channel : channelActive(c) \/ channelInactive(c)
           \/ UNCHANGED vars
    PROVE  IInv'
<1>0. TypeOK /\ NobodyWaitsInVain /\ QueueListsMap /\ NewestKept /\ HandedWasSent
  BY DEF IInv
<1>1. UNCHANGED <<updateTypeQueue, updates, sent, handed>>
      /\ (channelQueue' = channelQueue \/ channelQueue' = <<>>)
  BY DEF closePendingRequests, channelActive, channelInactive, vars
<1>2. TypeOK'
  <2>1. channelQueue' \in Seq(Channel)
    BY <1>0, <1>1, EmptySeq DEF TypeOK
  <2>2. active' \subseteq Channel
    BY <1>0 DEF TypeOK, closePendingRequests, channelActive, channelInactive, vars
  <2>3. wire' \in [Channel -> Response \cup {NoResponse}]
    BY <1>0 DEF TypeOK, closePendingRequests, channelActive, channelInactive, vars
  <2> QED BY <1>0, <1>1, <2>1, <2>2, <2>3 DEF TypeOK
<1>3. NobodyWaitsInVain'
  BY <1>0, <1>1 DEF NobodyWaitsInVain
<1>4. QueueListsMap' /\ NewestKept' /\ HandedWasSent'
  BY <1>0, <1>1 DEF QueueListsMap, Elements, NewestKept, HandedWasSent
<1> QED BY <1>2, <1>3, <1>4 DEF IInv

-----------------------------------------------------------------------------
\* The invariant holds in every state of every behaviour of the queue.
THEOREM Invariance == Spec => []IInv
<1>1. ASSUME IInv, [Next]_vars PROVE IInv'
  <2>1. ASSUME NEW c \in Channel, queueRequest(c) PROVE IInv'
    BY <1>1, <2>1, QueueRequestInv
  <2>2. ASSUME NEW t \in UpdateType, queueUpdate(t) PROVE IInv'
    BY <1>1, <2>2, QueueUpdateInv
  <2>3. ASSUME \/ closePendingRequests
               \/ \E c \in Channel : channelActive(c) \/ channelInactive(c)
               \/ UNCHANGED vars
        PROVE  IInv'
    BY <1>1, <2>3, ChannelInv
  <2> QED BY <1>1, <2>1, <2>2, <2>3 DEF Next
<1> QED BY InitInv, <1>1, PTL DEF Spec

\* The fields of SessionUpdateQueue keep their types.
THEOREM TypeCorrect == Spec => []TypeOK
<1>1. IInv => TypeOK
  BY DEF IInv
<1> QED BY Invariance, <1>1, PTL

\* No request waits in channelQueue while an update is stored.
THEOREM NobodyWaitsInVainTheorem == Spec => []NobodyWaitsInVain
<1>1. IInv => NobodyWaitsInVain
  BY DEF IInv
<1> QED BY Invariance, <1>1, PTL

\* The queue of types lists the keys of the map, once each; queueRequest's
\* branch for a type without an update is never taken.
THEOREM QueueListsMapTheorem == Spec => []QueueListsMap
<1>1. IInv => QueueListsMap
  BY DEF IInv
<1> QED BY Invariance, <1>1, PTL

\* Coalescing never loses the newest update of a type.
THEOREM NewestKeptTheorem == Spec => []NewestKept
<1>1. IInv => NewestKept
  BY DEF IInv
<1> QED BY Invariance, <1>1, PTL

\* Every response carries a newer update than all responses of its type
\* before it.
THEOREM OnlyNewerWrittenTheorem == Spec => OnlyNewerWritten
<1> DEFINE Newer == \A c \in Channel : wire'[c] \notin {wire[c], NoResponse} =>
                        wire'[c].version > handed[wire'[c].type]
<1>1. ASSUME IInv, [Next]_vars PROVE [Newer]_vars
  <2>0. TypeOK /\ QueueListsMap /\ NewestKept /\ HandedWasSent
    BY <1>1 DEF IInv
  <2>1. ASSUME NEW c \in Channel, queueRequest(c) PROVE Newer
    <3>1. CASE wire' = wire
      BY <3>1
    <3>2. CASE wire' # wire
      <4> DEFINE t == Head(updateTypeQueue)
      <4>1. /\ updateTypeQueue # <<>> /\ updates[t] # 0
            /\ wire' = [wire EXCEPT ![c] = [type |-> t, version |-> updates[t]]]
        BY <2>1, <3>2 DEF queueRequest, sendResponse, NoUpdate
      <4>2. t \in UpdateType
        BY <2>0, <4>1, HeadTailProperties DEF TypeOK
      <4>3. updates[t] > handed[t]
        BY <2>0, <4>1, <4>2 DEF NewestKept, HandedWasSent, TypeOK, NoUpdate
      <4> HIDE DEF t
      <4> QED BY <2>0, <4>1, <4>3 DEF TypeOK
    <3> QED BY <3>1, <3>2
  <2>2. ASSUME NEW t \in UpdateType, queueUpdate(t) PROVE Newer
    <3>1. \/ \E c \in Channel :
                wire' = [wire EXCEPT ![c] = [type |-> t, version |-> sent[t] + 1]]
          \/ wire' = wire
      BY <2>0, <2>2, QueueUpdateCases
    <3>2. sent[t] + 1 > handed[t]
      BY <2>0 DEF HandedWasSent, TypeOK
    <3> QED BY <2>0, <3>1, <3>2 DEF TypeOK
  <2>3. ASSUME NEW c \in Channel, channelActive(c) PROVE Newer
    BY <2>0, <2>3 DEF channelActive, TypeOK
  <2>4. ASSUME \/ closePendingRequests
               \/ \E c \in Channel : channelInactive(c)
        PROVE  Newer
    BY <2>4 DEF closePendingRequests, channelInactive
  <2> HIDE DEF Newer
  <2> QED BY <1>1, <2>1, <2>2, <2>3, <2>4 DEF Next
<1> QED BY Invariance, <1>1, PTL DEF Spec, OnlyNewerWritten

\* A stored update never loses its place, so no type of update can be kept
\* back by others that change more often.
THEOREM NeverOvertakenTheorem == Spec => NeverOvertaken
<1> DEFINE q == updateTypeQueue
           Kept == \A i \in 1..Len(updateTypeQueue) :
                      \/ i = 1 /\ handed' # handed
                      \/ \E j \in 1..i : /\ j <= Len(updateTypeQueue')
                                         /\ updateTypeQueue'[j] = updateTypeQueue[i]
<1>1. ASSUME IInv, [Next]_vars PROVE [Kept]_vars
  <2>0. TypeOK /\ QueueListsMap /\ NewestKept /\ HandedWasSent /\ Len(q) \in Nat
    BY <1>1, LenProperties DEF IInv, TypeOK
  <2>1. CASE q' = q
    BY <2>0, <2>1
  <2>2. ASSUME NEW c \in Channel, queueRequest(c), q' # q PROVE Kept
    <3> DEFINE t == Head(q)
    <3>1. q # <<>> /\ q' = Tail(q)
      BY <2>2 DEF queueRequest
    <3>2. t \in UpdateType /\ t \in Elements(q)
      BY <2>0, <3>1, TailElements, HeadTailProperties DEF TypeOK, QueueListsMap
    <3>3. updates[t] # 0 /\ updates[t] > handed[t]
      BY <2>0, <3>2 DEF QueueListsMap, NewestKept, HandedWasSent, TypeOK, NoUpdate
    <3>4. handed' = [handed EXCEPT ![t] = updates[t]]
      BY <2>2, <3>1, <3>3 DEF queueRequest, sendResponse, NoUpdate
    <3>5. handed' # handed
      BY <2>0, <3>2, <3>3, <3>4 DEF TypeOK
    <3>6. Len(q') = Len(q) - 1 /\ \A j \in 1..Len(q') : q'[j] = q[j + 1]
      BY <2>0, <3>1, HeadTailProperties DEF TypeOK
    <3>7. ASSUME NEW i \in 1..Len(q), i # 1
          PROVE  \E j \in 1..i : j <= Len(q') /\ q'[j] = q[i]
      <4>1. i - 1 \in 1..i /\ i - 1 \in 1..Len(q') /\ q'[i - 1] = q[i]
        BY <2>0, <3>6, <3>7
      <4> QED BY <4>1
    <3> QED BY <3>5, <3>7
  <2>3. ASSUME NEW t \in UpdateType, queueUpdate(t), q' # q PROVE Kept
    <3>1. q' = Append(q, t)
      BY <2>0, <2>3, QueueUpdateCases
    <3>2. Len(q') = Len(q) + 1 /\ \A i \in 1..Len(q) : q'[i] = q[i]
      BY <2>0, <3>1, AppendProperties DEF TypeOK
    <3> QED BY <2>0, <3>2
  <2>4. ASSUME \/ closePendingRequests
               \/ \E c \in Channel : channelActive(c) \/ channelInactive(c)
        PROVE  q' = q
    BY <2>4 DEF closePendingRequests, channelActive, channelInactive
  <2> HIDE DEF Kept
  <2>5. UNCHANGED vars => q' = q
    BY DEF vars
  <2> HIDE DEF q
  <2> QED BY <1>1, <2>1, <2>2, <2>3, <2>4, <2>5 DEF Next
<1> QED BY Invariance, <1>1, PTL DEF Spec, NeverOvertaken

\* The queue, seen through what was queued and what was written, is the
\* mailbox: one register per type that hands out its newest value once.
THEOREM Refinement == Spec => ImplementsMailbox
<1>1. Init => Mailbox!Init
  BY DEF Init, Mailbox!Init
<1>2. ASSUME IInv, [Next]_vars PROVE [Mailbox!Next]_(Mailbox!vars)
  <2>0. TypeOK /\ QueueListsMap /\ NewestKept /\ HandedWasSent
    BY <1>2 DEF IInv
  <2>1. ASSUME NEW c \in Channel, queueRequest(c), <<sent, handed>>' # <<sent, handed>>
        PROVE  Mailbox!Next
    <3> DEFINE t == Head(updateTypeQueue)
    <3>1. /\ updateTypeQueue # <<>> /\ updates[t] # 0 /\ sent' = sent
          /\ handed' = [handed EXCEPT ![t] = updates[t]]
      BY <2>1 DEF queueRequest, sendResponse, NoUpdate
    <3>2. t \in UpdateType
      BY <2>0, <3>1, HeadTailProperties DEF TypeOK
    <3>3. updates[t] = sent[t] /\ handed[t] # sent[t]
      BY <2>0, <3>1, <3>2 DEF NewestKept, NoUpdate
    <3> HIDE DEF t
    <3>4. Mailbox!Hand(t)
      BY <3>1, <3>3 DEF Mailbox!Hand
    <3> QED BY <3>2, <3>4 DEF Mailbox!Next
  <2>2. ASSUME NEW t \in UpdateType, queueUpdate(t) PROVE Mailbox!Next
    <3>1. Mailbox!Publish(t) \/ Mailbox!PublishAndHand(t)
      BY <2>0, <2>2, QueueUpdateCases DEF Mailbox!Publish, Mailbox!PublishAndHand
    <3> QED BY <3>1 DEF Mailbox!Next
  <2>3. ASSUME \/ closePendingRequests
               \/ \E c \in Channel : channelActive(c) \/ channelInactive(c)
               \/ UNCHANGED vars
        PROVE  UNCHANGED Mailbox!vars
    BY <2>3 DEF closePendingRequests, channelActive, channelInactive, vars, Mailbox!vars
  <2> QED BY <1>2, <2>1, <2>2, <2>3 DEF Next, Mailbox!vars
<1> QED BY Invariance, <1>1, <1>2, PTL DEF Spec, ImplementsMailbox, Mailbox!Spec

=============================================================================
