------------------------ MODULE ClientSessionProofs ------------------------
(***************************************************************************)
(* Proofs about ClientSession for any number of logins, votes, failures    *)
(* and given-up polls.                                                     *)
(***************************************************************************)
EXTENDS ClientSession, SequenceTheorems, FiniteSetTheorems, TLAPS

-----------------------------------------------------------------------------
(***************************************************************************)
(* Sequences of polls and the loops among them.                            *)
(***************************************************************************)
\* The poll loops in a sequence of polls.
LoopsOf(s) == {i \in 1..Len(s) : s[i].state \notin {"closed", "lost"}}

\* What RemoveAt leaves.
LEMMA RemoveAtProperties ==
    ASSUME NEW S, NEW s \in Seq(S), NEW i \in 1..Len(s)
    PROVE  /\ RemoveAt(s, i) \in Seq(S)
           /\ Len(RemoveAt(s, i)) = Len(s) - 1
           /\ \A j \in 1..Len(s) - 1 : RemoveAt(s, i)[j] = IF j < i THEN s[j] ELSE s[j + 1]
<1> DEFINE a == SubSeq(s, 1, i - 1)
           b == SubSeq(s, i + 1, Len(s))
<1>1. /\ a \in Seq(S) /\ Len(a) = i - 1
      /\ \A j \in 1..i - 1 : a[j] = s[j]
  OBVIOUS
<1>2. /\ b \in Seq(S) /\ Len(b) = Len(s) - i
      /\ \A j \in 1..Len(s) - i : b[j] = s[i + j]
  OBVIOUS
<1> HIDE DEF a, b
<1>3. /\ a \o b \in Seq(S)
      /\ Len(a \o b) = Len(a) + Len(b)
      /\ \A j \in 1..Len(a) + Len(b) : (a \o b)[j] = IF j <= Len(a) THEN a[j] ELSE b[j - Len(a)]
  BY <1>1, <1>2, ConcatProperties
<1>4. Len(a) + Len(b) = Len(s) - 1 /\ Len(s) \in Nat
  BY <1>1, <1>2, LenProperties
<1>5. ASSUME NEW j \in 1..Len(s) - 1
      PROVE  (a \o b)[j] = IF j < i THEN s[j] ELSE s[j + 1]
  <2>1. CASE j < i
    BY <1>1, <1>3, <1>4, <2>1
  <2>2. CASE ~(j < i)
    <3>1. (a \o b)[j] = b[j - (i - 1)]
      BY <1>1, <1>3, <1>4, <2>2
    <3>2. j - (i - 1) \in 1..Len(s) - i /\ i + (j - (i - 1)) = j + 1
      BY <1>4, <2>2
    <3> QED BY <1>2, <2>2, <3>1, <3>2
  <2> QED BY <2>1, <2>2
<1> QED BY <1>3, <1>4, <1>5 DEF RemoveAt, a, b

\* A sequence has finitely many loops.
LEMMA LoopsFinite ==
    ASSUME NEW s \in Seq(Poll)
    PROVE  IsFiniteSet(LoopsOf(s)) /\ Cardinality(LoopsOf(s)) \in Nat
<1>1. LoopsOf(s) \subseteq 1..Len(s) /\ IsFiniteSet(1..Len(s))
  BY FS_Interval, LenProperties DEF LoopsOf
<1> QED BY <1>1, FS_Subset, FS_CardinalityType

\* A poll that is added is at most one more loop, and one if it is alive.
LEMMA AppendLoops ==
    ASSUME NEW s \in Seq(Poll), NEW e \in Poll
    PROVE  /\ Append(s, e) \in Seq(Poll)
           /\ Cardinality(LoopsOf(Append(s, e))) <= Cardinality(LoopsOf(s)) + 1
           /\ e.state \notin {"closed", "lost"} => LoopsOf(Append(s, e)) # {}
<1>1. /\ Append(s, e) \in Seq(Poll) /\ Len(Append(s, e)) = Len(s) + 1
      /\ \A i \in 1..Len(s) : Append(s, e)[i] = s[i]
      /\ Append(s, e)[Len(s) + 1] = e
  BY AppendProperties
<1>2. LoopsOf(Append(s, e)) \subseteq LoopsOf(s) \cup {Len(s) + 1}
  BY <1>1 DEF LoopsOf
<1>3. IsFiniteSet(LoopsOf(s)) /\ Cardinality(LoopsOf(s)) \in Nat
  BY LoopsFinite
<1>4. /\ IsFiniteSet(LoopsOf(s) \cup {Len(s) + 1})
      /\ Cardinality(LoopsOf(s) \cup {Len(s) + 1}) \in
            {Cardinality(LoopsOf(s)), Cardinality(LoopsOf(s)) + 1}
  BY <1>3, FS_AddElement
<1>5. Cardinality(LoopsOf(Append(s, e))) <= Cardinality(LoopsOf(s)) + 1
  <2>1. Cardinality(LoopsOf(Append(s, e))) <= Cardinality(LoopsOf(s) \cup {Len(s) + 1})
    BY <1>2, <1>4, FS_Subset
  <2>2. Cardinality(LoopsOf(Append(s, e))) \in Nat
    BY <1>1, LoopsFinite
  <2> QED BY <1>3, <1>4, <2>1, <2>2
<1>6. e.state \notin {"closed", "lost"} => Len(s) + 1 \in LoopsOf(Append(s, e))
  BY <1>1, LenProperties DEF LoopsOf
<1> QED BY <1>1, <1>5, <1>6

\* Changing a poll adds no loop, unless it brings a dead one to life.
LEMMA ExceptLoops ==
    ASSUME NEW s \in Seq(Poll), NEW i \in 1..Len(s), NEW e \in Poll
    PROVE  /\ [s EXCEPT ![i] = e] \in Seq(Poll)
           /\ i \in LoopsOf(s) /\ e.state \notin {"closed", "lost"} =>
                 LoopsOf([s EXCEPT ![i] = e]) = LoopsOf(s)
           /\ e.state \in {"closed", "lost"} => LoopsOf([s EXCEPT ![i] = e]) = LoopsOf(s) \ {i}
BY ExceptSeq DEF LoopsOf

\* Removing a poll removes its loop and no other.
LEMMA RemoveLoops ==
    ASSUME NEW s \in Seq(Poll), NEW i \in 1..Len(s)
    PROVE  /\ RemoveAt(s, i) \in Seq(Poll)
           /\ Cardinality(LoopsOf(RemoveAt(s, i))) <= Cardinality(LoopsOf(s) \ {i})
           /\ LoopsOf(s) \ {i} # {} => LoopsOf(RemoveAt(s, i)) # {}
<1> DEFINE r == RemoveAt(s, i)
           f == [j \in LoopsOf(r) |-> IF j < i THEN j ELSE j + 1]
<1>1. /\ r \in Seq(Poll) /\ Len(r) = Len(s) - 1 /\ Len(s) \in Nat
      /\ \A j \in 1..Len(s) - 1 : r[j] = IF j < i THEN s[j] ELSE s[j + 1]
  BY RemoveAtProperties, LenProperties
<1> HIDE DEF r
<1>2. f \in Injection(LoopsOf(r), LoopsOf(s) \ {i})
  <2>1. ASSUME NEW j \in LoopsOf(r) PROVE f[j] \in LoopsOf(s) \ {i}
    BY <1>1, <2>1 DEF LoopsOf
  <2>2. ASSUME NEW j \in LoopsOf(r), NEW k \in LoopsOf(r), f[j] = f[k] PROVE j = k
    BY <1>1, <2>2 DEF LoopsOf
  <2> QED BY <2>1, <2>2 DEF Injection, IsInjective
<1>3. Cardinality(LoopsOf(r)) <= Cardinality(LoopsOf(s) \ {i})
  <2>1. IsFiniteSet(LoopsOf(s) \ {i})
    BY LoopsFinite, FS_RemoveElement
  <2> HIDE DEF f
  <2> QED BY <1>2, <2>1, FS_Injection
<1>4. ASSUME NEW j \in LoopsOf(s) \ {i} PROVE LoopsOf(r) # {}
  <2>1. (IF j < i THEN j ELSE j - 1) \in LoopsOf(r)
    BY <1>1 DEF LoopsOf
  <2> QED BY <2>1
<1> QED BY <1>1, <1>3, <1>4 DEF r

-----------------------------------------------------------------------------
(***************************************************************************)
(* What the steps of the phone do to its polls.                            *)
(***************************************************************************)
LEMMA ConstantTypes ==
    /\ MaxLogins \in Nat /\ MaxVotes \in Nat /\ MaxFailures \in Nat
    /\ NoCount \in Count /\ 0 \in Count /\ NoID \notin Login
BY PhoneBoundsAssumption DEF Count, NoCount, NoID, Login

LEMMA LoopsAreOfPolls == Loops = LoopsOf(polls) /\ Loops' = LoopsOf(polls')
BY DEF Loops, LoopsOf

\* A poll that ends is a loop less.
LEMMA EndedLoops ==
    ASSUME TypeOK, NEW i \in Loops
    PROVE  /\ Ended(i) \in Seq(Poll)
           /\ Cardinality(LoopsOf(Ended(i))) <= Cardinality(Loops) - 1
<1>1. polls \in Seq(Poll) /\ i \in 1..Len(polls) /\ polls[i] \in Poll
  BY ElementOfSeq DEF TypeOK, Loops
<1>2. /\ IsFiniteSet(Loops \ {i})
      /\ Cardinality(Loops \ {i}) = Cardinality(Loops) - 1
  BY <1>1, LoopsAreOfPolls, LoopsFinite, FS_RemoveElement
<1>3. CASE polls[i].state = "waiting"
  <2> DEFINE e == [polls[i] EXCEPT !.state = "closed"]
  <2>1. e \in Poll /\ e.state = "closed"
    BY <1>1 DEF Poll
  <2>2. Ended(i) = [polls EXCEPT ![i] = e]
    BY <1>3 DEF Ended
  <2> HIDE DEF e
  <2>3. /\ [polls EXCEPT ![i] = e] \in Seq(Poll)
        /\ e.state \in {"closed", "lost"} =>
              LoopsOf([polls EXCEPT ![i] = e]) = LoopsOf(polls) \ {i}
    BY <1>1, <2>1, ExceptLoops
  <2>4. Ended(i) \in Seq(Poll) /\ LoopsOf(Ended(i)) = Loops \ {i}
    BY <2>1, <2>2, <2>3, LoopsAreOfPolls
  <2>5. Cardinality(Loops \ {i}) \in Nat
    BY <1>2, FS_CardinalityType
  <2> QED BY <1>2, <2>4, <2>5
<1>4. CASE polls[i].state # "waiting"
  <2>1. Ended(i) = RemoveAt(polls, i)
    BY <1>4 DEF Ended
  <2> QED BY <1>1, <1>2, <2>1, RemoveLoops, LoopsAreOfPolls
<1> QED BY <1>3, <1>4

\* The completion block of a poll replaces the poll that has ended by at most
\* one, and by one if the flag is set.
LEMMA PollAgainLoops ==
    ASSUME TypeOK, NEW i \in Loops, pollAgain(i)
    PROVE  /\ polls' \in Seq(Poll)
           /\ Cardinality(Loops') <= Cardinality(Loops)
           /\ requestingUpdates => Loops' # {}
<1>1. Ended(i) \in Seq(Poll) /\ Cardinality(LoopsOf(Ended(i))) <= Cardinality(Loops) - 1
  BY EndedLoops
<1>2. Cardinality(LoopsOf(Ended(i))) \in Nat /\ Cardinality(Loops) \in Nat
  BY <1>1, LoopsFinite, LoopsAreOfPolls DEF TypeOK
<1>3. CASE requestingUpdates
  <2>1. Asked(NoID, "again") \in Poll /\ Asked(NoID, "again").state = "again"
    BY ConstantTypes DEF Asked, Poll
  <2>2. polls' = Append(Ended(i), Asked(NoID, "again"))
    BY <1>3 DEF pollAgain
  <2>3. Cardinality(LoopsOf(polls')) <= Cardinality(LoopsOf(Ended(i))) + 1
    BY <1>1, <2>1, <2>2, AppendLoops
  <2>4. Cardinality(LoopsOf(polls')) \in Nat
    BY <1>1, <2>1, <2>2, AppendLoops, LoopsFinite
  <2> QED BY <1>1, <1>2, <2>1, <2>2, <2>3, <2>4, AppendLoops, LoopsAreOfPolls
<1>4. CASE ~requestingUpdates
  <2>1. polls' = Ended(i)
    BY <1>4 DEF pollAgain
  <2> QED BY <1>1, <1>2, <1>4, <2>1, LoopsAreOfPolls
<1> QED BY <1>3, <1>4

\* startUpdateRequests adds a loop at most, and leaves the flag set and a loop
\* running.
LEMMA StartLoops ==
    ASSUME TypeOK, PollingIsReal, NEW id \in Login, startUpdateRequests(id)
    PROVE  /\ polls' \in Seq(Poll) /\ requestingUpdates' = TRUE
           /\ Cardinality(Loops') <= Cardinality(Loops) + 1
           /\ Loops' # {}
<1>1. polls \in Seq(Poll) /\ IsFiniteSet(Loops) /\ Cardinality(Loops) \in Nat
  BY LoopsFinite, LoopsAreOfPolls DEF TypeOK
<1>2. CASE requestingUpdates
  BY <1>1, <1>2, LoopsAreOfPolls DEF startUpdateRequests, PollingIsReal, TypeOK
<1>3. CASE ~requestingUpdates
  <2>1. Asked(id, "sent") \in Poll /\ Asked(id, "sent").state = "sent"
    BY ConstantTypes DEF Asked, Poll
  <2>2. polls' = Append(polls, Asked(id, "sent")) /\ requestingUpdates' = TRUE
    BY <1>3 DEF startUpdateRequests
  <2> QED BY <1>1, <2>1, <2>2, AppendLoops, LoopsAreOfPolls
<1> QED BY <1>2, <1>3

\* A broadcast changes which loops wait, not how many there are.
LEMMA QueueUpdateLoops ==
    ASSUME TypeOK, NEW c \in Count, queueUpdate(c)
    PROVE  polls' \in Seq(Poll) /\ Loops' = Loops /\ stored' \in [Login -> Count]
<1>1. polls \in Seq(Poll) /\ Len(polls) \in Nat /\ \A i \in 1..Len(polls) : polls[i] \in Poll
  BY LenProperties, ElementOfSeq DEF TypeOK
<1> DEFINE e(i) == IF Answered(i)
                   THEN [sid |-> polls[i].sid, count |-> c,
                         state |-> IF polls[i].state = "closed" THEN "lost" ELSE "answered"]
                   ELSE polls[i]
<1>2. \A i \in 1..Len(polls) : e(i) \in Poll
  BY <1>1 DEF Poll
<1>3. \A i \in 1..Len(polls) :
         e(i).state \in {"closed", "lost"} <=> polls[i].state \in {"closed", "lost"}
  BY <1>1 DEF Answered, FirstInQueue, InQueue
<1>4. polls' = [i \in 1..Len(polls) |-> e(i)]
  BY DEF queueUpdate
<1> HIDE DEF e
<1>5. polls' \in Seq(Poll) /\ Len(polls') = Len(polls) /\ \A i \in 1..Len(polls) : polls'[i] = e(i)
  BY <1>1, <1>2, <1>4
<1>6. Loops' = Loops
  BY <1>3, <1>5 DEF Loops
<1>7. stored' \in [Login -> Count]
  BY DEF queueUpdate, TypeOK
<1> QED BY <1>5, <1>6, <1>7

-----------------------------------------------------------------------------
(***************************************************************************)
(* The inductive invariant. Every login pays for one loop: while its       *)
(* response is on the way no loop has been started for it.                 *)
(***************************************************************************)
LoopsCounted ==
    /\ IsFiniteSet(authenticating)
    /\ Cardinality(Loops) + Cardinality(authenticating) <= logins

PhoneInv == TypeOK /\ PollingIsReal /\ LoopsCounted

\* What the proof of a step shows about the polls.
PollsGood ==
    /\ polls' \in Seq(Poll)
    /\ requestingUpdates' => Loops' # {}
    /\ LoopsCounted'

\* The numbers in LoopsCounted.
LEMMA CountTypes ==
    ASSUME PhoneInv
    PROVE  /\ IsFiniteSet(Loops) /\ Cardinality(Loops) \in Nat
           /\ IsFiniteSet(authenticating) /\ Cardinality(authenticating) \in Nat
           /\ logins \in Nat
BY LoopsFinite, LoopsAreOfPolls, FS_CardinalityType, ConstantTypes DEF PhoneInv, TypeOK, LoopsCounted

\* A step that adds no loop, no login and no request, and keeps the flag
\* honest, keeps the count.
LEMMA NoMoreLoops ==
    ASSUME PhoneInv, polls' \in Seq(Poll), Cardinality(Loops') <= Cardinality(Loops),
           authenticating' = authenticating, logins' = logins,
           requestingUpdates' => Loops' # {}
    PROVE  PollsGood
<1>1. Cardinality(Loops') \in Nat
  BY LoopsFinite, LoopsAreOfPolls
<1> QED BY <1>1, CountTypes DEF PollsGood, LoopsCounted, PhoneInv

\* Steps that leave polls and flag alone.
LEMMA SameLoops ==
    ASSUME PhoneInv, polls' = polls, requestingUpdates' \in {requestingUpdates, FALSE},
           authenticating' = authenticating, logins' = logins
    PROVE  PollsGood
<1>1. Loops' = Loops /\ polls' \in Seq(Poll)
  BY LoopsAreOfPolls DEF PhoneInv, TypeOK
<1>2. requestingUpdates' => Loops' # {}
  BY <1>1 DEF PhoneInv, PollingIsReal, TypeOK
<1> QED BY <1>1, <1>2, CountTypes, NoMoreLoops

\* Joining: a request is added with its login, and traded for a loop.
LEMMA JoinPolls ==
    ASSUME PhoneInv,
           \/ authenticateClient
           \/ \E a \in authenticating : \/ createSession(a) \/ clientDidAuthenticate(a)
                                        \/ lateAuthenticate(a) \/ authenticateFails(a)
    PROVE  PollsGood
<1>0. TypeOK /\ PollingIsReal /\ Cardinality(Loops) + Cardinality(authenticating) <= logins
  BY DEF PhoneInv, LoopsCounted
<1>c. /\ IsFiniteSet(Loops) /\ Cardinality(Loops) \in Nat
      /\ IsFiniteSet(authenticating) /\ Cardinality(authenticating) \in Nat
      /\ logins \in Nat
  BY CountTypes
<1>1. ASSUME polls' = polls, requestingUpdates' = requestingUpdates
      PROVE  Loops' = Loops /\ polls' \in Seq(Poll) /\ (requestingUpdates' => Loops' # {})
  BY <1>0, <1>1, LoopsAreOfPolls DEF TypeOK, PollingIsReal
<1>2. CASE authenticateClient
  <2>1. authenticating' = authenticating \cup {Request(logins + 1, "sent")} /\ logins' = logins + 1
    BY <1>2 DEF authenticateClient
  <2>2. /\ IsFiniteSet(authenticating')
        /\ Cardinality(authenticating') \in {Cardinality(authenticating), Cardinality(authenticating) + 1}
    BY <1>c, <2>1, FS_AddElement
  <2>3. polls' = polls /\ requestingUpdates' = requestingUpdates
    BY <1>2 DEF authenticateClient
  <2> QED BY <1>0, <1>c, <1>1, <2>1, <2>2, <2>3 DEF PollsGood, LoopsCounted
<1>3. ASSUME NEW a \in authenticating, createSession(a) PROVE PollsGood
  <2>1. authenticating' = (authenticating \ {a}) \cup {Request(a.sid, "created")}
    BY <1>3 DEF createSession
  <2>2. /\ IsFiniteSet(authenticating \ {a})
        /\ Cardinality(authenticating \ {a}) = Cardinality(authenticating) - 1
    BY <1>c, FS_RemoveElement
  <2>3. /\ IsFiniteSet(authenticating')
        /\ Cardinality(authenticating') \in {Cardinality(authenticating) - 1, Cardinality(authenticating)}
    <3> DEFINE rest == authenticating \ {a}
               x == Request(a.sid, "created")
    <3>1. IsFiniteSet(rest) /\ authenticating' = rest \cup {x}
      BY <2>1, <2>2
    <3>2. Cardinality(rest) = Cardinality(authenticating) - 1
      BY <2>2
    <3> HIDE DEF rest, x
    <3>3. /\ IsFiniteSet(rest \cup {x})
          /\ Cardinality(rest \cup {x}) \in {Cardinality(rest), Cardinality(rest) + 1}
      BY <3>1, FS_AddElement
    <3> QED BY <1>c, <3>1, <3>2, <3>3
  <2>4. polls' = polls /\ requestingUpdates' = requestingUpdates /\ logins' = logins
    BY <1>3 DEF createSession, phone, history
  <2> QED BY <1>0, <1>c, <1>1, <2>3, <2>4 DEF PollsGood, LoopsCounted
<1>4. ASSUME NEW a \in authenticating,
             authenticating' = authenticating \ {a}, logins' = logins
      PROVE  /\ IsFiniteSet(authenticating')
             /\ Cardinality(authenticating') = Cardinality(authenticating) - 1
  BY <1>c, <1>4, FS_RemoveElement
<1>5. ASSUME NEW a \in authenticating, lateAuthenticate(a) \/ authenticateFails(a) PROVE PollsGood
  <2>1. /\ authenticating' = authenticating \ {a} /\ logins' = logins
        /\ polls' = polls /\ requestingUpdates' = requestingUpdates
    BY <1>5 DEF lateAuthenticate, authenticateFails
  <2>2. /\ IsFiniteSet(authenticating')
        /\ Cardinality(authenticating') = Cardinality(authenticating) - 1
    BY <1>4, <2>1
  <2> QED BY <1>0, <1>c, <1>1, <2>1, <2>2 DEF PollsGood, LoopsCounted
<1>6. ASSUME NEW a \in authenticating, clientDidAuthenticate(a) PROVE PollsGood
  <2>1. authenticating' = authenticating \ {a} /\ logins' = logins /\ startUpdateRequests(a.sid)
    BY <1>6 DEF clientDidAuthenticate
  <2>2. a.sid \in Login
    BY <1>0 DEF TypeOK
  <2>3. /\ polls' \in Seq(Poll) /\ Loops' # {}
        /\ Cardinality(Loops') <= Cardinality(Loops) + 1
    BY <1>0, <2>1, <2>2, StartLoops
  <2>4. Cardinality(Loops') \in Nat
    BY <2>3, LoopsFinite, LoopsAreOfPolls
  <2>5. /\ IsFiniteSet(authenticating')
        /\ Cardinality(authenticating') = Cardinality(authenticating) - 1
    BY <1>4, <2>1
  <2> QED BY <1>0, <1>c, <2>1, <2>3, <2>4, <2>5 DEF PollsGood, LoopsCounted
<1> QED BY <1>2, <1>3, <1>5, <1>6

\* The poll loop: a poll is replaced by at most one other.
LEMMA PollStepPolls ==
    ASSUME PhoneInv, NEW i \in 1..Len(polls),
           PollStep(i) \/ updateTimeout(i) \/ updateFailure(i)
    PROVE  PollsGood
<1>c. Cardinality(Loops) \in Nat
  BY CountTypes
<1>0. TypeOK /\ polls[i] \in Poll /\ polls \in Seq(Poll) /\ clientID \in Login \cup {NoID}
  BY ElementOfSeq DEF PhoneInv, TypeOK
<1>1. ASSUME NEW e \in Poll, polls' = [polls EXCEPT ![i] = e],
             i \in Loops, e.state \notin {"closed", "lost"},
             requestingUpdates' = requestingUpdates, authenticating' = authenticating,
             logins' = logins
      PROVE  PollsGood
  <2>1. polls' \in Seq(Poll) /\ Loops' = Loops
    <3>1. i \in LoopsOf(polls)
      BY <1>1, LoopsAreOfPolls
    <3>2. [polls EXCEPT ![i] = e] \in Seq(Poll) /\ LoopsOf([polls EXCEPT ![i] = e]) = LoopsOf(polls)
      BY <1>0, <1>1, <3>1, ExceptLoops
    <3> QED BY <1>1, <3>2, LoopsAreOfPolls
  <2>2. Cardinality(Loops') <= Cardinality(Loops)
    BY <1>c, <2>1
  <2>3. requestingUpdates' => Loops' # {}
    BY <1>1, <2>1 DEF PhoneInv, PollingIsReal
  <2> QED BY <1>1, <2>1, <2>2, <2>3, NoMoreLoops
<1>2. CASE updateRequestLoop(i)
  <2>1. Asked(clientID, "sent") \in Poll /\ Asked(clientID, "sent").state = "sent"
    BY <1>0, ConstantTypes DEF Asked, Poll
  <2>2. i \in Loops
    BY <1>2 DEF updateRequestLoop, Loops
  <2> QED BY <1>1, <1>2, <2>1, <2>2 DEF updateRequestLoop, phone, history
<1>3. CASE registerRequest(i)
  <2> DEFINE n == polls[i].sid
             answer == [sid |-> n, count |-> stored[n],
                        state |-> IF stored[n] = NoCount THEN "waiting" ELSE "answered"]
             refusal == [sid |-> n, count |-> polls[i].count, state |-> "refused"]
  <2>1. i \in Loops /\ refusal \in Poll /\ (n \in live => answer \in Poll)
    BY <1>0, <1>3 DEF registerRequest, Loops, Poll, TypeOK
  <2>2. CASE n \in live
    <3>1. polls' = [polls EXCEPT ![i] = answer]
      BY <1>0, <1>3, <2>2 DEF registerRequest, Poll
    <3>2. answer.state \notin {"closed", "lost"}
      OBVIOUS
    <3> HIDE DEF answer, n
    <3> QED BY <1>1, <1>3, <2>1, <2>2, <3>1, <3>2 DEF registerRequest, phone, history
  <2>3. CASE n \notin live
    <3>1. polls' = [polls EXCEPT ![i] = refusal]
      BY <1>0, <1>3, <2>3 DEF registerRequest, Poll
    <3>2. refusal.state \notin {"closed", "lost"}
      OBVIOUS
    <3> HIDE DEF refusal, n
    <3> QED BY <1>1, <1>3, <2>1, <2>3, <3>1, <3>2 DEF registerRequest, phone, history
  <2> QED BY <2>2, <2>3
<1>4. CASE updateSuccess(i) \/ updateTimeout(i)
  <2>1. /\ i \in Loops /\ pollAgain(i)
        /\ requestingUpdates' = requestingUpdates /\ authenticating' = authenticating
        /\ logins' = logins
    BY <1>4 DEF updateSuccess, updateTimeout, Loops, phone
  <2> QED BY <1>0, <2>1, PollAgainLoops, NoMoreLoops
<1>5. CASE updateFailure(i)
  <2>1. /\ i \in Loops /\ polls' = Ended(i) /\ requestingUpdates' = FALSE
        /\ authenticating' = authenticating /\ logins' = logins
    BY <1>5 DEF updateFailure, Loops
  <2>2. polls' \in Seq(Poll) /\ Cardinality(Loops') <= Cardinality(Loops) - 1
    BY <1>0, <2>1, EndedLoops, LoopsAreOfPolls
  <2>3. Cardinality(Loops') \in Nat
    BY <2>2, LoopsFinite, LoopsAreOfPolls
  <2> QED BY <1>c, <2>1, <2>2, <2>3, NoMoreLoops
<1>6. CASE channelInactive(i)
  <2>1. /\ Loops \ {i} = Loops /\ polls' = RemoveAt(polls, i)
        /\ requestingUpdates' = requestingUpdates
        /\ authenticating' = authenticating /\ logins' = logins
    BY <1>6 DEF channelInactive, Loops, phone, history
  <2>2. /\ polls' \in Seq(Poll) /\ Cardinality(Loops') <= Cardinality(Loops)
        /\ Loops # {} => Loops' # {}
    BY <1>0, <2>1, RemoveLoops, LoopsAreOfPolls
  <2> QED BY <2>1, <2>2, NoMoreLoops DEF PhoneInv, PollingIsReal
<1> QED BY <1>2, <1>3, <1>4, <1>5, <1>6 DEF PollStep

-----------------------------------------------------------------------------
(***************************************************************************)
(* Types, in four parts.                                                   *)
(***************************************************************************)
PhoneType ==
    /\ view \in {"login", "waiting", "party"} /\ clientID \in Login \cup {NoID}
    /\ requestingUpdates \in BOOLEAN /\ shown \in Count

RequestType ==
    /\ authenticating \subseteq [sid : Login, state : {"sent", "created"}]
    /\ deauthenticating \subseteq [sid : Login \cup {NoID}, state : {"sent", "done", "refused"}]
    /\ lists \in [Login -> [sid : Login, state : {"none", "sent", "read", "refused"}, count : Count]]

ServerType ==
    /\ live \subseteq Login /\ stored \in [Login -> Count]
    /\ votes \in 0..MaxVotes /\ broadcasts \subseteq Count

HistoryType ==
    /\ logins \in 0..MaxLogins /\ failures \in 0..MaxFailures
    /\ newest \in Count /\ seen \in Count /\ crossed \in BOOLEAN

LEMMA TypeParts ==
    /\ TypeOK <=> PhoneType /\ RequestType /\ ServerType /\ HistoryType /\ polls \in Seq(Poll)
    /\ TypeOK' <=> PhoneType' /\ RequestType' /\ ServerType' /\ HistoryType' /\ polls' \in Seq(Poll)
BY DEF TypeOK, PhoneType, RequestType, ServerType, HistoryType

\* The newer of two counts, and what clientDidFailTask shows, have the types
\* they should.
LEMMA NewerType == ASSUME NEW a \in Count, NEW b \in Count PROVE Newer(a, b) \in Count
BY DEF Newer

LEMMA FailureTypes ==
    ASSUME PhoneType, HistoryType
    PROVE  /\ clientDidFailTask => view' \in {"login", "waiting", "party"}
           /\ networkFails \/ failures' = failures => failures' \in 0..MaxFailures
BY ConstantTypes DEF PhoneType, HistoryType, clientDidFailTask, networkFails

\* Joining and leaving.
LEMMA JoinTypes ==
    ASSUME PhoneInv, PollsGood,
           \/ authenticateClient \/ viewWillDisappear
           \/ \E a \in authenticating : \/ createSession(a) \/ clientDidAuthenticate(a)
                                        \/ lateAuthenticate(a) \/ authenticateFails(a)
           \/ \E d \in deauthenticating : \/ destroySession(d) \/ deauthenticated(d)
                                          \/ deauthenticateFails(d)
    PROVE  TypeOK'
<1>0. PhoneType /\ RequestType /\ ServerType /\ HistoryType /\ polls' \in Seq(Poll)
  BY TypeParts DEF PhoneInv, PollsGood
<1> USE TypeParts, ConstantTypes
<1> USE DEF Request, Asked, phone, server, history
<1>1. CASE authenticateClient
  <2>1. PhoneType'
    BY <1>0, <1>1 DEF authenticateClient, PhoneType
  <2>2. RequestType'
    <3>1. logins + 1 \in Login
      BY <1>0, <1>1 DEF authenticateClient, HistoryType, Login
    <3>2. authenticating' = authenticating \cup {Request(logins + 1, "sent")}
      BY <1>1 DEF authenticateClient
    <3>3. authenticating' \subseteq [sid : Login, state : {"sent", "created"}]
      BY <1>0, <3>1, <3>2 DEF RequestType
    <3> QED BY <1>0, <1>1, <3>3 DEF authenticateClient, RequestType
  <2>3. ServerType' /\ HistoryType'
    BY <1>0, <1>1 DEF authenticateClient, ServerType, HistoryType
  <2> QED BY <1>0, <2>1, <2>2, <2>3
<1>2. CASE viewWillDisappear
  <2>1. PhoneType'
    BY <1>0, <1>2 DEF viewWillDisappear, PhoneType
  <2>2. RequestType'
    BY <1>0, <1>2 DEF viewWillDisappear, RequestType, PhoneType
  <2>3. ServerType' /\ HistoryType'
    BY <1>0, <1>2 DEF viewWillDisappear, ServerType, HistoryType
  <2> QED BY <1>0, <2>1, <2>2, <2>3
<1>3. ASSUME NEW a \in authenticating, createSession(a) PROVE TypeOK'
  <2>1. PhoneType' /\ HistoryType'
    BY <1>0, <1>3 DEF createSession, PhoneType, HistoryType
  <2>2. RequestType' /\ ServerType'
    BY <1>0, <1>3 DEF createSession, RequestType, ServerType
  <2> QED BY <1>0, <2>1, <2>2
<1>4. ASSUME NEW a \in authenticating, clientDidAuthenticate(a) PROVE TypeOK'
  <2>1. a.sid \in Login
    BY <1>0 DEF RequestType
  <2>2. PhoneType'
    <3>1. requestingUpdates' = TRUE
      BY <1>4, <2>1, StartLoops DEF clientDidAuthenticate, PhoneInv
    <3> QED BY <1>0, <1>4, <2>1, <3>1 DEF clientDidAuthenticate, PhoneType
  <2>3. RequestType'
    BY <1>0, <1>4, <2>1 DEF clientDidAuthenticate, RequestType
  <2>4. ServerType' /\ HistoryType'
    BY <1>0, <1>4 DEF clientDidAuthenticate, ServerType, HistoryType
  <2> QED BY <1>0, <2>2, <2>3, <2>4
<1>5. ASSUME NEW a \in authenticating, lateAuthenticate(a) PROVE TypeOK'
  <2>1. PhoneType' /\ RequestType'
    BY <1>0, <1>5 DEF lateAuthenticate, PhoneType, RequestType
  <2>2. ServerType' /\ HistoryType'
    BY <1>0, <1>5 DEF lateAuthenticate, ServerType, HistoryType
  <2> QED BY <1>0, <2>1, <2>2
<1>6. ASSUME NEW a \in authenticating, authenticateFails(a) PROVE TypeOK'
  <2>1. PhoneType' /\ RequestType'
    BY <1>0, <1>6, FailureTypes DEF authenticateFails, PhoneType, RequestType
  <2>2. ServerType' /\ HistoryType'
    BY <1>0, <1>6, FailureTypes DEF authenticateFails, ServerType, HistoryType
  <2> QED BY <1>0, <2>1, <2>2
<1>7. ASSUME NEW d \in deauthenticating, destroySession(d) PROVE TypeOK'
  <2>1. PhoneType' /\ HistoryType'
    BY <1>0, <1>7 DEF destroySession, PhoneType, HistoryType
  <2>2. RequestType' /\ ServerType'
    BY <1>0, <1>7 DEF destroySession, RequestType, ServerType
  <2> QED BY <1>0, <2>1, <2>2
<1>8. ASSUME NEW d \in deauthenticating, deauthenticated(d) PROVE TypeOK'
  <2>1. PhoneType' /\ RequestType'
    BY <1>0, <1>8 DEF deauthenticated, PhoneType, RequestType
  <2>2. ServerType' /\ HistoryType'
    BY <1>0, <1>8 DEF deauthenticated, ServerType, HistoryType
  <2> QED BY <1>0, <2>1, <2>2
<1>9. ASSUME NEW d \in deauthenticating, deauthenticateFails(d) PROVE TypeOK'
  <2>1. PhoneType' /\ RequestType'
    BY <1>0, <1>9, FailureTypes DEF deauthenticateFails, PhoneType, RequestType
  <2>2. ServerType' /\ HistoryType'
    BY <1>0, <1>9, FailureTypes DEF deauthenticateFails, ServerType, HistoryType
  <2> QED BY <1>0, <2>1, <2>2
<1> QED BY <1>1, <1>2, <1>3, <1>4, <1>5, <1>6, <1>7, <1>8, <1>9

\* The song list, and votes.
LEMMA ListTypes ==
    ASSUME PhoneInv, PollsGood,
           \/ vote
           \/ \E n \in Login : \/ getSongList(n) \/ clientDidReceiveSongList(n)
                               \/ requestSongListFails(n)
           \/ \E c \in broadcasts : broadcastUpdate(c)
    PROVE  TypeOK'
<1>0. PhoneType /\ RequestType /\ ServerType /\ HistoryType /\ polls' \in Seq(Poll)
  BY TypeParts DEF PhoneInv, PollsGood
<1> USE TypeParts, ConstantTypes
<1> USE DEF Asked, phone, requests, server, history
<1>1. CASE vote
  <2>1. PhoneType' /\ RequestType' /\ HistoryType'
    BY <1>0, <1>1 DEF vote, PhoneType, RequestType, HistoryType
  <2>2. ServerType'
    BY <1>0, <1>1 DEF vote, ServerType, Count
  <2> QED BY <1>0, <2>1, <2>2
<1>2. ASSUME NEW n \in Login, getSongList(n) PROVE TypeOK'
  <2>1. PhoneType' /\ ServerType' /\ HistoryType'
    BY <1>0, <1>2 DEF getSongList, PhoneType, ServerType, HistoryType
  <2>2. votes \in Count
    BY <1>0 DEF ServerType, Count
  <2>3. RequestType'
    BY <1>0, <1>2, <2>2 DEF getSongList, RequestType
  <2> QED BY <1>0, <2>1, <2>3
<1>3. ASSUME NEW n \in Login, clientDidReceiveSongList(n) PROVE TypeOK'
  <2>1. lists[n].count \in Count
    BY <1>0 DEF RequestType
  <2>2. RequestType' /\ ServerType'
    BY <1>0, <1>3 DEF clientDidReceiveSongList, RequestType, ServerType
  <2>3. PhoneType'
    BY <1>0, <1>3, <2>1 DEF clientDidReceiveSongList, PhoneType
  <2>4. seen' \in Count /\ crossed' \in BOOLEAN
    BY <1>0, <1>3, <2>1, NewerType DEF clientDidReceiveSongList, receive, HistoryType
  <2>5. HistoryType'
    BY <1>0, <1>3, <2>4 DEF clientDidReceiveSongList, HistoryType
  <2> QED BY <1>0, <2>2, <2>3, <2>5
<1>4. ASSUME NEW n \in Login, requestSongListFails(n) PROVE TypeOK'
  <2>1. PhoneType' /\ RequestType'
    BY <1>0, <1>4, FailureTypes DEF requestSongListFails, PhoneType, RequestType
  <2>2. ServerType' /\ HistoryType'
    BY <1>0, <1>4, FailureTypes DEF requestSongListFails, ServerType, HistoryType
  <2> QED BY <1>0, <2>1, <2>2
<1>5. ASSUME NEW c \in broadcasts, broadcastUpdate(c) PROVE TypeOK'
  <2>1. c \in Count
    BY <1>0 DEF ServerType
  <2>2. stored' \in [Login -> Count]
    BY <1>5, <2>1, QueueUpdateLoops DEF broadcastUpdate, PhoneInv
  <2>3. PhoneType' /\ RequestType' /\ ServerType'
    BY <1>0, <1>5, <2>2 DEF broadcastUpdate, PhoneType, RequestType, ServerType
  <2>4. newest' \in Count /\ crossed' \in BOOLEAN
    BY <1>0, <1>5, <2>1, NewerType DEF broadcastUpdate, HistoryType
  <2>5. HistoryType'
    BY <1>0, <1>5, <2>4 DEF broadcastUpdate, HistoryType
  <2> QED BY <1>0, <2>3, <2>5
<1> QED BY <1>1, <1>2, <1>3, <1>4, <1>5

\* The poll loop.
LEMMA PollTypes ==
    ASSUME PhoneInv, PollsGood, NEW i \in 1..Len(polls),
           PollStep(i) \/ updateTimeout(i) \/ updateFailure(i)
    PROVE  TypeOK'
<1>0. /\ PhoneType /\ RequestType /\ ServerType /\ HistoryType /\ polls' \in Seq(Poll)
      /\ polls[i] \in Poll
  BY TypeParts, ElementOfSeq DEF PhoneInv, PollsGood
<1> USE TypeParts, ConstantTypes
<1> USE DEF phone, requests, server, history
<1>1. CASE updateRequestLoop(i) \/ channelInactive(i)
  <2>1. PhoneType' /\ RequestType'
    BY <1>0, <1>1 DEF updateRequestLoop, channelInactive, PhoneType, RequestType
  <2>2. ServerType' /\ HistoryType'
    BY <1>0, <1>1 DEF updateRequestLoop, channelInactive, ServerType, HistoryType
  <2> QED BY <1>0, <2>1, <2>2
<1>2. CASE registerRequest(i)
  <2>1. PhoneType' /\ RequestType' /\ HistoryType'
    BY <1>0, <1>2 DEF registerRequest, PhoneType, RequestType, HistoryType
  <2>2. ServerType'
    BY <1>0, <1>2 DEF registerRequest, ServerType
  <2> QED BY <1>0, <2>1, <2>2
<1>3. CASE updateSuccess(i)
  <2>1. polls[i].count \in Count
    BY <1>0 DEF Poll
  <2>2. RequestType' /\ ServerType'
    BY <1>0, <1>3 DEF updateSuccess, RequestType, ServerType
  <2>3. PhoneType'
    BY <1>0, <1>3, <2>1 DEF updateSuccess, PhoneType
  <2>4. seen' \in Count /\ crossed' \in BOOLEAN
    BY <1>0, <1>3, <2>1, NewerType DEF updateSuccess, receive, HistoryType
  <2>5. HistoryType'
    BY <1>0, <1>3, <2>4 DEF updateSuccess, HistoryType
  <2> QED BY <1>0, <2>2, <2>3, <2>5
<1>4. CASE updateTimeout(i)
  <2>1. PhoneType' /\ RequestType'
    BY <1>0, <1>4 DEF updateTimeout, PhoneType, RequestType
  <2>2. ServerType' /\ HistoryType'
    BY <1>0, <1>4 DEF updateTimeout, ServerType, HistoryType
  <2> QED BY <1>0, <2>1, <2>2
<1>5. CASE updateFailure(i)
  <2>1. PhoneType' /\ RequestType'
    BY <1>0, <1>5, FailureTypes DEF updateFailure, PhoneType, RequestType
  <2>2. ServerType' /\ HistoryType'
    BY <1>0, <1>5, FailureTypes DEF updateFailure, ServerType, HistoryType
  <2> QED BY <1>0, <2>1, <2>2
<1> QED BY <1>1, <1>2, <1>3, <1>4, <1>5 DEF PollStep

-----------------------------------------------------------------------------
(***************************************************************************)
(* The theorems.                                                           *)
(***************************************************************************)
LEMMA PhoneInvInit == Init => PhoneInv
<1> SUFFICES ASSUME Init PROVE PhoneInv
  OBVIOUS
<1> USE ConstantTypes
<1>1. PhoneType /\ ServerType /\ HistoryType
  <2>1. PhoneType
    BY DEF Init, PhoneType
  <2>2. ServerType
    <3>1. votes \in 0..MaxVotes
      BY DEF Init
    <3>2. stored \in [Login -> Count]
      BY DEF Init
    <3> QED BY <3>1, <3>2 DEF Init, ServerType
  <2>3. HistoryType
    <3>1. logins = 0 /\ failures = 0 /\ newest = 0 /\ seen = NoCount /\ crossed = FALSE
      BY DEF Init
    <3>2. 0 \in 0..MaxLogins /\ 0 \in 0..MaxFailures /\ 0 \in Count /\ NoCount \in Count
      BY PhoneBoundsAssumption DEF Count
    <3> QED BY <3>1, <3>2 DEF HistoryType
  <2> QED BY <2>1, <2>2, <2>3
<1>2. RequestType
  BY DEF Init, RequestType, Asked
<1>3. polls = <<>> /\ polls \in Seq(Poll) /\ Loops = {}
  <2>1. polls = <<>>
    BY DEF Init
  <2>2. polls \in Seq(Poll) /\ Len(polls) = 0
    BY <2>1, EmptySeq
  <2> QED BY <2>1, <2>2 DEF Loops
<1>4. PollingIsReal
  BY DEF Init, PollingIsReal
<1>5. LoopsCounted
  <2>1. authenticating = {} /\ logins = 0
    BY DEF Init
  <2>2. IsFiniteSet({}) /\ Cardinality({}) = 0
    BY FS_EmptySet
  <2> QED BY <1>3, <2>1, <2>2 DEF LoopsCounted
<1>6. TypeOK
  BY <1>1, <1>2, <1>3, TypeParts
<1> QED BY <1>4, <1>5, <1>6 DEF PhoneInv

\* What a step does to the polls and to the types is all there is to show.
LEMMA PhoneInvFromParts == ASSUME PollsGood, TypeOK' PROVE PhoneInv'
BY DEF PhoneInv, PollsGood, PollingIsReal

\* Every step keeps the invariant.
LEMMA PhoneInvStep ==
    ASSUME PhoneInv, [Next]_vars
    PROVE  PhoneInv'
<1>1. CASE \/ authenticateClient
           \/ \E a \in authenticating : \/ createSession(a) \/ clientDidAuthenticate(a)
                                        \/ lateAuthenticate(a) \/ authenticateFails(a)
  <2>1. PollsGood
    BY <1>1, JoinPolls
  <2>2. TypeOK'
    BY <1>1, <2>1, JoinTypes
  <2> QED BY <2>1, <2>2, PhoneInvFromParts
<1>2. CASE \/ viewWillDisappear
           \/ \E d \in deauthenticating : \/ destroySession(d) \/ deauthenticated(d)
                                          \/ deauthenticateFails(d)
  <2>1. /\ polls' = polls /\ requestingUpdates' \in {requestingUpdates, FALSE}
        /\ authenticating' = authenticating /\ logins' = logins
    BY <1>2 DEF viewWillDisappear, destroySession, deauthenticated, deauthenticateFails, phone,
                history
  <2>2. PollsGood
    BY <2>1, SameLoops
  <2>3. TypeOK'
    BY <1>2, <2>2, JoinTypes
  <2> QED BY <2>2, <2>3, PhoneInvFromParts
<1>3. CASE \/ vote
           \/ \E n \in Login : \/ getSongList(n) \/ clientDidReceiveSongList(n)
                               \/ requestSongListFails(n)
  <2>1. /\ polls' = polls /\ requestingUpdates' \in {requestingUpdates, FALSE}
        /\ authenticating' = authenticating /\ logins' = logins
    BY <1>3 DEF vote, getSongList, clientDidReceiveSongList, requestSongListFails, phone,
                requests, history
  <2>2. PollsGood
    BY <2>1, SameLoops
  <2>3. TypeOK'
    BY <1>3, <2>2, ListTypes
  <2> QED BY <2>2, <2>3, PhoneInvFromParts
<1>4. ASSUME NEW c \in broadcasts, broadcastUpdate(c)
      PROVE  PhoneInv'
  <2>1. c \in Count /\ TypeOK /\ PollingIsReal
    BY DEF PhoneInv, TypeOK
  <2>2. polls' \in Seq(Poll) /\ Loops' = Loops
    BY <1>4, <2>1, QueueUpdateLoops DEF broadcastUpdate
  <2>3. /\ requestingUpdates' = requestingUpdates
        /\ authenticating' = authenticating /\ logins' = logins
    BY <1>4 DEF broadcastUpdate, phone
  <2>4. Cardinality(Loops') <= Cardinality(Loops)
    BY <2>2, CountTypes
  <2>5. PollsGood
    BY <2>1, <2>2, <2>3, <2>4, NoMoreLoops DEF PollingIsReal
  <2>6. TypeOK'
    BY <1>4, <2>5, ListTypes
  <2> QED BY <2>5, <2>6, PhoneInvFromParts
<1>5. ASSUME NEW i \in 1..Len(polls), PollStep(i) \/ updateTimeout(i) \/ updateFailure(i)
      PROVE  PhoneInv'
  <2>1. PollsGood
    BY <1>5, PollStepPolls
  <2>2. TypeOK'
    BY <1>5, <2>1, PollTypes
  <2> QED BY <2>1, <2>2, PhoneInvFromParts
<1>6. CASE UNCHANGED vars
  <2>1. UNCHANGED <<phone, requests, server, history>>
    BY <1>6 DEF vars
  <2>2. PollsGood
    BY <2>1, SameLoops DEF phone, requests, history
  <2>3. TypeOK'
    BY <2>1 DEF PhoneInv, TypeOK, phone, requests, server, history
  <2> QED BY <2>2, <2>3, PhoneInvFromParts
<1> QED BY <1>1, <1>2, <1>3, <1>4, <1>5, <1>6 DEF Next, User, Responses, PollEnd

\* Whatever the user, the network and the server do: the types, a poll loop
\* for every phone that believes it is polling, and no loop that no login has
\* paid for (ClientSession.m, startUpdateRequests and updateRequestLoop).
THEOREM Invariance == Spec => []PhoneInv
<1>1. Init => PhoneInv
  BY PhoneInvInit
<1>2. PhoneInv /\ [Next]_vars => PhoneInv'
  BY PhoneInvStep
<1> QED BY <1>1, <1>2, PTL DEF Spec

\* Every variable of the phone, of its requests and of the server's side of
\* them keeps its type.
THEOREM TypeCorrect == Spec => []TypeOK
<1>1. PhoneInv => TypeOK
  BY DEF PhoneInv
<1> QED BY <1>1, Invariance, PTL

\* While _requestingUpdates is set a poll loop is running, so
\* startUpdateRequests may start none, for any number of logins, timeouts,
\* failures and lost responses.
THEOREM PollingIsRealTheorem == Spec => []PollingIsReal
<1>1. PhoneInv => PollingIsReal
  BY DEF PhoneInv
<1> QED BY <1>1, Invariance, PTL

\* A phone never runs more poll loops than it has sent authenticate requests,
\* although a loop left over from an earlier login may be revived.
THEOREM LoopsBoundedTheorem == Spec => []LoopsBounded
<1>1. PhoneInv => LoopsBounded
  <2> SUFFICES ASSUME PhoneInv PROVE LoopsBounded
    OBVIOUS
  <2> QED BY CountTypes DEF PhoneInv, LoopsCounted, LoopsBounded
<1> QED BY <1>1, Invariance, PTL
=============================================================================
