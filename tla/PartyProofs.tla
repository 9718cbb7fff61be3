---------------------------- MODULE PartyProofs ----------------------------
(***************************************************************************)
(* Proofs about Party for any library, any users and any lengths of the    *)
(* speaker's queues: what server and speaker know of each other although   *)
(* updates are coalesced, lost and late.                                   *)
(***************************************************************************)
EXTENDS Party, SongManagerProofs, SequenceTheorems

-----------------------------------------------------------------------------
(***************************************************************************)
(* Sequences of updates.                                                   *)
(***************************************************************************)
\* new holds entries of old and updates of the set us, where two entries of a
\* type keep their order and those of us come last: f says where in old an
\* entry of new was.
Follows(new, old, us) ==
    \E f \in [DOMAIN new -> Nat] :
       /\ \A i \in DOMAIN new :
             \/ f[i] \in DOMAIN old /\ new[i] = old[f[i]]
             \/ f[i] = Len(old) + 1 /\ new[i] \in us
       /\ \A i, j \in DOMAIN new : i < j /\ new[i].type = new[j].type => f[i] <= f[j]

\* Nothing happens to the updates.
LEMMA FollowsItself == ASSUME NEW S, NEW q \in Seq(S), NEW us PROVE Follows(q, q, us)
<1> DEFINE f == [i \in DOMAIN q |-> i]
<1>1. f \in [DOMAIN q -> Nat]
  BY LenProperties
<1>2. \A i, j \in DOMAIN q : i < j => f[i] <= f[j]
  BY LenProperties
<1> QED BY <1>1, <1>2 DEF Follows

\* Two things happen to them, one after the other.
LEMMA FollowsTwice ==
    ASSUME NEW S, NEW q1 \in Seq(S), NEW q2 \in Seq(S), NEW q3 \in Seq(S), NEW us,
           Follows(q2, q1, us), Follows(q3, q2, us)
    PROVE  Follows(q3, q1, us)
<1>1. PICK f \in [DOMAIN q2 -> Nat] :
         /\ \A i \in DOMAIN q2 : \/ f[i] \in DOMAIN q1 /\ q2[i] = q1[f[i]]
                                 \/ f[i] = Len(q1) + 1 /\ q2[i] \in us
         /\ \A i, j \in DOMAIN q2 : i < j /\ q2[i].type = q2[j].type => f[i] <= f[j]
  BY DEF Follows
<1>2. PICK g \in [DOMAIN q3 -> Nat] :
         /\ \A i \in DOMAIN q3 : \/ g[i] \in DOMAIN q2 /\ q3[i] = q2[g[i]]
                                 \/ g[i] = Len(q2) + 1 /\ q3[i] \in us
         /\ \A i, j \in DOMAIN q3 : i < j /\ q3[i].type = q3[j].type => g[i] <= g[j]
  BY DEF Follows
<1>3. /\ DOMAIN q1 = 1..Len(q1) /\ Len(q1) \in Nat
      /\ DOMAIN q2 = 1..Len(q2) /\ Len(q2) \in Nat
  BY LenProperties
<1> DEFINE h == [i \in DOMAIN q3 |-> IF g[i] \in DOMAIN q2 THEN f[g[i]] ELSE Len(q1) + 1]
<1>4. h \in [DOMAIN q3 -> Nat]
  BY <1>1, <1>2, <1>3
<1>5. ASSUME NEW i \in DOMAIN q3
      PROVE  \/ h[i] \in DOMAIN q1 /\ q3[i] = q1[h[i]]
             \/ h[i] = Len(q1) + 1 /\ q3[i] \in us
  BY <1>1, <1>2, <1>3
<1>6. ASSUME NEW i \in DOMAIN q3, NEW j \in DOMAIN q3, i < j, q3[i].type = q3[j].type
      PROVE  h[i] <= h[j]
  <2>1. g[i] <= g[j] /\ g[i] \in Nat /\ g[j] \in Nat
    BY <1>2, <1>6
  <2>2. CASE g[j] \in DOMAIN q2
    <3>1. g[i] \in DOMAIN q2
      BY <1>2, <1>3, <2>1, <2>2
    <3>2. q2[g[i]] = q3[i] /\ q2[g[j]] = q3[j]
      BY <1>2, <1>3, <2>2, <3>1
    <3>3. f[g[i]] <= f[g[j]]
      BY <1>1, <1>3, <1>6, <2>1, <2>2, <3>1, <3>2
    <3> QED BY <2>2, <3>1, <3>3
  <2>3. CASE g[j] \notin DOMAIN q2
    <3>1. h[i] <= Len(q1) + 1
      BY <1>1, <1>3
    <3> QED BY <2>3, <3>1
  <2> QED BY <2>2, <2>3
<1> HIDE DEF h
<1> QED BY <1>4, <1>5, <1>6 DEF Follows

\* Appending an update.
LEMMA AppendFollows ==
    ASSUME NEW S, NEW q \in Seq(S), NEW u \in S, NEW us, u \in us
    PROVE  Follows(Append(q, u), q, us)
<1> DEFINE new == Append(q, u)
<1>1. /\ Len(q) \in Nat /\ DOMAIN q = 1..Len(q) /\ DOMAIN new = 1..(Len(q) + 1)
      /\ \A i \in 1..Len(q) : new[i] = q[i]
      /\ new[Len(q) + 1] = u
  BY AppendProperties, LenProperties
<1> HIDE DEF new
<1> DEFINE f == [i \in DOMAIN new |-> i]
<1>2. f \in [DOMAIN new -> Nat]
  BY <1>1
<1>3. \A i, j \in DOMAIN new : i < j => f[i] <= f[j]
  BY <1>1
<1>4. \A i \in DOMAIN new : \/ f[i] \in DOMAIN q /\ new[i] = q[f[i]]
                            \/ f[i] = Len(q) + 1 /\ new[i] \in us
  BY <1>1
<1> QED BY <1>2, <1>3, <1>4 DEF Follows, new

\* What is appended to the second part is appended to the whole.
LEMMA ConcatAppend ==
    ASSUME NEW S, NEW a \in Seq(S), NEW p \in Seq(S), NEW u \in S
    PROVE  a \o Append(p, u) = Append(a \o p, u)
<1>1. a \o p \in Seq(S) /\ <<u>> \in Seq(S)
  BY ConcatProperties
<1>2. Append(p, u) = p \o <<u>> /\ Append(a \o p, u) = (a \o p) \o <<u>>
  BY <1>1, AppendIsConcat
<1>3. (a \o p) \o <<u>> = a \o (p \o <<u>>)
  BY <1>1, ConcatAssociative
<1> QED BY <1>2, <1>3

\* The entries of two sequences in a row.
LEMMA ConcatEntries ==
    ASSUME NEW S, NEW a \in Seq(S), NEW p \in Seq(S)
    PROVE  /\ a \o p \in Seq(S) /\ Len(a) \in Nat /\ Len(p) \in Nat
           /\ Len(a \o p) = Len(a) + Len(p) /\ DOMAIN (a \o p) = 1..(Len(a) + Len(p))
           /\ \A i \in 1..(Len(a) + Len(p)) :
                 (a \o p)[i] = IF i <= Len(a) THEN a[i] ELSE p[i - Len(a)]
<1> DEFINE c == a \o p
<1>1. /\ c \in Seq(S) /\ Len(c) = Len(a) + Len(p)
      /\ \A i \in 1..(Len(a) + Len(p)) : c[i] = IF i <= Len(a) THEN a[i] ELSE p[i - Len(a)]
  BY ConcatProperties
<1>2. Len(a) \in Nat /\ Len(p) \in Nat
  BY LenProperties
<1> HIDE DEF c
<1>3. DOMAIN c = 1..Len(c)
  BY <1>1, LenProperties
<1>4. /\ c \in Seq(S) /\ Len(a) \in Nat /\ Len(p) \in Nat
      /\ Len(c) = Len(a) + Len(p) /\ DOMAIN c = 1..(Len(a) + Len(p))
      /\ \A i \in 1..(Len(a) + Len(p)) : c[i] = IF i <= Len(a) THEN a[i] ELSE p[i - Len(a)]
  BY <1>1, <1>2, <1>3
<1> QED BY <1>4 DEF c

\* Putting an update in the place of the only other one of its type.
LEMMA ReplaceFollows ==
    ASSUME NEW S, NEW a \in Seq(S), NEW p \in Seq(S), NEW r \in Seq(S), NEW u \in S,
           NEW us, u \in us, Len(r) = Len(p),
           \A i \in 1..Len(p) : \/ r[i] = u /\ p[i].type = u.type
                                \/ r[i] = p[i] /\ p[i].type # u.type,
           \A i, j \in DOMAIN p : p[i].type = p[j].type => i = j
    PROVE  Follows(a \o r, a \o p, us)
<1> DEFINE old == a \o p
           new == a \o r
           n   == Len(a)
<1>1. n \in Nat /\ Len(p) \in Nat /\ DOMAIN p = 1..Len(p)
  BY LenProperties
<1>2. /\ Len(old) = n + Len(p) /\ DOMAIN old = 1..(n + Len(p))
      /\ \A i \in 1..(n + Len(p)) : old[i] = IF i <= n THEN a[i] ELSE p[i - n]
  BY ConcatEntries
<1>3. /\ DOMAIN new = 1..(n + Len(p))
      /\ \A i \in 1..(n + Len(p)) : new[i] = IF i <= n THEN a[i] ELSE r[i - n]
  <2>1. /\ DOMAIN new = 1..(n + Len(r))
        /\ \A i \in 1..(n + Len(r)) : new[i] = IF i <= n THEN a[i] ELSE r[i - n]
    BY ConcatEntries
  <2>2. Len(r) = Len(p)
    OBVIOUS
  <2> HIDE DEF new, n
  <2> QED BY <2>1, <2>2
<1> HIDE DEF old, new, n
<1> DEFINE f == [i \in DOMAIN new |-> IF i > n /\ new[i].type = u.type THEN Len(old) + 1 ELSE i]
<1>4. f \in [DOMAIN new -> Nat]
  BY <1>1, <1>2, <1>3
<1>5. ASSUME NEW i \in DOMAIN new, i > n
      PROVE  i - n \in 1..Len(p) /\ new[i] = r[i - n] /\ old[i] = p[i - n]
  BY <1>1, <1>2, <1>3, <1>5
<1>6. ASSUME NEW i \in DOMAIN new
      PROVE  \/ f[i] \in DOMAIN old /\ new[i] = old[f[i]]
             \/ f[i] = Len(old) + 1 /\ new[i] \in us
  <2>1. CASE i <= n
    <3>1. i \in DOMAIN old /\ ~(i > n) /\ new[i] = a[i] /\ old[i] = a[i]
      BY <1>1, <1>2, <1>3, <2>1
    <3> QED BY <3>1
  <2>2. CASE i > n
    <3>1. PICK k \in 1..Len(p) : new[i] = r[k] /\ old[i] = p[k]
      BY <1>5, <2>2
    <3>2. CASE r[k] = u
      <4>1. f[i] = Len(old) + 1
        BY <2>2, <3>1, <3>2
      <4> QED BY <3>1, <3>2, <4>1
    <3>3. CASE r[k] = p[k] /\ p[k].type # u.type
      BY <1>2, <1>3, <2>2, <3>1, <3>3
    <3> QED BY <3>2, <3>3
  <2> QED BY <1>1, <1>3, <2>1, <2>2
<1>7. ASSUME NEW i \in DOMAIN new, NEW j \in DOMAIN new, i < j, new[i].type = new[j].type
      PROVE  f[i] <= f[j]
  <2>1. CASE i > n /\ new[i].type = u.type
    <3>1. j > n
      BY <1>1, <1>3, <1>7, <2>1
    <3>2. PICK k \in 1..Len(p) : k = i - n /\ new[i] = r[k]
      BY <1>5, <2>1
    <3>3. PICK l \in 1..Len(p) : l = j - n /\ new[j] = r[l]
      BY <1>5, <3>1
    <3>4. p[k].type = u.type /\ p[l].type = u.type
      BY <1>7, <2>1, <3>2, <3>3
    <3>5. k = l
      BY <1>1, <3>4
    <3> QED BY <1>1, <1>3, <1>7, <3>2, <3>3, <3>5
  <2>2. CASE ~(i > n /\ new[i].type = u.type)
    BY <1>1, <1>2, <1>3, <1>7, <2>2
  <2> QED BY <2>1, <2>2
<1> HIDE DEF f
<1>8. Follows(new, old, us)
  BY <1>4, <1>6, <1>7 DEF Follows
<1> QED BY <1>8 DEF new, old

-----------------------------------------------------------------------------
(***************************************************************************)
(* The session's queue.                                                    *)
(***************************************************************************)
Box == [pending : Seq(Pi!Update), waiting : BOOLEAN, stale : Nat, wire : Seq(Pi!Update)]

\* A request waits only while nothing is stored or under way, and of every
\* type one update is stored at most.
BoxInv(box) ==
    /\ box \in Box
    /\ Len(box.wire) <= 1
    /\ box.waiting => box.pending = << >> /\ box.wire = << >>
    /\ \A i, j \in DOMAIN box.pending : box.pending[i].type = box.pending[j].type => i = j

\* What a speaker with the updates q in its own queue will still get.
ToCome(q, box) == (q \o box.wire) \o box.pending

\* What is to come is a sequence of updates.
LEMMA ToComeType ==
    ASSUME NEW q \in Seq(Pi!Update), NEW box \in Box
    PROVE  q \o box.wire \in Seq(Pi!Update) /\ ToCome(q, box) \in Seq(Pi!Update)
<1> HIDE DEF Pi!Update
<1>1. box.wire \in Seq(Pi!Update) /\ box.pending \in Seq(Pi!Update)
  BY DEF Box
<1>2. q \o box.wire \in Seq(Pi!Update)
  BY <1>1, ConcatProperties
<1>3. (q \o box.wire) \o box.pending \in Seq(Pi!Update)
  BY <1>1, <1>2, ConcatProperties
<1> QED BY <1>2, <1>3 DEF ToCome

\* Queueing an update loses it, hands it out, stores it, or puts it in the
\* place of another one of its type; nobody overtakes.
LEMMA QueueUpdateStep ==
    ASSUME NEW q \in Seq(Pi!Update), NEW box, BoxInv(box), NEW u \in Pi!Update, NEW us, u \in us
    PROVE  /\ BoxInv(queueUpdate(box, u))
           /\ ~box.waiting => /\ ~queueUpdate(box, u).waiting
                              /\ queueUpdate(box, u).wire = box.wire
           /\ Follows(ToCome(q, queueUpdate(box, u)), ToCome(q, box), us)
<1> DEFINE new == queueUpdate(box, u)
           p   == box.pending
           w   == box.wire
           a   == q \o w
<1> HIDE DEF Pi!Update
<1>1. /\ w \in Seq(Pi!Update) /\ p \in Seq(Pi!Update) /\ a \in Seq(Pi!Update)
      /\ DOMAIN p = 1..Len(p) /\ Len(p) \in Nat /\ a \o p \in Seq(Pi!Update)
      /\ ToCome(q, box) = a \o p
  <2>1. box \in Box /\ w \in Seq(Pi!Update) /\ p \in Seq(Pi!Update)
    BY DEF BoxInv, Box
  <2>2. a \in Seq(Pi!Update) /\ ToCome(q, box) \in Seq(Pi!Update)
    BY <2>1, ToComeType
  <2>3. DOMAIN p = 1..Len(p) /\ Len(p) \in Nat
    BY <2>1, LenProperties
  <2> QED BY <2>1, <2>2, <2>3 DEF ToCome
<1>2. CASE box.stale > 0
  <2>0. box.stale \in Nat /\ box.stale - 1 \in Nat
    BY <1>2 DEF BoxInv, Box
  <2>1. new = [box EXCEPT !.stale = box.stale - 1]
    BY <1>2 DEF queueUpdate
  <2>2. BoxInv(new) /\ new.waiting = box.waiting /\ new.wire = box.wire /\ new.pending = p
    BY <2>0, <2>1 DEF BoxInv, Box
  <2>3. ToCome(q, new) = ToCome(q, box)
    BY <2>2 DEF ToCome
  <2> QED BY <1>1, <2>2, <2>3, FollowsItself
<1>3. CASE ~(box.stale > 0) /\ box.waiting
  <2>1. new = [box EXCEPT !.waiting = FALSE, !.wire = <<u>>]
    BY <1>3 DEF queueUpdate
  <2>2. p = << >> /\ w = << >>
    BY <1>3 DEF BoxInv
  <2>3. <<u>> \in Seq(Pi!Update) /\ Len(<<u>>) = 1
    OBVIOUS
  <2>4. /\ new.pending = p /\ new.wire = <<u>> /\ new.waiting = FALSE
        /\ new \in Box
    BY <2>1, <2>3 DEF BoxInv, Box
  <2>5. BoxInv(new)
    <3>1. \A i, j \in DOMAIN p : p[i].type = p[j].type => i = j
      BY DEF BoxInv
    <3> HIDE DEF new, p
    <3> QED BY <2>3, <2>4, <3>1 DEF BoxInv
  <2>6. ToCome(q, new) = Append(q, u) /\ ToCome(q, box) = q
    <3>1. q \o <<u>> = Append(q, u)
      BY AppendIsConcat
    <3>2. Append(q, u) \in Seq(Pi!Update)
      BY AppendProperties
    <3>3. Append(q, u) \o << >> = Append(q, u) /\ q \o << >> = q
      BY <3>2, ConcatEmptySeq
    <3> QED BY <2>2, <2>4, <3>1, <3>3 DEF ToCome
  <2>7. Follows(Append(q, u), q, us)
    BY AppendFollows
  <2> QED BY <1>3, <2>5, <2>6, <2>7
<1>4. CASE ~(box.stale > 0) /\ ~box.waiting /\ \E i \in DOMAIN p : p[i].type = u.type
  <2> DEFINE r == [i \in DOMAIN p |-> IF p[i].type = u.type THEN u ELSE p[i]]
  <2>1. new = [box EXCEPT !.pending = r]
    BY <1>4 DEF queueUpdate
  <2>2. r \in Seq(Pi!Update) /\ Len(r) = Len(p) /\ DOMAIN r = 1..Len(p)
        /\ \A i \in 1..Len(p) : r[i] = (IF p[i].type = u.type THEN u ELSE p[i])
    <3>1. \A i \in 1..Len(p) : p[i] \in Pi!Update
      BY <1>1, ElementOfSeq
    <3> QED BY <1>1, <3>1
  <2>3. \A i \in 1..Len(p) : r[i].type = p[i].type
    BY <2>2
  <2>4. \A i, j \in DOMAIN p : p[i].type = p[j].type => i = j
    BY DEF BoxInv
  <2>5. BoxInv(new) /\ new.wire = box.wire /\ new.pending = r /\ ~new.waiting
    <3> HIDE DEF r
    <3>1. /\ new.pending = r /\ new.wire = box.wire /\ new.waiting = box.waiting
          /\ new \in Box /\ Len(box.wire) <= 1
      BY <2>1, <2>2 DEF BoxInv, Box
    <3>2. \A i, j \in DOMAIN r : r[i].type = r[j].type => i = j
      BY <1>1, <2>2, <2>3, <2>4
    <3> HIDE DEF new, p
    <3> QED BY <1>4, <3>1, <3>2 DEF BoxInv
  <2>6. ToCome(q, new) = a \o r
    BY <2>5 DEF ToCome
  <2>7. Follows(a \o r, a \o p, us)
    <3> HIDE DEF a, r, p
    <3>1. \A i \in 1..Len(p) : \/ r[i] = u /\ p[i].type = u.type
                               \/ r[i] = p[i] /\ p[i].type # u.type
      BY <2>2
    <3> QED BY <1>1, <2>2, <2>4, <3>1, ReplaceFollows
  <2> QED BY <1>1, <1>4, <2>5, <2>6, <2>7
<1>5. CASE ~(box.stale > 0) /\ ~box.waiting /\ ~\E i \in DOMAIN p : p[i].type = u.type
  <2> DEFINE r == Append(p, u)
  <2>1. new = [box EXCEPT !.pending = r]
    BY <1>5 DEF queueUpdate
  <2>2. r \in Seq(Pi!Update) /\ DOMAIN r = 1..(Len(p) + 1)
        /\ \A i \in 1..(Len(p) + 1) : r[i] = (IF i <= Len(p) THEN p[i] ELSE u)
    <3>1. /\ r \in Seq(Pi!Update) /\ Len(r) = Len(p) + 1
          /\ \A i \in 1..Len(p) : r[i] = p[i]
          /\ r[Len(p) + 1] = u
      BY <1>1, AppendProperties
    <3> HIDE DEF r, p
    <3> QED BY <1>1, <3>1, LenProperties
  <2>3. \A i, j \in DOMAIN p : p[i].type = p[j].type => i = j
    BY DEF BoxInv
  <2>4. BoxInv(new) /\ new.wire = box.wire /\ new.pending = r /\ ~new.waiting
    <3> HIDE DEF r, p
    <3>1. \A i, j \in DOMAIN r : r[i].type = r[j].type => i = j
      BY <1>1, <1>5, <2>2, <2>3
    <3> QED BY <1>1, <1>5, <2>1, <2>2, <3>1 DEF BoxInv, Box
  <2>5. ToCome(q, new) = Append(a \o p, u)
    <3>1. ToCome(q, new) = a \o r
      BY <2>4 DEF ToCome
    <3> HIDE DEF a, p
    <3> QED BY <1>1, <3>1, ConcatAppend
  <2>6. Follows(Append(a \o p, u), a \o p, us)
    <3> HIDE DEF a, p
    <3> QED BY <1>1, AppendFollows
  <2> QED BY <1>1, <1>5, <2>4, <2>5, <2>6
<1> QED BY <1>2, <1>3, <1>4, <1>5

\* The updates a step of the server gives a session, two at most.
LEMMA QueueUpdatesStep ==
    ASSUME NEW q \in Seq(Pi!Update), NEW box, BoxInv(box), NEW us \in Seq(Pi!Update),
           Len(us) <= 2
    PROVE  LET new == queueUpdates(box, us)
           IN  /\ BoxInv(new)
               /\ ~box.waiting => ~new.waiting /\ new.wire = box.wire
               /\ Follows(ToCome(q, new), ToCome(q, box), {us[i] : i \in DOMAIN us})
<1> HIDE DEF Pi!Update
<1> DEFINE set == {us[i] : i \in DOMAIN us}
           first == queueUpdate(box, us[1])
           new == queueUpdates(box, us)
<1>1. Len(us) \in Nat /\ DOMAIN us = 1..Len(us) /\ \A i \in 1..Len(us) : us[i] \in Pi!Update
  BY LenProperties, ElementOfSeq
<1>2. ToCome(q, box) \in Seq(Pi!Update)
  BY ToComeType DEF BoxInv
<1>3. CASE us = << >>
  BY <1>2, <1>3, FollowsItself DEF queueUpdates
<1>4. CASE us # << >>
  <2>1. 1 \in DOMAIN us /\ us[1] \in Pi!Update /\ us[1] \in set /\ Len(us) \in 1..2
    BY <1>1, <1>4, EmptySeq
  <2>2. /\ BoxInv(first)
        /\ ~box.waiting => ~first.waiting /\ first.wire = box.wire
        /\ Follows(ToCome(q, first), ToCome(q, box), set)
    <3> HIDE DEF set
    <3> QED BY <2>1, QueueUpdateStep
  <2>3. CASE Len(us) = 1
    BY <1>4, <2>2, <2>3 DEF queueUpdates
  <2>4. CASE Len(us) = 2
    <3>1. us[2] \in Pi!Update /\ us[2] \in set
      BY <1>1, <2>4
    <3>2. new = queueUpdate(first, us[2])
      BY <1>4, <2>4 DEF queueUpdates
    <3> HIDE DEF set, first
    <3>3. /\ BoxInv(new)
          /\ ~first.waiting => ~new.waiting /\ new.wire = first.wire
          /\ Follows(ToCome(q, new), ToCome(q, first), set)
      BY <2>2, <3>1, <3>2, QueueUpdateStep
    <3>4. ToCome(q, first) \in Seq(Pi!Update) /\ ToCome(q, new) \in Seq(Pi!Update)
      BY <2>2, <3>3, ToComeType DEF BoxInv
    <3>5. Follows(ToCome(q, new), ToCome(q, box), set)
      <4> HIDE DEF new
      <4> QED BY <1>2, <2>2, <3>3, <3>4, FollowsTwice
    <3>6. ~box.waiting => ~new.waiting /\ new.wire = box.wire
      BY <2>2, <3>3
    <3> HIDE DEF new
    <3>7. /\ BoxInv(new)
          /\ ~box.waiting => ~new.waiting /\ new.wire = box.wire
          /\ Follows(ToCome(q, new), ToCome(q, box), set)
      BY <3>3, <3>5, <3>6
    <3> QED BY <3>7 DEF set, new
  <2> QED BY <2>1, <2>3, <2>4
<1> QED BY <1>3, <1>4

\* A response that is lost, and an update the playback thread has taken.
LEMMA LostFollows ==
    ASSUME NEW S, NEW q \in Seq(S), NEW w \in Seq(S), NEW p \in Seq(S), NEW us
    PROVE  Follows((q \o << >>) \o p, (q \o w) \o p, us)
<1> DEFINE a   == q \o w
           old == a \o p
           new == q \o p
           f   == [i \in DOMAIN new |-> IF i <= Len(q) THEN i ELSE i + Len(w)]
<1>1. /\ a \in Seq(S) /\ Len(q) \in Nat /\ Len(w) \in Nat /\ Len(p) \in Nat
      /\ Len(a) = Len(q) + Len(w)
      /\ \A i \in 1..(Len(q) + Len(w)) : a[i] = IF i <= Len(q) THEN q[i] ELSE w[i - Len(q)]
  BY ConcatEntries
<1>2. /\ DOMAIN new = 1..(Len(q) + Len(p))
      /\ \A i \in 1..(Len(q) + Len(p)) : new[i] = IF i <= Len(q) THEN q[i] ELSE p[i - Len(q)]
  BY ConcatEntries
<1>3. q \o << >> = q
  BY ConcatEmptySeq
<1> HIDE DEF a, new
<1>4. /\ Len(old) = Len(a) + Len(p) /\ DOMAIN old = 1..(Len(a) + Len(p))
      /\ \A i \in 1..(Len(a) + Len(p)) : old[i] = IF i <= Len(a) THEN a[i] ELSE p[i - Len(a)]
  <2>1. a \in Seq(S)
    BY <1>1
  <2> QED BY <2>1, ConcatEntries
<1> HIDE DEF old
<1>5. f \in [DOMAIN new -> Nat]
  BY <1>1, <1>2
<1>6. ASSUME NEW i \in DOMAIN new PROVE f[i] \in DOMAIN old /\ new[i] = old[f[i]]
  <2>1. CASE i <= Len(q)
    <3>1. f[i] = i /\ new[i] = q[i]
      BY <1>2, <2>1
    <3>2. i \in 1..(Len(a) + Len(p)) /\ i <= Len(a) /\ i \in 1..(Len(q) + Len(w))
      BY <1>1, <1>2, <2>1
    <3>3. old[i] = a[i] /\ a[i] = q[i]
      BY <1>1, <1>4, <2>1, <3>2
    <3> QED BY <1>4, <3>1, <3>2, <3>3
  <2>2. CASE i > Len(q)
    <3>1. f[i] = i + Len(w) /\ new[i] = p[i - Len(q)]
      BY <1>1, <1>2, <2>2
    <3>2. /\ i + Len(w) \in 1..(Len(a) + Len(p)) /\ ~(i + Len(w) <= Len(a))
          /\ i + Len(w) - Len(a) = i - Len(q)
      BY <1>1, <1>2, <2>2
    <3>3. PICK k \in 1..(Len(a) + Len(p)) : k = i + Len(w)
      BY <3>2
    <3>4. old[k] = p[k - Len(a)]
      BY <1>4, <3>2, <3>3
    <3> HIDE DEF f
    <3>5. f[i] = k /\ k \in DOMAIN old
      BY <1>4, <3>1, <3>3
    <3>6. k - Len(a) = i - Len(q)
      BY <1>1, <1>2, <3>2, <3>3
    <3> QED BY <3>1, <3>4, <3>5, <3>6
  <2> QED BY <1>1, <1>2, <2>1, <2>2
<1>7. \A i, j \in DOMAIN new : i < j => f[i] <= f[j]
  BY <1>1, <1>2
<1> HIDE DEF f
<1>8. Follows(new, old, us)
  BY <1>5, <1>6, <1>7 DEF Follows
<1> QED BY <1>3, <1>8 DEF new, old, a

\* What is left when the first entry is taken.
LEMMA TailEntries ==
    ASSUME NEW S, NEW q \in Seq(S), q # << >>
    PROVE  /\ Tail(q) \in Seq(S) /\ Len(q) \in Nat /\ Len(q) >= 1
           /\ Len(Tail(q)) = Len(q) - 1 /\ DOMAIN Tail(q) = 1..(Len(q) - 1)
           /\ \A i \in 1..(Len(q) - 1) : Tail(q)[i] = q[i + 1]
           /\ DOMAIN q = 1..Len(q) /\ Head(q) = q[1] /\ Head(q) \in S
<1>1. /\ Head(q) \in S /\ Tail(q) \in Seq(S) /\ Len(Tail(q)) = Len(q) - 1
      /\ \A i \in 1..Len(Tail(q)) : Tail(q)[i] = q[i + 1]
  BY HeadTailProperties
<1>2. DOMAIN Tail(q) = 1..Len(Tail(q)) /\ DOMAIN q = 1..Len(q)
  BY <1>1, LenProperties
<1>3. Len(q) \in Nat /\ Len(q) >= 1 /\ Head(q) = q[1]
  BY EmptySeq
<1> QED BY <1>1, <1>2, <1>3

\* The playback thread takes an update.
LEMMA TailFollows ==
    ASSUME NEW S, NEW q \in Seq(S), NEW r \in Seq(S), q # << >>, NEW us
    PROVE  Follows(Tail(q) \o r, q \o r, us)
<1> DEFINE t   == Tail(q)
           old == q \o r
           new == t \o r
           f   == [i \in DOMAIN new |-> i + 1]
<1>1. /\ t \in Seq(S) /\ Len(q) \in Nat /\ Len(q) >= 1 /\ Len(t) = Len(q) - 1
      /\ \A i \in 1..(Len(q) - 1) : t[i] = q[i + 1]
  BY TailEntries
<1>2. /\ Len(r) \in Nat /\ DOMAIN old = 1..(Len(q) + Len(r))
      /\ \A i \in 1..(Len(q) + Len(r)) : old[i] = IF i <= Len(q) THEN q[i] ELSE r[i - Len(q)]
  BY ConcatEntries
<1> HIDE DEF t, old
<1>3. /\ DOMAIN new = 1..(Len(t) + Len(r))
      /\ \A i \in 1..(Len(t) + Len(r)) : new[i] = IF i <= Len(t) THEN t[i] ELSE r[i - Len(t)]
  BY <1>1, ConcatEntries
<1> HIDE DEF new
<1>4. f \in [DOMAIN new -> Nat]
  BY <1>1, <1>2, <1>3
<1>5. ASSUME NEW i \in DOMAIN new PROVE f[i] \in DOMAIN old /\ new[i] = old[f[i]]
  <2>1. i + 1 \in 1..(Len(q) + Len(r)) /\ f[i] = i + 1
    BY <1>1, <1>2, <1>3
  <2>2. CASE i <= Len(t)
    <3>1. new[i] = t[i] /\ t[i] = q[i + 1] /\ i + 1 <= Len(q)
      BY <1>1, <1>3, <2>2
    <3>2. PICK k \in 1..(Len(q) + Len(r)) : k = i + 1
      BY <2>1
    <3>3. old[k] = q[k]
      BY <1>2, <3>1, <3>2
    <3> QED BY <1>2, <2>1, <3>1, <3>2, <3>3
  <2>3. CASE i > Len(t)
    <3>1. new[i] = r[i - Len(t)] /\ ~(i + 1 <= Len(q)) /\ i + 1 - Len(q) = i - Len(t)
      BY <1>1, <1>2, <1>3, <2>3
    <3>2. PICK k \in 1..(Len(q) + Len(r)) : k = i + 1
      BY <2>1
    <3>3. old[k] = r[k - Len(q)]
      BY <1>2, <3>1, <3>2
    <3> HIDE DEF f
    <3>4. f[i] = k /\ k \in DOMAIN old
      BY <1>2, <2>1, <3>2
    <3>5. k - Len(q) = i - Len(t)
      BY <1>1, <1>2, <1>3, <3>1, <3>2
    <3> QED BY <3>1, <3>3, <3>4, <3>5
  <2> QED BY <1>1, <1>2, <1>3, <2>2, <2>3
<1>6. \A i, j \in DOMAIN new : i < j => f[i] <= f[j]
  BY <1>1, <1>2, <1>3
<1> HIDE DEF f
<1>7. Follows(new, old, us)
  BY <1>4, <1>5, <1>6 DEF Follows
<1> QED BY <1>7 DEF new, old, t

-----------------------------------------------------------------------------
(***************************************************************************)
(* Updates that fit what server and speaker know.                          *)
(***************************************************************************)
Announces(u) == u.type = "upcoming_song"
Commands(u)  == u.command = "Play"

\* An update of a server whose next song is next.
Fresh(u, next) == Announces(u) \/ Commands(u) => u.song = next

\* For a server with the songs active and next and a speaker with the songs
\* current and upcoming, the updates us name songs of now. What is about the
\* next song comes after what is about the song before it, and when the speaker
\* knows or plays the next song there is nothing older in us.
Fit(us, active, next, current, upcoming) ==
    /\ \A i \in DOMAIN us :
          /\ Announces(us[i]) => us[i].song \in {current, next}
          /\ Commands(us[i])  => us[i].song \in {active, next}
          /\ Announces(us[i]) /\ upcoming # NoSong => us[i].song = next
          /\ (Announces(us[i]) \/ Commands(us[i])) /\ current = next /\ next # NoSong =>
                us[i].song = next
    /\ \A i, j \in DOMAIN us :
          /\ i < j /\ us[i].song = next
          /\ (Announces(us[i]) /\ Announces(us[j])) \/ (Commands(us[i]) /\ Commands(us[j]))
          => us[j].song = next

\* The song and the type of an update.
LEMMA UpdateFacts ==
    ASSUME NEW us \in Seq(Pi!Update), NEW i \in DOMAIN us
    PROVE  /\ us[i] \in Pi!Update /\ us[i].song \in Song
           /\ Commands(us[i]) => us[i].type = "playback_command"
<1> DEFINE u == us[i]
<1>1. u \in Pi!Update
  <2> HIDE DEF Pi!Update
  <2> QED BY LenProperties, ElementOfSeq
<1> HIDE DEF u
<1>2. u.song \in Song /\ (Commands(u) => u.type = "playback_command")
  BY <1>1 DEF Pi!Update, Pi!Upcoming, Pi!Play, Pi!Stop, Commands
<1> QED BY <1>1, <1>2 DEF u

\* Updates still fit when some are lost and replaced by new ones, also by those
\* about a next song that has just been chosen.
LEMMA FitKept ==
    ASSUME NEW old \in Seq(Pi!Update), NEW new \in Seq(Pi!Update), NEW us,
           Follows(new, old, us),
           NEW a, NEW n, NEW m, NEW c, NEW x, Fit(old, a, n, c, x),
           \A u \in us : Fresh(u, m),
           x \in {NoSong, n}, c \in {NoSong, a, n},
           m = n \/ (n = NoSong /\ m \in Song /\ m # a)
    PROVE  Fit(new, a, m, c, x)
<1>1. PICK f \in [DOMAIN new -> Nat] :
         /\ \A i \in DOMAIN new : \/ f[i] \in DOMAIN old /\ new[i] = old[f[i]]
                                  \/ f[i] = Len(old) + 1 /\ new[i] \in us
         /\ \A i, j \in DOMAIN new : i < j /\ new[i].type = new[j].type => f[i] <= f[j]
  BY DEF Follows
<1>2. DOMAIN old = 1..Len(old) /\ Len(old) \in Nat
  BY LenProperties
<1>3. ASSUME NEW i \in DOMAIN new, f[i] \in DOMAIN old
      PROVE  /\ Announces(new[i]) => new[i].song \in {c, n}
             /\ Commands(new[i])  => new[i].song \in {a, n}
             /\ Announces(new[i]) /\ x # NoSong => new[i].song = n
             /\ (Announces(new[i]) \/ Commands(new[i])) /\ c = n /\ n # NoSong =>
                   new[i].song = n
             /\ new[i].song \in Song
  <2>1. new[i] = old[f[i]]
    BY <1>1, <1>2, <1>3
  <2> QED BY <1>3, <2>1, UpdateFacts DEF Fit
<1>4. ASSUME NEW i \in DOMAIN new, f[i] \notin DOMAIN old PROVE Fresh(new[i], m)
  BY <1>1, <1>4
<1>5. ASSUME NEW i \in DOMAIN new
      PROVE  /\ Announces(new[i]) => new[i].song \in {c, m}
             /\ Commands(new[i])  => new[i].song \in {a, m}
             /\ Announces(new[i]) /\ x # NoSong => new[i].song = m
             /\ (Announces(new[i]) \/ Commands(new[i])) /\ c = m /\ m # NoSong =>
                   new[i].song = m
  <2>1. CASE f[i] \in DOMAIN old
    BY <1>3, <2>1, NoSongAssumption
  <2>2. CASE f[i] \notin DOMAIN old
    BY <1>4, <2>2 DEF Fresh
  <2> QED BY <2>1, <2>2
<1>6. ASSUME NEW i \in DOMAIN new, NEW j \in DOMAIN new, i < j, new[i].song = m,
             (Announces(new[i]) /\ Announces(new[j])) \/ (Commands(new[i]) /\ Commands(new[j]))
      PROVE  new[j].song = m
  <2>1. CASE f[j] \notin DOMAIN old
    BY <1>4, <1>6, <2>1 DEF Fresh
  <2>2. CASE f[j] \in DOMAIN old
    <3>1. new[i].type = new[j].type
      BY <1>6, UpdateFacts DEF Announces
    <3>2. f[i] <= f[j] /\ f[i] \in Nat
      BY <1>1, <1>6, <3>1
    <3>3. f[i] \in DOMAIN old /\ new[i] = old[f[i]] /\ new[j] = old[f[j]]
      BY <1>1, <1>2, <2>2, <3>2
    <3>4. m = n
      BY <1>3, <1>6, <3>3, NoSongAssumption
    <3>5. CASE f[i] = f[j]
      BY <1>6, <3>3, <3>5
    <3>6. CASE f[i] < f[j]
      BY <1>6, <2>2, <3>3, <3>4, <3>6 DEF Fit
    <3> QED BY <1>1, <3>2, <3>5, <3>6
  <2> QED BY <2>1, <2>2
<1> QED BY <1>5, <1>6 DEF Fit

\* The first thing a new session hears may be a Play of the active song.
LEMMA FitWelcomed ==
    ASSUME NEW old \in Seq(Pi!Update), NEW new \in Seq(Pi!Update), NEW us,
           Follows(new, old, us),
           NEW a, NEW n, Fit(old, a, n, NoSong, NoSong), a # n,
           \A i \in DOMAIN old : ~Commands(old[i]),
           \A u \in us : Commands(u) /\ ~Announces(u) /\ u.song = a
    PROVE  Fit(new, a, n, NoSong, NoSong)
<1>1. PICK f \in [DOMAIN new -> Nat] :
         /\ \A i \in DOMAIN new : \/ f[i] \in DOMAIN old /\ new[i] = old[f[i]]
                                  \/ f[i] = Len(old) + 1 /\ new[i] \in us
         /\ \A i, j \in DOMAIN new : i < j /\ new[i].type = new[j].type => f[i] <= f[j]
  BY DEF Follows
<1>2. ASSUME NEW i \in DOMAIN new
      PROVE  \/ /\ Commands(new[i]) /\ ~Announces(new[i]) /\ new[i].song = a
             \/ /\ ~Commands(new[i]) /\ f[i] \in DOMAIN old /\ new[i] = old[f[i]]
                /\ Announces(new[i]) => new[i].song \in {NoSong, n}
  BY <1>1 DEF Fit
<1>3. ASSUME NEW i \in DOMAIN new PROVE new[i].song \in Song
  BY <1>3, UpdateFacts
<1>4. \A i, j \in DOMAIN new :
        Announces(new[j]) => new[j].song = n
  BY <1>2, <1>3, NoSongAssumption
<1> QED BY <1>2, <1>3, <1>4, NoSongAssumption DEF Fit

\* The song the speaker plays becomes the active one.
LEMMA FitStarted ==
    ASSUME NEW us \in Seq(Pi!Update), NEW a, NEW n, n # NoSong, Fit(us, a, n, n, NoSong)
    PROVE  Fit(us, n, NoSong, n, NoSong)
<1>1. \A i \in DOMAIN us : us[i].song # NoSong
  BY UpdateFacts, NoSongAssumption
<1> QED BY <1>1 DEF Fit

\* The speaker begins the next song.
LEMMA FitPlayed ==
    ASSUME NEW us \in Seq(Pi!Update), NEW a, NEW n, NEW c, n # NoSong, Fit(us, a, n, c, n),
           us # << >>, Commands(us[1]), us[1].song = n
    PROVE  Fit(us, a, n, n, NoSong)
<1>1. 1 \in DOMAIN us /\ \A i \in DOMAIN us : i = 1 \/ 1 < i
  BY EmptySeq, LenProperties
<1>2. \A i \in DOMAIN us : Commands(us[i]) => us[i].song = n
  BY <1>1 DEF Fit
<1>3. \A i \in DOMAIN us : Announces(us[i]) => us[i].song = n
  BY DEF Fit
<1> QED BY <1>2, <1>3 DEF Fit

\* The speaker hears of the next song.
LEMMA FitAnnounced ==
    ASSUME NEW us \in Seq(Pi!Update), NEW a, NEW n, NEW c, NEW x, Fit(us, a, n, c, x),
           us # << >>, Announces(us[1]), us[1].song = n
    PROVE  Fit(us, a, n, c, n)
<1>1. 1 \in DOMAIN us /\ \A i \in DOMAIN us : i = 1 \/ 1 < i
  BY EmptySeq, LenProperties
<1>2. \A i \in DOMAIN us : Announces(us[i]) => us[i].song = n
  BY <1>1 DEF Fit
<1> QED BY <1>2 DEF Fit

-----------------------------------------------------------------------------
(***************************************************************************)
(* The inductive invariant.                                                *)
(***************************************************************************)
\* What has been sent to the speaker and not yet been handled by its playback
\* thread.
Updates == ToCome(server_playback_queue, mailbox)

\* What an entry of the communication thread's queue says.
Says(e)   == IF e = Pi!Shared THEN message ELSE e
Queued    == DOMAIN playback_connection_queue
Entry(i)  == playback_connection_queue[i]
Posts(st) == comm.pc = "post" /\ comm.msg.status = st

\* A Ready that is being answered came from a session that is welcome.
HandlersInv ==
    \A p \in Speaker : readying[p] # NotReady => p \in speakers /\ p \notin welcoming

\* A request is open only while the update thread waits for it. The speaker
\* knows nothing before it has a session, and is told to play nothing before it
\* is welcome.
ThreadInv ==
    /\ server_playback_queue \in Seq(Pi!Update)
    /\ BoxInv(mailbox)
    /\ client_id \in Speaker \cup {NoSession}
    /\ update_thread # "wait" => ~mailbox.waiting /\ mailbox.wire = << >>
    /\ update_thread = "authenticate" => client_id = NoSession /\ mailbox = EmptyMailbox
    /\ update_thread = "authenticating" =>
          client_id \in welcoming /\ \A i \in DOMAIN Updates : ~Commands(Updates[i])
    /\ update_thread \in {"authenticate", "authenticating"} =>
          server_playback_queue = << >> /\ current_song = NoSong /\ next_song = NoSong

\* The speaker's two songs are songs of the server, and so are those of the
\* updates on the way.
SongsFit ==
    /\ next_song \in {NoSong, nextSong}
    /\ current_song \in {NoSong, activeSong, nextSong}
    /\ current_song = nextSong => next_song = NoSong

UpdatesFit == Fit(Updates, activeSong, nextSong, current_song, next_song)

\* The messages have their types; a dictionary that is queued has been filled
\* in, never with a Playing; a song that plays or has stopped exists.
MessageTypes ==
    /\ playback_connection_queue \in Seq(Pi!Entry)
    /\ comm \in [pc : {"idle", "download", "post", "answer"},
                 msg : Pi!Message \cup {Pi!NoMessage}, shared : BOOLEAN]
    /\ comm.pc # "idle" => comm.msg \in Pi!Message
    /\ comm.pc \in {"idle", "download"} => ~comm.shared
    /\ (\E i \in Queued : Entry(i) = Pi!Shared) \/ comm.shared => message \in Pi!Message
    /\ message.status # "Playing"
    /\ current_song_state \in {"PLAYING", "STOPPED"} => current_song # NoSong

\* At most one Playing is under way, and it announces the next song.
PlayingOnce ==
    /\ \A i \in Queued : Entry(i).status = "Playing" =>
          /\ Entry(i).id = nextSong /\ current_song = nextSong
          /\ ~Posts("Playing")
          /\ \A j \in Queued : Entry(j).status = "Playing" => i = j
    /\ Posts("Playing") => comm.msg.id = nextSong /\ current_song = nextSong

\* Songs are fetched for the next song only, and never once its Playing is
\* under way.
FetchInv ==
    /\ \A i \in Queued : Says(Entry(i)).status = "need_song" =>
          /\ Says(Entry(i)).id = nextSong /\ ~Posts("Playing")
          /\ \A j \in Queued : Entry(j).status = "Playing" => i < j
    /\ comm.pc = "download" => comm.msg.id = nextSong

\* What is called READY is on the disk.
ReadyInv ==
    /\ next_song # NoSong /\ next_song_state = "READY" => next_song \in files
    /\ \A i \in Queued : Says(Entry(i)).status = "Ready" => Says(Entry(i)).id \in files
    /\ Posts("Ready") => comm.msg.id \in files

\* The dictionary of playback_func is put in the queue again only after a
\* Playing has been put there, so that it is not written to while its Stopped
\* is still waited for.
SharedInv ==
    /\ \A i, j \in Queued : i < j /\ Entry(i) = Pi!Shared /\ Entry(j) = Pi!Shared =>
          \E k \in Queued : i < k /\ k < j /\ Entry(k).status = "Playing"
    /\ comm.shared =>
          \A j \in Queued : Entry(j) = Pi!Shared =>
             \E k \in Queued : k < j /\ Entry(k).status = "Playing"
    /\ current_song_state = "PLAYING" =>
          \A i \in Queued : Entry(i) = Pi!Shared =>
             \E k \in Queued : i < k /\ Entry(k).status = "Playing"
    /\ current_song_state = "PLAYING" /\ comm.shared =>
          \E k \in Queued : Entry(k).status = "Playing"

\* After a Playing of a song that has stopped comes its Stopped.
StoppedFollows ==
    current_song_state = "STOPPED" =>
       /\ \A i \in Queued : Entry(i).status = "Playing" =>
             \E j \in Queued : i < j /\ Says(Entry(j)).status = "Stopped"
       /\ Posts("Playing") => \E j \in Queued : Says(Entry(j)).status = "Stopped"

\* EndIsReported, as long as no reminder is overtaken.
StopReported ==
    current_song_state = "STOPPED" /\ current_song = activeSong /\ status[activeSong] = "Playing" =>
       \/ comm.pc = "post" /\ comm.msg.status = "Stopped"
       \/ \E i \in DOMAIN playback_connection_queue :
             LET e == playback_connection_queue[i]
             IN  (IF e = Pi!Shared THEN message ELSE e).status = "Stopped"

SpeakerInv ==
    /\ MessageTypes /\ PlayingOnce /\ FetchInv /\ ReadyInv
    /\ SharedInv /\ StoppedFollows /\ StopReported

ServerInv == ~overtaken /\ IInv /\ TornIsNext /\ NextSongIsAnother /\ HandlersInv
LinkInv   == ThreadInv /\ SongsFit /\ UpdatesFit
PartyInv  == ServerInv /\ LinkInv /\ SpeakerInv

-----------------------------------------------------------------------------
(***************************************************************************)
(* The server.                                                             *)
(***************************************************************************)
\* A step that starts no song, and one that does.
Keeps ==
    /\ activeSong' = activeSong
    /\ \/ nextSong' = nextSong
       \/ nextSong = NoSong /\ nextSong' \in Song /\ nextSong' # activeSong
    /\ activeSong # NoSong /\ status'[activeSong] = "Playing" => status[activeSong] = "Playing"

Starts == nextSong # NoSong /\ activeSong' = nextSong /\ nextSong' = NoSong

\* A step of SongManager keeps its invariant, and starts the next song, chooses
\* one when there is none, or changes neither song (statusPlaying, statusStopped,
\* scheduleNextSong, skipToNext).
LEMMA ServerSteps ==
    ASSUME ServerInv, ~overtaken', [Next]_vars
    PROVE  IInv' /\ TornIsNext' /\ NextSongIsAnother' /\ (Keeps \/ Starts)
<1>0. IInv /\ TypeOK /\ TornIsNext /\ NextSongIsAnother /\ ~overtaken
  BY DEF ServerInv, IInv
<1>1. IInv' /\ TornIsNext'
  BY <1>0, InvStep, TornIsNextStep
<1>2. \/ UNCHANGED <<nextSong, activeSong>>
      \/ nextSong = NoSong /\ nextSong' \in Song /\ nextSong' # activeSong /\ UNCHANGED activeSong
      \/ Starts
  <2>1. CASE storeReminder
    <3>1. nextSong' = picked /\ nextSong \in {NoSong, picked} /\ picked # activeSong
          /\ UNCHANGED activeSong
      BY <2>1 DEF storeReminder
    <3>2. picked \in Song
      BY <1>0, <2>1 DEF storeReminder, IInv, ReminderHolds, TypeOK
    <3> QED BY <3>1, <3>2
  <2>2. CASE tellReminder
    BY <2>2 DEF tellReminder
  <2> QED BY <1>0, <2>1, <2>2, NextSongSteps DEF TornIsNext, Starts
<1>3. ASSUME activeSong # NoSong, UNCHANGED activeSong, status'[activeSong] = "Playing"
      PROVE  status[activeSong] = "Playing"
  <2>1. CASE nextSong # NoSong /\ songDoesNotBegin
    <3>1. activeSong # nextSong
      BY <1>0, <1>3, <2>1 DEF NextSongIsAnother
    <3>2. ASSUME NEW n \in 1..4, updateNextSong(n)
          PROVE  status'[activeSong] \in {"Inactive", status[activeSong]}
      BY <1>0, <1>3, <3>1, <3>2 DEF updateNextSong, TypeOK
    <3>3. CASE UNCHANGED db
      BY <1>3, <3>3 DEF db
    <3> QED BY <1>3, <2>1, <3>2, <3>3 DEF songDoesNotBegin, db
  <2>2. CASE nextSong # NoSong /\ songBegins
    BY <1>0, <1>3, <2>2 DEF songBegins, NextSongIsAnother
  <2>3. status[activeSong] = "Playing"
    BY <1>0, <1>3, <2>1, <2>2, StatusSteps DEF TypeOK
  <2> QED BY <2>3
<1>4. Keeps \/ Starts
  BY <1>2, <1>3 DEF Keeps
<1>5. NextSongIsAnother'
  BY <1>0, <1>4, NoSongAssumption DEF NextSongIsAnother, Keeps, Starts
<1> QED BY <1>1, <1>4, <1>5

\* A step that leaves activeSong alone starts no song.
LEMMA KeepsActive ==
    ASSUME ServerInv, Keeps \/ Starts, activeSong' = activeSong
    PROVE  Keeps
BY DEF ServerInv, NextSongIsAnother, Starts

\* The updates us for a session can be told by a step: they are about the next
\* song, and who is told to play it is welcome.
Tells(us, p) ==
    /\ us \in Seq(Pi!Update) /\ Len(us) <= 2
    /\ \A i \in DOMAIN us : Fresh(us[i], nextSong') /\ (Commands(us[i]) => p \notin welcoming)

\* A handler that sends nothing.
LEMMA TellsNothing == ASSUME NEW p PROVE Tells(<< >>, p)
BY DEF Tells

\* Nobody's queue is touched then.
LEMMA OutNothing == ASSUME NEW p \in Speaker, out' = Nothing PROVE out'[p] = << >>
BY DEF Nothing

\* sendUpdates gives one session something.
LEMMA OutSent ==
    ASSUME NEW p \in Speaker, NEW r \in Speaker, NEW us, sendUpdates(us, r), Tells(us, r)
    PROVE  Tells(out'[p], p)
<1>1. out'[p] = IF p = r THEN us ELSE << >>
  BY DEF sendUpdates, Nothing
<1> QED BY <1>1, TellsNothing

\* broadcastUpdates gives it to all of them.
LEMMA OutBroadcast ==
    ASSUME NEW p \in Speaker, NEW us, broadcastUpdates(us), Tells(us, p)
    PROVE  Tells(out'[p], p)
<1>1. out'[p] = IF p \in speakers THEN us ELSE << >>
  BY DEF broadcastUpdates
<1> QED BY <1>1, TellsNothing

\* Announcing the next song once or, as skipToNext does, twice.
LEMMA TellsUpcoming ==
    ASSUME NEW p, NEW s \in Song, s = nextSong'
    PROVE  Tells(<<Upcoming(s)>>, p) /\ Tells(<<Upcoming(s), Upcoming(s)>>, p)
<1> DEFINE u == Upcoming(s)
<1>1. u \in Pi!Update /\ Fresh(u, nextSong') /\ ~Commands(u)
  BY DEF Pi!Update, Pi!Upcoming, Upcoming, Fresh, Commands
<1> HIDE DEF u, Pi!Update
<1>2. Tells(<<u>>, p) /\ Tells(<<u, u>>, p)
  BY <1>1 DEF Tells
<1> QED BY <1>2 DEF u

\* scheduleNextSong announces what it chooses.
LEMMA ScheduleTells ==
    ASSUME NEW p \in Speaker, scheduleNextSong
    PROVE  Tells(out'[p], p)
<1>1. CASE out' = Nothing
  BY <1>1, OutNothing, TellsNothing
<1>2. ASSUME NEW s \in getNextSongFromDB(status), nextSong' = s, broadcastUpdates(<<Upcoming(s)>>)
      PROVE  Tells(out'[p], p)
  <2>1. s \in Song
    BY NextSongType
  <2> QED BY <1>2, <2>1, TellsUpcoming, OutBroadcast
<1> QED BY <1>1, <1>2 DEF scheduleNextSong

\* What the handlers of speakers tell, apart from the welcome and the
\* correction of a speaker that plays something else.
LEMMA SpeakerRequestTells ==
    ASSUME ServerInv, NEW p \in Speaker, NEW r \in Speaker,
           \/ statusStopped(r) \/ answerReady(r)
           \/ \E s \in Song : statusReady(r, s)
           \/ authenticate(r) /\ activeSong = NoSong
           \/ nextSong # NoSong /\ statusPlaying(r, nextSong)
    PROVE  Tells(out'[p], p)
<1>0. TypeOK /\ HandlersInv
  BY DEF ServerInv, IInv
<1>1. CASE out' = Nothing
  BY <1>1, OutNothing, TellsNothing
<1>2. CASE statusStopped(r)
  <2>1. ASSUME NEW s \in getNextSongFromDB(status'), nextSong' = s, sendUpdates(<<Upcoming(s)>>, r)
        PROVE  Tells(out'[p], p)
    <3>1. s \in Song
      BY NextSongType
    <3> QED BY <2>1, <3>1, TellsUpcoming, OutSent
  <2> QED BY <1>1, <1>2, <2>1 DEF statusStopped
<1>3. CASE answerReady(r)
  <2>1. r \notin welcoming
    BY <1>0, <1>3 DEF answerReady, HandlersInv
  <2>2. CASE nextSong # NoSong
    <3>1. nextSong \in Song /\ nextSong' = nextSong
      BY <1>0, <1>3, <2>2 DEF answerReady, TypeOK
    <3>2. Tells(<<Upcoming(nextSong)>>, r)
      BY <3>1, TellsUpcoming
    <3>3. Tells(<<Play(nextSong)>>, r)
      <4> DEFINE u == Play(nextSong)
      <4>1. u \in Pi!Update /\ Fresh(u, nextSong')
        BY <3>1 DEF Pi!Update, Pi!Play, Play, Fresh
      <4> HIDE DEF u, Pi!Update
      <4>2. Tells(<<u>>, r)
        BY <2>1, <4>1 DEF Tells
      <4> QED BY <4>2 DEF u
    <3>4. CASE readying[r] = "play"
      <4>1. sendUpdates(<<Play(nextSong)>>, r)
        BY <1>3, <2>2, <3>4 DEF answerReady
      <4> QED BY <3>3, <4>1, OutSent
    <3>5. CASE readying[r] # "play"
      <4>1. sendUpdates(<<Upcoming(nextSong)>>, r)
        BY <1>3, <2>2, <3>5 DEF answerReady
      <4> QED BY <3>2, <4>1, OutSent
    <3> QED BY <3>4, <3>5
  <2>3. CASE nextSong = NoSong
    BY <1>1, <1>3, <2>3 DEF answerReady
  <2> QED BY <2>2, <2>3
<1>4. CASE \E s \in Song : statusReady(r, s)
  BY <1>1, <1>4 DEF statusReady
<1>5. CASE authenticate(r) /\ activeSong = NoSong
  BY <1>1, <1>5, ScheduleTells DEF authenticate
<1>6. CASE nextSong # NoSong /\ statusPlaying(r, nextSong)
  BY <1>1, <1>6 DEF statusPlaying
<1> QED BY <1>2, <1>3, <1>4, <1>5, <1>6

\* What the other steps of the server tell.
LEMMA UserRequestTells ==
    ASSUME ServerInv, NEW p \in Speaker, NEW u \in User, UserRequest(u)
    PROVE  Tells(out'[p], p)
<1>1. CASE out' = Nothing
  BY <1>1, OutNothing, TellsNothing
<1>2. ASSUME skipToNext PROVE Tells(out'[p], p)
  <2>1. ASSUME NEW s \in getNextSongFromDB(status), nextSong' = s,
               broadcastUpdates(<<Upcoming(s), Upcoming(s)>>)
        PROVE  Tells(out'[p], p)
    <3>1. s \in Song
      BY NextSongType
    <3> QED BY <2>1, <3>1, TellsUpcoming, OutBroadcast
  <2> QED BY <1>1, <1>2, <2>1 DEF skipToNext
<1>3. CASE decideSkip(u)
  BY <1>1, <1>2, <1>3 DEF decideSkip
<1>4. CASE ~decideSkip(u)
  BY <1>1, <1>4 DEF UserRequest, createUserSession, destroyUserSession, countDislikes, vote, like, dislike
<1> QED BY <1>3, <1>4

\* What the tasks of the timer tell.
LEMMA TimerTells ==
    ASSUME ServerInv, ~overtaken', NEW p \in Speaker, TimerStep
    PROVE  Tells(out'[p], p)
<1>0. TypeOK /\ NoSkipBeforeFirstSong /\ ReminderHolds
  BY DEF ServerInv, IInv
<1>1. CASE out' = Nothing
  BY <1>1, OutNothing, TellsNothing
<1>2. CASE runEndOfSong
  BY <1>1, <1>2, ScheduleTells DEF runEndOfSong
<1>3. CASE tellReminder
  <2>1. picked \in Song /\ nextSong' = picked /\ broadcastUpdates(<<Upcoming(picked)>>)
    BY <1>0, <1>3 DEF tellReminder, TypeOK, ReminderHolds
  <2> QED BY <2>1, TellsUpcoming, OutBroadcast
<1>4. CASE runStop
  <2>1. activeSong \in Song
    BY <1>0, <1>4 DEF runStop, NoSkipBeforeFirstSong, TypeOK
  <2>2. Tells(<<Stop(activeSong)>>, p)
    <3> DEFINE u == Stop(activeSong)
    <3>1. u \in Pi!Update /\ Fresh(u, nextSong') /\ ~Commands(u)
      BY <2>1 DEF Pi!Update, Pi!Stop, Stop, Fresh, Announces, Commands
    <3> HIDE DEF u, Pi!Update
    <3>2. Tells(<<u>>, p)
      BY <3>1 DEF Tells
    <3> QED BY <3>2 DEF u
  <2> QED BY <1>4, <2>2, OutBroadcast DEF runStop
<1>5. CASE \E k \in TaskKind : startTask(k)
  BY <1>1, <1>5 DEF startTask
<1>6. CASE runReminder \/ queryReminder \/ storeReminder
  BY <1>1, <1>6 DEF runReminder, queryReminder, storeReminder
<1> QED BY <1>2, <1>3, <1>4, <1>5, <1>6 DEF TimerStep

\* A step that is none of the server.
LEMMA ServerIdleStep ==
    ASSUME ServerInv, ServerIdle
    PROVE  ServerInv' /\ Keeps
<1> USE DEF vars, db, timer, reminder, faults, sessions, handlers
<1>1. TypeOK'
  BY DEF ServerInv, IInv, ServerIdle, TypeOK
<1>2. /\ ~overtaken' /\ OneActiveSong' /\ NoSkipBeforeFirstSong' /\ ReminderHolds' /\ TornByFailure'
      /\ TornIsNext' /\ NextSongIsAnother' /\ HandlersInv'
  BY DEF ServerInv, IInv, ServerIdle, OneActiveSong, Marked, NoSkipBeforeFirstSong, ReminderHolds,
         TornByFailure, TornIsNext, NextSongIsAnother, HandlersInv
<1> QED BY <1>1, <1>2 DEF ServerInv, IInv, ServerIdle, Keeps

\* Steps of the server that Party takes.
LEMMA ServerStep ==
    ASSUME ServerInv, ~overtaken',
           \/ \E p \in Speaker : \/ createSession(p) \/ authenticate(p)
                                 \/ statusStopped(p) \/ answerReady(p)
                                 \/ \E s \in Song : statusPlaying(p, s) \/ statusReady(p, s)
           \/ TimerStep
           \/ \E u \in User : UserRequest(u)
    PROVE  ServerInv' /\ (Keeps \/ Starts)
<1>1. [Next]_vars
  BY DEF Next, SpeakerRequest
<1>2. IInv' /\ TornIsNext' /\ NextSongIsAnother' /\ (Keeps \/ Starts)
  BY <1>1, ServerSteps
<1>3. HandlersInv'
  <2> USE DEF ServerInv, HandlersInv, sessions, handlers, Connected, IInv, TypeOK
  <2>1. ASSUME NEW p \in Speaker,
               createSession(p) \/ authenticate(p) \/ statusStopped(p) \/ answerReady(p)
        PROVE  HandlersInv'
    BY <2>1 DEF createSession, authenticate, statusStopped, answerReady
  <2>2. ASSUME NEW p \in Speaker, NEW s \in Song, statusPlaying(p, s) \/ statusReady(p, s)
        PROVE  HandlersInv'
    BY <2>2 DEF statusPlaying, statusReady
  <2>3. CASE TimerStep
    BY <2>3 DEF TimerStep, startTask, runEndOfSong, runReminder, queryReminder, storeReminder,
              tellReminder, runStop
  <2>4. ASSUME NEW u \in User, UserRequest(u) PROVE HandlersInv'
    BY <2>4 DEF UserRequest, createUserSession, destroyUserSession, countDislikes, decideSkip, vote, like, dislike
  <2> QED BY <2>1, <2>2, <2>3, <2>4
<1> QED BY <1>2, <1>3 DEF ServerInv

-----------------------------------------------------------------------------
(***************************************************************************)
(* The connection.                                                         *)
(***************************************************************************)
\* What Deliver does to the updates on their way.
LEMMA Delivered ==
    ASSUME ThreadInv, client_id \in Speaker => Tells(out'[client_id], client_id),
           Deliver(client_id), UNCHANGED server_playback_queue
    PROVE  /\ BoxInv(mailbox')
           /\ ~mailbox.waiting => ~mailbox'.waiting /\ mailbox'.wire = mailbox.wire
           /\ client_id = NoSession => mailbox' = mailbox
           /\ \E us : /\ Follows(Updates', Updates, us)
                      /\ \A u \in us : /\ Fresh(u, nextSong')
                                       /\ Commands(u) => client_id \notin welcoming
<1> DEFINE q == server_playback_queue
<1>1. q \in Seq(Pi!Update) /\ BoxInv(mailbox) /\ client_id \in Speaker \cup {NoSession}
  BY DEF ThreadInv
<1>2. Updates \in Seq(Pi!Update)
  BY <1>1, ToComeType DEF Updates, BoxInv
<1>3. Updates' = ToCome(q, mailbox')
  BY DEF Updates
<1>4. CASE client_id = NoSession
  <2>1. mailbox' = mailbox
    BY <1>4 DEF Deliver
  <2>2. Updates' = Updates
    BY <1>3, <2>1 DEF Updates
  <2>3. Follows(Updates', Updates, {})
    BY <1>2, <2>2, FollowsItself
  <2> QED BY <1>1, <2>1, <2>3
<1>5. CASE client_id # NoSession
  <2> DEFINE us  == out'[client_id]
             set == {us[i] : i \in DOMAIN us}
  <2>1. /\ us \in Seq(Pi!Update) /\ Len(us) <= 2
        /\ \A u \in set : Fresh(u, nextSong') /\ (Commands(u) => client_id \notin welcoming)
    BY <1>1, <1>5 DEF Tells
  <2>2. mailbox' = queueUpdates(mailbox, us)
    BY <1>5 DEF Deliver
  <2> HIDE DEF us, q
  <2>3. /\ BoxInv(mailbox')
        /\ ~mailbox.waiting => ~mailbox'.waiting /\ mailbox'.wire = mailbox.wire
        /\ Follows(ToCome(q, mailbox'), ToCome(q, mailbox), set)
    BY <1>1, <2>1, <2>2, QueueUpdatesStep
  <2>4. Follows(Updates', Updates, set)
    BY <1>3, <2>3 DEF Updates, q
  <2> QED BY <1>5, <2>1, <2>3, <2>4
<1> QED BY <1>4, <1>5

\* Songs and updates fit as long as the server starts no song and the speaker
\* changes none of its two.
LEMMA FitStep ==
    ASSUME ServerInv, LinkInv, Keeps, UNCHANGED <<current_song, next_song>>,
           Updates' \in Seq(Pi!Update),
           NEW us, Follows(Updates', Updates, us), \A u \in us : Fresh(u, nextSong')
    PROVE  SongsFit' /\ UpdatesFit'
<1>1. Updates \in Seq(Pi!Update)
  BY ToComeType DEF LinkInv, ThreadInv, Updates, BoxInv
<1>2. /\ next_song \in {NoSong, nextSong} /\ current_song \in {NoSong, activeSong, nextSong}
      /\ current_song = nextSong => next_song = NoSong
      /\ Fit(Updates, activeSong, nextSong, current_song, next_song)
  BY DEF LinkInv, SongsFit, UpdatesFit
<1>3. SongsFit'
  BY <1>2, NoSongAssumption DEF SongsFit, Keeps
<1>4. nextSong' = nextSong \/ (nextSong = NoSong /\ nextSong' \in Song /\ nextSong' # activeSong)
  BY DEF Keeps
<1> DEFINE new == Updates'
           n   == nextSong'
<1> HIDE DEF new, n
<1>5. Fit(new, activeSong, n, current_song, next_song)
  BY <1>1, <1>2, <1>4, FitKept DEF new, n
<1>6. UpdatesFit'
  BY <1>5 DEF UpdatesFit, Keeps, new, n
<1> QED BY <1>3, <1>6

\* A step of the server that starts no song.
LEMMA ServerLink ==
    ASSUME ServerInv, LinkInv, Keeps,
           client_id \in Speaker => Tells(out'[client_id], client_id), Deliver(client_id),
           UNCHANGED <<server_playback_queue, current_song, next_song,
                       update_thread, client_id, welcoming>>
    PROVE  LinkInv'
<1>1. ThreadInv
  BY DEF LinkInv
<1>2. PICK us : /\ Follows(Updates', Updates, us)
                /\ \A u \in us : Fresh(u, nextSong') /\ (Commands(u) => client_id \notin welcoming)
  BY <1>1, Delivered
<1>3. /\ BoxInv(mailbox')
      /\ ~mailbox.waiting => ~mailbox'.waiting /\ mailbox'.wire = mailbox.wire
      /\ client_id = NoSession => mailbox' = mailbox
  BY <1>1, Delivered
<1>4. Updates' \in Seq(Pi!Update)
  BY <1>1, <1>3, ToComeType DEF ThreadInv, Updates, BoxInv
<1>5. SongsFit' /\ UpdatesFit'
  BY <1>2, <1>4, FitStep
<1>6. ASSUME update_thread = "authenticating", NEW i \in DOMAIN Updates'
      PROVE  ~Commands(Updates'[i])
  BY <1>1, <1>2, <1>6 DEF ThreadInv, Follows
<1>7. ThreadInv'
  BY <1>1, <1>3, <1>6 DEF ThreadInv
<1> QED BY <1>5, <1>7 DEF LinkInv

\* The song the speaker plays becomes the active one.
LEMMA StartLink ==
    ASSUME ServerInv, LinkInv, Starts, current_song = nextSong,
           UNCHANGED <<server_playback_queue, current_song, next_song, link, welcoming>>
    PROVE  LinkInv'
<1>1. ThreadInv'
  BY DEF LinkInv, ThreadInv, Updates, link
<1>2. SongsFit'
  BY DEF LinkInv, SongsFit, Starts
<1>3. Updates \in Seq(Pi!Update) /\ Updates' = Updates
  BY ToComeType DEF LinkInv, ThreadInv, Updates, BoxInv, link
<1>4. Fit(Updates, activeSong, nextSong, nextSong, NoSong) /\ nextSong # NoSong /\ next_song = NoSong
  BY DEF LinkInv, SongsFit, UpdatesFit, Starts
<1>5. Fit(Updates, nextSong, NoSong, nextSong, NoSong)
  BY <1>3, <1>4, FitStarted
<1>6. UpdatesFit'
  BY <1>3, <1>4, <1>5 DEF UpdatesFit, Starts
<1> QED BY <1>1, <1>2, <1>6 DEF LinkInv

\* Nobody touches the connection or the songs.
LEMMA IdleLink ==
    ASSUME LinkInv, ServerIdle, UNCHANGED <<server_playback_queue, current_song, next_song, link>>
    PROVE  LinkInv'
BY DEF LinkInv, ThreadInv, SongsFit, UpdatesFit, Updates, ServerIdle, vars, sessions, link

-----------------------------------------------------------------------------
(***************************************************************************)
(* The steps of the update thread.                                         *)
(***************************************************************************)
\* A new session has an empty queue.
LEMMA EmptyBox == BoxInv(EmptyMailbox) /\ ToCome(<< >>, EmptyMailbox) = << >>
<1> HIDE DEF Pi!Update
<1>1. << >> \in Seq(Pi!Update) /\ Len(<< >>) = 0
  BY EmptySeq
<1>2. << >> \o << >> = << >>
  BY <1>1, ConcatEmptySeq
<1> QED BY <1>1, <1>2 DEF EmptyMailbox, BoxInv, Box, ToCome

\* Of an empty queue there is nothing to ask.
LEMMA FitEmpty == ASSUME NEW a, NEW n, NEW c, NEW x PROVE Fit(<< >>, a, n, c, x)
BY DEF Fit

\* createSpeakerSession gives the speaker a new, empty queue.
LEMMA ConnectLink ==
    ASSUME ServerInv, LinkInv, NEW p \in Speaker, connect(p)
    PROVE  LinkInv'
<1>1. /\ server_playback_queue' = << >> /\ mailbox' = EmptyMailbox
      /\ current_song' = NoSong /\ next_song' = NoSong
      /\ update_thread' = "authenticating" /\ client_id' = p /\ p \in welcoming'
  BY DEF LinkInv, ThreadInv, connect, SpeakerIdle, speaker, createSession
<1>2. Updates' = << >>
  BY <1>1, EmptyBox DEF Updates
<1>3. ThreadInv'
  BY <1>1, <1>2, EmptyBox, EmptySeq DEF ThreadInv, EmptyMailbox
<1>4. SongsFit' /\ UpdatesFit'
  BY <1>1, <1>2, FitEmpty DEF SongsFit, UpdatesFit
<1> QED BY <1>3, <1>4 DEF LinkInv

\* A restarted speaker has no session.
LEMMA RestartLink ==
    ASSUME LinkInv, restart
    PROVE  LinkInv'
<1>1. /\ server_playback_queue' = << >> /\ mailbox' = EmptyMailbox
      /\ current_song' = NoSong /\ next_song' = NoSong
      /\ update_thread' = "authenticate" /\ client_id' = NoSession
  BY DEF restart, Pi!restart
<1>2. Updates' = << >>
  BY <1>1, EmptyBox DEF Updates
<1>3. ThreadInv'
  BY <1>1, <1>2, EmptyBox, EmptySeq DEF ThreadInv, EmptyMailbox
<1>4. SongsFit' /\ UpdatesFit'
  BY <1>1, <1>2, FitEmpty DEF SongsFit, UpdatesFit
<1> QED BY <1>3, <1>4 DEF LinkInv

\* Nothing on the way has changed, wherever it is now.
LEMMA SameUpdates ==
    ASSUME LinkInv, ServerIdle, Updates' = Updates, UNCHANGED <<current_song, next_song>>
    PROVE  SongsFit' /\ UpdatesFit'
BY DEF LinkInv, SongsFit, UpdatesFit, ServerIdle, vars

\* The next request is answered at once or waits.
LEMMA RequestLink ==
    ASSUME LinkInv, requestUpdate
    PROVE  LinkInv'
<1> HIDE DEF Pi!Update
<1> DEFINE q == server_playback_queue
           p == mailbox.pending
<1>1. /\ q \in Seq(Pi!Update) /\ p \in Seq(Pi!Update)
      /\ mailbox \in Box /\ mailbox.wire = << >> /\ ~mailbox.waiting
      /\ \A i, j \in DOMAIN p : p[i].type = p[j].type => i = j
  BY DEF LinkInv, ThreadInv, BoxInv, Box, requestUpdate
<1>2. /\ q' = q /\ update_thread' = "wait"
      /\ UNCHANGED <<current_song, next_song, client_id, welcoming>>
  BY DEF requestUpdate, SpeakerIdle, speaker, ServerIdle, vars, sessions
<1>3. BoxInv(mailbox') /\ Updates' = Updates
  <2>1. CASE p = << >>
    <3>1. mailbox' = [mailbox EXCEPT !.waiting = TRUE]
      BY <2>1 DEF requestUpdate
    <3>2. /\ mailbox' \in Box /\ mailbox'.pending = p /\ mailbox'.wire = << >>
      BY <1>1, <3>1 DEF Box
    <3>3. BoxInv(mailbox')
      BY <2>1, <3>2, EmptySeq DEF BoxInv
    <3> QED BY <1>1, <1>2, <3>2, <3>3 DEF Updates, ToCome
  <2>2. CASE p # << >>
    <3>1. mailbox' = [mailbox EXCEPT !.pending = Tail(p), !.wire = <<Head(p)>>]
      BY <2>2 DEF requestUpdate
    <3>2. /\ Tail(p) \in Seq(Pi!Update) /\ Len(p) \in Nat /\ Len(p) >= 1
          /\ DOMAIN Tail(p) = 1..(Len(p) - 1)
          /\ \A i \in 1..(Len(p) - 1) : Tail(p)[i] = p[i + 1]
          /\ DOMAIN p = 1..Len(p) /\ Head(p) = p[1] /\ Head(p) \in Pi!Update
      BY <1>1, <2>2, TailEntries
    <3>3. <<Head(p)>> \in Seq(Pi!Update) /\ Len(<<Head(p)>>) = 1
      BY <3>2
    <3>4. /\ mailbox' \in Box /\ mailbox'.pending = Tail(p) /\ mailbox'.wire = <<Head(p)>>
          /\ ~mailbox'.waiting
      BY <1>1, <3>1, <3>2, <3>3 DEF Box
    <3>5. \A i, j \in DOMAIN Tail(p) : Tail(p)[i].type = Tail(p)[j].type => i = j
      <4> SUFFICES ASSUME NEW i \in 1..(Len(p) - 1), NEW j \in 1..(Len(p) - 1),
                          Tail(p)[i].type = Tail(p)[j].type
                   PROVE  i = j
        BY <3>2
      <4>1. i + 1 \in DOMAIN p /\ j + 1 \in DOMAIN p
        BY <3>2
      <4>2. p[i + 1].type = p[j + 1].type
        BY <3>2
      <4>3. i + 1 = j + 1
        BY <1>1, <4>1, <4>2
      <4> QED BY <4>3
    <3>6. BoxInv(mailbox')
      BY <3>3, <3>4, <3>5 DEF BoxInv
    <3>7. Updates' = (q \o <<Head(p)>>) \o Tail(p)
      BY <1>2, <3>4 DEF Updates, ToCome
    <3>8. Updates = q \o p
      BY <1>1, ConcatEmptySeq DEF Updates, ToCome
    <3>9. <<Head(p)>> \o Tail(p) = p
      <4> DEFINE h == <<Head(p)>>
                 t == Tail(p)
                 c == h \o t
      <4>1. h \in Seq(Pi!Update) /\ Len(h) = 1 /\ h[1] = p[1]
        BY <3>2, <3>3
      <4>2. t \in Seq(Pi!Update) /\ Len(t) = Len(p) - 1 /\ \A i \in 1..(Len(p) - 1) : t[i] = p[i + 1]
        BY <1>1, <2>2, TailEntries
      <4> HIDE DEF h, t
      <4>3. /\ c \in Seq(Pi!Update) /\ Len(c) = Len(h) + Len(t)
            /\ \A i \in 1..(Len(h) + Len(t)) : c[i] = IF i <= Len(h) THEN h[i] ELSE t[i - Len(h)]
        BY <4>1, <4>2, ConcatEntries
      <4> HIDE DEF c
      <4>4. Len(c) = Len(p)
        BY <3>2, <4>1, <4>2, <4>3
      <4>5. ASSUME NEW i \in 1..Len(c) PROVE c[i] = p[i]
        <5>1. CASE i = 1
          BY <3>2, <4>1, <4>2, <4>3, <5>1
        <5>2. CASE i # 1
          <6>1. i - 1 \in 1..(Len(p) - 1) /\ (i - 1) + 1 = i
            BY <3>2, <4>4, <5>2
          <6>2. c[i] = t[i - 1]
            BY <3>2, <4>1, <4>2, <4>3, <5>2
          <6> QED BY <4>2, <6>1, <6>2
        <5> QED BY <5>1, <5>2
      <4>6. c = p
        BY <1>1, <4>3, <4>4, <4>5, SeqEqual
      <4> QED BY <4>6 DEF c, h, t
    <3>10. (q \o <<Head(p)>>) \o Tail(p) = q \o (<<Head(p)>> \o Tail(p))
      <4>1. q \in Seq(Pi!Update) /\ <<Head(p)>> \in Seq(Pi!Update) /\ Tail(p) \in Seq(Pi!Update)
        BY <1>1, <3>2, <3>3
      <4> HIDE DEF q, p
      <4> QED BY <4>1, ConcatAssociative
    <3> QED BY <3>6, <3>7, <3>8, <3>9, <3>10
  <2> QED BY <2>1, <2>2
<1>4. SongsFit' /\ UpdatesFit'
  BY <1>2, <1>3, SameUpdates DEF requestUpdate
<1>5. ThreadInv'
  BY <1>1, <1>2, <1>3 DEF LinkInv, ThreadInv
<1> QED BY <1>4, <1>5 DEF LinkInv

\* The response goes into the speaker's own queue.
LEMMA ReceiveLink ==
    ASSUME LinkInv, updateReceived
    PROVE  LinkInv'
<1> HIDE DEF Pi!Update
<1> DEFINE q == server_playback_queue
           w == mailbox.wire
           p == mailbox.pending
<1>1. /\ q \in Seq(Pi!Update) /\ p \in Seq(Pi!Update) /\ w \in Seq(Pi!Update)
      /\ mailbox \in Box /\ w # << >> /\ ~mailbox.waiting /\ Len(w) <= 1
      /\ \A i, j \in DOMAIN p : p[i].type = p[j].type => i = j
  BY DEF LinkInv, ThreadInv, BoxInv, Box, updateReceived
<1>2. /\ server_playback_queue' = Append(q, Head(w)) /\ update_thread' = "request"
      /\ mailbox' = [mailbox EXCEPT !.wire = << >>]
      /\ UNCHANGED <<current_song, next_song, client_id, welcoming>>
  BY DEF updateReceived, Pi!receive, Pi!songs, ServerIdle, vars, sessions
<1>3. Head(w) \in Pi!Update /\ w = <<Head(w)>>
  <2>1. Head(w) \in Pi!Update /\ Len(w) = 1 /\ Head(w) = w[1]
    <3>1. w \in Seq(Pi!Update) /\ w # << >> /\ Len(w) <= 1
      BY <1>1
    <3> HIDE DEF w
    <3>2. Head(w) \in Pi!Update /\ Head(w) = w[1]
      BY <3>1, TailEntries
    <3>3. Len(w) \in Nat /\ Len(w) >= 1
      BY <3>1, TailEntries
    <3>4. Len(w) = 1
      BY <3>1, <3>3
    <3> QED BY <3>2, <3>4
  <2>2. <<Head(w)>> \in Seq(Pi!Update) /\ Len(<<Head(w)>>) = 1 /\ <<Head(w)>>[1] = Head(w)
    BY <2>1
  <2> HIDE DEF w
  <2>3. \A i \in 1..Len(w) : w[i] = <<Head(w)>>[i]
    BY <2>1, <2>2
  <2> QED BY <1>1, <2>1, <2>2, <2>3, SeqEqual
<1>4. Append(q, Head(w)) \in Seq(Pi!Update) /\ Append(q, Head(w)) = q \o w
  <2> DEFINE h == Head(w)
  <2>1. q \in Seq(Pi!Update) /\ h \in Pi!Update /\ w = <<h>>
    BY <1>1, <1>3
  <2> HIDE DEF h, q, w
  <2>2. Append(q, h) \in Seq(Pi!Update)
    BY <2>1, AppendProperties
  <2>3. Append(q, h) = q \o <<h>>
    BY <2>1, AppendIsConcat
  <2>4. Append(q, h) = q \o w
    BY <2>1, <2>3
  <2> QED BY <2>2, <2>4 DEF h
<1>5. /\ mailbox' \in Box /\ mailbox'.wire = << >> /\ mailbox'.pending = p /\ ~mailbox'.waiting
  BY <1>1, <1>2, EmptySeq DEF Box
<1>6. BoxInv(mailbox')
  BY <1>1, <1>5, EmptySeq DEF BoxInv
<1>7. Updates' = Updates
  <2>1. Append(q, Head(w)) \o << >> = q \o w
    BY <1>4, ConcatEmptySeq
  <2> QED BY <1>2, <1>5, <2>1 DEF Updates, ToCome
<1>8. SongsFit' /\ UpdatesFit'
  BY <1>2, <1>7, SameUpdates DEF updateReceived
<1>9. ThreadInv'
  BY <1>1, <1>2, <1>4, <1>5, <1>6 DEF LinkInv, ThreadInv
<1> QED BY <1>8, <1>9 DEF LinkInv

\* A response under way is lost with its poll.
LEMMA TimeoutLink ==
    ASSUME ServerInv, LinkInv, pollTimesOut
    PROVE  LinkInv'
<1> HIDE DEF Pi!Update
<1> DEFINE q == server_playback_queue
           w == mailbox.wire
           p == mailbox.pending
<1>1. /\ q \in Seq(Pi!Update) /\ p \in Seq(Pi!Update) /\ w \in Seq(Pi!Update)
      /\ mailbox \in Box
      /\ \A i, j \in DOMAIN p : p[i].type = p[j].type => i = j
  BY DEF LinkInv, ThreadInv, BoxInv, Box
<1>2. /\ server_playback_queue' = q /\ update_thread' = "request"
      /\ mailbox' = [mailbox EXCEPT !.wire = << >>, !.waiting = FALSE,
                                     !.stale = IF mailbox.waiting THEN @ + 1 ELSE @]
      /\ UNCHANGED <<current_song, next_song, client_id, welcoming>>
  BY DEF pollTimesOut, SpeakerIdle, speaker, ServerIdle, vars, sessions
<1>3. /\ mailbox' \in Box /\ mailbox'.wire = << >> /\ mailbox'.pending = p /\ ~mailbox'.waiting
  <2> DEFINE n == IF mailbox.waiting THEN mailbox.stale + 1 ELSE mailbox.stale
  <2>1. n \in Nat
    BY <1>1 DEF Box
  <2>2. mailbox' = [mailbox EXCEPT !.wire = << >>, !.waiting = FALSE, !.stale = n]
    BY <1>2
  <2> HIDE DEF n
  <2> QED BY <1>1, <2>1, <2>2, EmptySeq DEF Box
<1>4. BoxInv(mailbox')
  BY <1>1, <1>3, EmptySeq DEF BoxInv
<1>5. Follows(Updates', Updates, {})
  BY <1>1, <1>2, <1>3, LostFollows DEF Updates, ToCome
<1>6. Updates' \in Seq(Pi!Update)
  BY <1>1, <1>2, <1>3, ToComeType DEF Updates
<1>7. Keeps
  BY ServerIdleStep DEF pollTimesOut
<1>8. SongsFit' /\ UpdatesFit'
  BY <1>2, <1>5, <1>6, <1>7, FitStep
<1>9. ThreadInv'
  BY <1>1, <1>2, <1>3, <1>4 DEF LinkInv, ThreadInv
<1> QED BY <1>8, <1>9 DEF LinkInv

\* The server notices a channel that nobody reads.
LEMMA NoticeLink ==
    ASSUME LinkInv, noticeClosed
    PROVE  LinkInv'
<1> HIDE DEF Pi!Update
<1>1. /\ mailbox' = [mailbox EXCEPT !.stale = @ - 1] /\ mailbox.stale > 0
      /\ UNCHANGED <<server_playback_queue, update_thread, current_song, next_song, client_id,
                     welcoming>>
  BY DEF noticeClosed, SpeakerIdle, speaker, ServerIdle, vars, sessions
<1>2. BoxInv(mailbox)
  BY DEF LinkInv, ThreadInv
<1>3. /\ mailbox' \in Box /\ mailbox'.pending = mailbox.pending /\ mailbox'.wire = mailbox.wire
      /\ mailbox'.waiting = mailbox.waiting
  BY <1>1, <1>2 DEF BoxInv, Box
<1>4. BoxInv(mailbox')
  BY <1>2, <1>3 DEF BoxInv
<1>5. Updates' = Updates
  BY <1>1, <1>3 DEF Updates, ToCome
<1>6. SongsFit' /\ UpdatesFit'
  BY <1>1, <1>5, SameUpdates DEF noticeClosed
<1>7. update_thread # "authenticate"
  BY <1>1 DEF LinkInv, ThreadInv, EmptyMailbox
<1>8. ThreadInv'
  BY <1>1, <1>3, <1>4, <1>5, <1>7 DEF LinkInv, ThreadInv
<1> QED BY <1>6, <1>8 DEF LinkInv

\* The speaker is welcome: it is told to play the active song, or the first one
\* is chosen.
LEMMA ConnectedLink ==
    ASSUME ServerInv, ~overtaken', LinkInv, connected
    PROVE  LinkInv'
<1>1. /\ update_thread = "authenticating" /\ update_thread' \in {"request", "ended"}
      /\ authenticate(client_id) /\ Deliver(client_id)
      /\ UNCHANGED <<server_playback_queue, current_song, next_song, client_id>>
  BY DEF connected, SpeakerIdle, speaker
<1>2. TypeOK /\ ThreadInv /\ NextSongIsAnother
  BY DEF ServerInv, IInv, LinkInv
<1>3. client_id \in Speaker /\ client_id \in welcoming
  BY <1>1, <1>2 DEF ThreadInv, TypeOK
<1>4. Keeps
  <2>1. Keeps \/ Starts
    BY <1>1, <1>3, ServerStep
  <2>2. activeSong' = activeSong
    BY <1>1 DEF authenticate
  <2> QED BY <1>2, <2>1, <2>2, KeepsActive
<1>5. /\ ~mailbox.waiting /\ mailbox.wire = << >> /\ server_playback_queue = << >>
      /\ current_song = NoSong /\ next_song = NoSong
      /\ \A i \in DOMAIN Updates : ~Commands(Updates[i])
  BY <1>1, <1>2 DEF ThreadInv
<1>6. CASE activeSong = NoSong
  <2>1. Tells(out'[client_id], client_id)
    BY <1>1, <1>3, <1>6, SpeakerRequestTells
  <2>2. PICK us : /\ Follows(Updates', Updates, us)
                  /\ \A u \in us : Fresh(u, nextSong')
    BY <1>1, <1>2, <2>1, Delivered
  <2>3. BoxInv(mailbox') /\ ~mailbox'.waiting /\ mailbox'.wire = << >>
    BY <1>1, <1>2, <1>5, <2>1, Delivered
  <2>4. Updates' \in Seq(Pi!Update)
    BY <1>1, <1>2, <2>3, ToComeType DEF ThreadInv, Updates, BoxInv
  <2>5. SongsFit' /\ UpdatesFit'
    BY <1>1, <1>4, <2>2, <2>4, FitStep
  <2>6. ThreadInv'
    BY <1>1, <1>2, <2>3 DEF ThreadInv
  <2> QED BY <2>5, <2>6 DEF LinkInv
<1>7. CASE activeSong # NoSong
  <2> DEFINE u == Play(activeSong)
  <2>1. out'[client_id] = <<u>> /\ UNCHANGED <<activeSong, nextSong>>
    BY <1>1, <1>3, <1>7 DEF authenticate, sendUpdates, Nothing
  <2>2. u \in Pi!Update /\ Commands(u) /\ ~Announces(u) /\ u.song = activeSong
    BY <1>2, <1>7 DEF TypeOK, Pi!Update, Pi!Play, Play, Commands, Announces
  <2> HIDE DEF u, Pi!Update
  <2>3. server_playback_queue \in Seq(Pi!Update) /\ BoxInv(mailbox)
    BY <1>2 DEF ThreadInv
  <2>4. mailbox' = mailbox \/ mailbox' = queueUpdate(mailbox, u)
    <3> DEFINE us == <<u>>
    <3>1. us # << >> /\ Len(us) = 1 /\ us[1] = u
      OBVIOUS
    <3>2. mailbox' = mailbox \/ mailbox' = queueUpdates(mailbox, us)
      BY <1>1, <2>1 DEF Deliver
    <3> HIDE DEF us
    <3> QED BY <3>1, <3>2 DEF queueUpdates
  <2>5. /\ BoxInv(mailbox')
        /\ ~mailbox.waiting => ~mailbox'.waiting /\ mailbox'.wire = mailbox.wire
        /\ Follows(ToCome(server_playback_queue, mailbox'), ToCome(server_playback_queue, mailbox), {u})
    <3>1. Follows(ToCome(server_playback_queue, mailbox), ToCome(server_playback_queue, mailbox), {u})
      BY <2>3, ToComeType, FollowsItself DEF BoxInv
    <3> QED BY <2>2, <2>3, <2>4, <3>1, QueueUpdateStep
  <2>6. Follows(Updates', Updates, {u})
    BY <1>1, <2>5 DEF Updates
  <2>7. Updates \in Seq(Pi!Update) /\ Updates' \in Seq(Pi!Update)
    BY <1>1, <2>3, <2>5, ToComeType DEF Updates, BoxInv
  <2>8. Fit(Updates, activeSong, nextSong, NoSong, NoSong) /\ activeSong # nextSong
    BY <1>2, <1>5, <1>7 DEF LinkInv, UpdatesFit, NextSongIsAnother, ServerInv
  <2> DEFINE new == Updates'
  <2>9. Fit(new, activeSong, nextSong, NoSong, NoSong)
    <3> HIDE DEF new
    <3> QED BY <1>5, <2>2, <2>6, <2>7, <2>8, FitWelcomed DEF new
  <2>10. SongsFit' /\ UpdatesFit'
    BY <1>1, <1>5, <2>1, <2>9 DEF SongsFit, UpdatesFit
  <2>11. ThreadInv'
    BY <1>1, <1>2, <1>5, <2>5 DEF ThreadInv
  <2> QED BY <2>10, <2>11 DEF LinkInv
<1> QED BY <1>6, <1>7

-----------------------------------------------------------------------------
(***************************************************************************)
(* The playback thread takes an update.                                    *)
(***************************************************************************)
\* The update the playback thread takes is the first of all that are on their
\* way, and the others keep their order.
LEMMA HeadOfQueue ==
    ASSUME ThreadInv, server_playback_queue # << >>
    PROVE  /\ Tail(server_playback_queue) \in Seq(Pi!Update)
           /\ Head(server_playback_queue) \in Pi!Update
           /\ Updates \in Seq(Pi!Update) /\ Updates # << >>
           /\ Updates[1] = Head(server_playback_queue)
           /\ ToCome(Tail(server_playback_queue), mailbox) \in Seq(Pi!Update)
           /\ Follows(ToCome(Tail(server_playback_queue), mailbox), Updates, {})
<1> HIDE DEF Pi!Update
<1> DEFINE q == server_playback_queue
           w == mailbox.wire
           p == mailbox.pending
           r == w \o p
<1>1. /\ q \in Seq(Pi!Update) /\ w \in Seq(Pi!Update) /\ p \in Seq(Pi!Update) /\ mailbox \in Box
  BY DEF ThreadInv, BoxInv, Box
<1>2. r \in Seq(Pi!Update)
  BY <1>1, ConcatProperties
<1>3. /\ Tail(q) \in Seq(Pi!Update) /\ Len(q) \in Nat /\ Len(q) >= 1
      /\ Head(q) = q[1] /\ Head(q) \in Pi!Update
  BY <1>1, TailEntries
<1>4. Updates = q \o r /\ ToCome(Tail(q), mailbox) = Tail(q) \o r
  <2>1. (q \o w) \o p = q \o r
    <3> HIDE DEF q, w, p
    <3> QED BY <1>1, ConcatAssociative
  <2>2. (Tail(q) \o w) \o p = Tail(q) \o r
    <3> DEFINE t == Tail(q)
    <3>1. t \in Seq(Pi!Update)
      BY <1>3
    <3> HIDE DEF q, w, p, t
    <3>2. (t \o w) \o p = t \o r
      BY <1>1, <3>1, ConcatAssociative
    <3> QED BY <3>2 DEF t
  <2> QED BY <2>1, <2>2 DEF Updates, ToCome
<1>5. Follows(Tail(q) \o r, q \o r, {})
  <2>1. q \in Seq(Pi!Update) /\ r \in Seq(Pi!Update) /\ q # << >>
    BY <1>1, <1>2
  <2> HIDE DEF q, r
  <2> QED BY <2>1, TailFollows
<1>6. Updates \in Seq(Pi!Update) /\ ToCome(Tail(q), mailbox) \in Seq(Pi!Update)
  BY <1>1, <1>3, ToComeType DEF Updates
<1>7. q \o r # << >> /\ (q \o r)[1] = q[1]
  <2> DEFINE c == q \o r
  <2>1. /\ Len(r) \in Nat /\ Len(c) = Len(q) + Len(r)
        /\ \A i \in 1..(Len(q) + Len(r)) : c[i] = IF i <= Len(q) THEN q[i] ELSE r[i - Len(q)]
    <3> HIDE DEF q, r
    <3> QED BY <1>1, <1>2, ConcatEntries
  <2> HIDE DEF c, q, r
  <2>2. 1 \in 1..(Len(q) + Len(r)) /\ 1 <= Len(q)
    BY <1>3, <2>1
  <2>3. c[1] = q[1]
    BY <2>1, <2>2
  <2>4. Len(c) # 0
    BY <1>3, <2>1
  <2>5. c # << >>
    BY <2>4, EmptySeq
  <2> QED BY <2>3, <2>5 DEF c
<1> QED BY <1>3, <1>4, <1>5, <1>6, <1>7

\* Whatever playback_func does with it: it begins the next song only, and takes
\* only the next song for upcoming.
LEMMA PlaybackLink ==
    ASSUME ServerInv, LinkInv, Pi!playback, ServerIdle, UNCHANGED link
    PROVE  LinkInv'
<1> DEFINE q   == server_playback_queue
           u   == Head(q)
           s   == u.song
           new == ToCome(Tail(q), mailbox)
<1>1. /\ ThreadInv /\ SongsFit /\ Fit(Updates, activeSong, nextSong, current_song, next_song)
  BY DEF LinkInv, UpdatesFit
<1>2. q # << >> /\ server_playback_queue' = Tail(q)
  BY DEF Pi!playback
<1>3. /\ Tail(q) \in Seq(Pi!Update) /\ u \in Pi!Update
      /\ Updates \in Seq(Pi!Update) /\ Updates # << >> /\ Updates[1] = u
      /\ new \in Seq(Pi!Update) /\ Follows(new, Updates, {})
  BY <1>1, <1>2, HeadOfQueue
<1>4. Updates' = new
  BY <1>2 DEF Updates, link
<1>5. /\ UNCHANGED <<activeSong, nextSong, welcoming, mailbox, client_id, update_thread>>
  BY DEF ServerIdle, vars, sessions, link
<1>6. u.song \in Song
  BY <1>3 DEF Pi!Update, Pi!Upcoming, Pi!Play, Pi!Stop
<1>7. ThreadInv'
  BY <1>1, <1>2, <1>3, <1>5 DEF ThreadInv
<1> HIDE DEF Pi!Update, new
<1>8. ASSUME NEW c, NEW x, Fit(Updates, activeSong, nextSong, c, x),
             x \in {NoSong, nextSong}, c \in {NoSong, activeSong, nextSong}
      PROVE  Fit(new, activeSong, nextSong, c, x)
  BY <1>3, <1>8, FitKept
<1>9. CASE UNCHANGED <<current_song, next_song>>
  BY <1>1, <1>4, <1>5, <1>7, <1>8, <1>9 DEF LinkInv, SongsFit, UpdatesFit
<1>10. CASE /\ u.command = "Play" /\ s # current_song /\ s = next_song
            /\ current_song' = s /\ next_song' = NoSong
  <2>1. s = nextSong /\ next_song = nextSong /\ nextSong # NoSong
    BY <1>1, <1>6, <1>10, NoSongAssumption DEF SongsFit
  <2>2. Fit(Updates, activeSong, nextSong, nextSong, NoSong)
    BY <1>1, <1>3, <1>10, <2>1, FitPlayed DEF Commands
  <2>3. Fit(new, activeSong, nextSong, nextSong, NoSong)
    BY <1>8, <2>2
  <2> QED BY <1>4, <1>5, <1>7, <1>10, <2>1, <2>3 DEF LinkInv, SongsFit, UpdatesFit
<1>11. CASE /\ u.type = "upcoming_song" /\ s # current_song
            /\ next_song' = s /\ UNCHANGED current_song
  <2>1. s \in {current_song, nextSong}
    BY <1>1, <1>3, <1>11, EmptySeq, LenProperties DEF Fit, Announces
  <2>2. s = nextSong
    BY <1>11, <2>1
  <2>3. Fit(Updates, activeSong, nextSong, current_song, nextSong)
    BY <1>1, <1>3, <1>11, <2>2, FitAnnounced DEF Announces
  <2>4. Fit(new, activeSong, nextSong, current_song, nextSong)
    BY <1>1, <1>8, <2>3 DEF SongsFit
  <2> QED BY <1>1, <1>4, <1>5, <1>7, <1>11, <2>2, <2>4 DEF LinkInv, SongsFit, UpdatesFit
<1> QED BY <1>9, <1>10, <1>11
        DEF Pi!playback, Pi!handle_play_command, Pi!handle_stop_command,
            Pi!handle_upcoming_song_update, Pi!songs

-----------------------------------------------------------------------------
(***************************************************************************)
(* The speaker's own queue.                                                *)
(***************************************************************************)
\* What an entry of the queue is and says.
LEMMA EntryFacts ==
    ASSUME MessageTypes, NEW i \in Queued
    PROVE  /\ i \in Nat
           /\ Entry(i) \in Pi!Message \/ Entry(i) = Pi!Shared
           /\ Says(Entry(i)) \in Pi!Message /\ Says(Entry(i)).id \in Song
           /\ Entry(i) # Pi!Shared => Says(Entry(i)) = Entry(i)
           /\ Entry(i) = Pi!Shared => Entry(i).status = "shared"
           /\ Entry(i).status = "Playing" => Entry(i) # Pi!Shared /\ Entry(i).id \in Song
<1>1. i \in Nat /\ Entry(i) \in Pi!Entry
  <2> HIDE DEF Pi!Entry
  <2>1. playback_connection_queue \in Seq(Pi!Entry)
    BY DEF MessageTypes
  <2>2. i \in 1..Len(playback_connection_queue)
    BY <2>1, LenProperties DEF Queued
  <2> QED BY <2>1, <2>2, ElementOfSeq, LenProperties DEF Entry
<1>2. Entry(i) \in Pi!Message \/ Entry(i) = Pi!Shared
  BY <1>1 DEF Pi!Entry
<1>3. Says(Entry(i)) \in Pi!Message
  BY <1>2 DEF Says, MessageTypes
<1>4. Pi!Shared.status = "shared"
  BY DEF Pi!Shared, Pi!Msg
<1> QED BY <1>1, <1>2, <1>3, <1>4 DEF Says, Pi!Message

\* A message is put at the end of the queue.
LEMMA PutEntry ==
    ASSUME playback_connection_queue \in Seq(Pi!Entry), NEW e \in Pi!Entry, Pi!put(e)
    PROVE  \E n \in Nat :
              /\ n \notin Queued /\ Queued' = Queued \cup {n}
              /\ \A i \in Queued : i \in Nat /\ i < n /\ Entry(i)' = Entry(i)
              /\ Entry(n)' = e
              /\ playback_connection_queue' \in Seq(Pi!Entry)
<1> HIDE DEF Pi!Entry
<1> DEFINE q == playback_connection_queue
<1>1. q' = Append(q, e)
  BY DEF Pi!put
<1>2. /\ Append(q, e) \in Seq(Pi!Entry) /\ Len(Append(q, e)) = Len(q) + 1
      /\ \A i \in 1..Len(q) : Append(q, e)[i] = q[i]
      /\ Append(q, e)[Len(q) + 1] = e
  BY AppendProperties
<1>3. /\ Len(q) \in Nat /\ Queued = 1..Len(q)
      /\ DOMAIN Append(q, e) = 1..(Len(q) + 1)
  BY <1>2, LenProperties DEF Queued
<1>4. Queued' = 1..(Len(q) + 1)
  BY <1>1, <1>3 DEF Queued
<1>5. /\ \A i \in Queued : q'[i] = q[i]
      /\ q'[Len(q) + 1] = e
  BY <1>1, <1>2, <1>3
<1>6. PICK n \in Nat : n = Len(q) + 1
  BY <1>3
<1>7. n \in Nat /\ n \notin Queued /\ Queued' = Queued \cup {n} /\ \A i \in Queued : i \in Nat /\ i < n
  BY <1>3, <1>4, <1>6
<1>8. (\A i \in Queued : Entry(i)' = Entry(i)) /\ Entry(n)' = e /\ q' \in Seq(Pi!Entry)
  BY <1>1, <1>2, <1>5, <1>6 DEF Entry
<1> QED BY <1>7, <1>8

\* The communication thread takes the first one.
LEMMA TakeEntry ==
    ASSUME playback_connection_queue \in Seq(Pi!Entry), playback_connection_queue # << >>,
           playback_connection_queue' = Tail(playback_connection_queue)
    PROVE  /\ 1 \in Queued /\ Head(playback_connection_queue) = Entry(1)
           /\ \A i \in Queued' : i \in Nat /\ i >= 1 /\ i + 1 \in Queued /\ Entry(i)' = Entry(i + 1)
           /\ \A i \in Queued : /\ i \in Nat /\ i >= 1
                                /\ i # 1 => i - 1 \in Queued' /\ Entry(i - 1)' = Entry(i)
           /\ playback_connection_queue' \in Seq(Pi!Entry)
<1> HIDE DEF Pi!Entry
<1> DEFINE q == playback_connection_queue
<1>1. /\ Tail(q) \in Seq(Pi!Entry) /\ Len(q) \in Nat /\ Len(q) >= 1
      /\ DOMAIN Tail(q) = 1..(Len(q) - 1)
      /\ \A i \in 1..(Len(q) - 1) : Tail(q)[i] = q[i + 1]
      /\ DOMAIN q = 1..Len(q) /\ Head(q) = q[1]
  BY TailEntries
<1>2. /\ Queued = 1..Len(q) /\ Queued' = 1..(Len(q) - 1)
      /\ \A i \in 1..(Len(q) - 1) : Entry(i)' = Entry(i + 1)
  BY <1>1 DEF Queued, Entry
<1>3. \A i \in Queued' : i \in Nat /\ i >= 1 /\ i + 1 \in Queued /\ Entry(i)' = Entry(i + 1)
  BY <1>1, <1>2
<1>4. ASSUME NEW i \in Queued
      PROVE  /\ i \in Nat /\ i >= 1
             /\ i # 1 => i - 1 \in Queued' /\ Entry(i - 1)' = Entry(i)
  <2>1. i \in Nat /\ i >= 1
    BY <1>1, <1>2
  <2>2. ASSUME i # 1 PROVE i - 1 \in Queued' /\ Entry(i - 1)' = Entry(i)
    <3>1. PICK k \in Nat : i = k + 1
      BY <2>1, <2>2
    <3>2. k \in 1..(Len(q) - 1) /\ i - 1 = k
      BY <1>1, <1>2, <2>2, <3>1
    <3> QED BY <1>2, <3>1, <3>2
  <2> QED BY <2>1, <2>2
<1>5. 1 \in Queued /\ Head(q) = Entry(1) /\ q' \in Seq(Pi!Entry)
  BY <1>1, <1>2 DEF Entry
<1> QED BY <1>3, <1>4, <1>5

-----------------------------------------------------------------------------
(***************************************************************************)
(* The steps of the speaker.                                               *)
(***************************************************************************)
\* The server goes on and starts no song, and the speaker does nothing.
LEMMA KeepsSpeaker ==
    ASSUME ServerInv, SpeakerInv, Keeps, UNCHANGED speaker
    PROVE  SpeakerInv'
<1> USE DEF speaker, Queued, Entry, Says, Posts
<1>1. MessageTypes' /\ ReadyInv' /\ SharedInv' /\ StoppedFollows'
  BY DEF SpeakerInv, MessageTypes, ReadyInv, SharedInv, StoppedFollows
<1>2. PlayingOnce'
  <2>1. ASSUME NEW i \in Queued, Entry(i).status = "Playing" PROVE nextSong' = nextSong
    BY <2>1, EntryFacts, NoSongAssumption DEF SpeakerInv, PlayingOnce, Keeps
  <2>2. ASSUME Posts("Playing") PROVE nextSong' = nextSong
    BY <2>2, NoSongAssumption DEF SpeakerInv, MessageTypes, PlayingOnce, Keeps, Pi!Message
  <2> QED BY <2>1, <2>2 DEF SpeakerInv, PlayingOnce
<1>3. FetchInv'
  <2>1. ASSUME NEW i \in Queued, Says(Entry(i)).status = "need_song" PROVE nextSong' = nextSong
    BY <2>1, EntryFacts, NoSongAssumption DEF SpeakerInv, FetchInv, Keeps
  <2>2. ASSUME comm.pc = "download" PROVE nextSong' = nextSong
    BY <2>2, NoSongAssumption DEF SpeakerInv, MessageTypes, FetchInv, Keeps, Pi!Message
  <2> QED BY <2>1, <2>2 DEF SpeakerInv, FetchInv
<1>4. StopReported'
  BY DEF SpeakerInv, MessageTypes, StopReported, Keeps
<1> QED BY <1>1, <1>2, <1>3, <1>4 DEF SpeakerInv

\* The playback thread queues a request, a Ready or a Stopped.
LEMMA TellStep ==
    ASSUME ServerInv, LinkInv, SpeakerInv, ServerIdle,
           NEW e \in Pi!Message, Pi!put(e),
           e.status \in {"need_song", "Ready", "Stopped"},
           e.status = "need_song" => e.id = nextSong /\ current_song # nextSong,
           e.status = "Ready" => e.id \in files,
           UNCHANGED <<current_song, message, comm, files>>,
           \/ UNCHANGED current_song_state
           \/ current_song_state = "PLAYING" /\ current_song_state' = "STOPPED" /\ e.status = "Stopped",
           next_song' # NoSong /\ next_song_state' = "READY" => next_song' \in files
    PROVE  SpeakerInv'
<1>1. /\ MessageTypes /\ PlayingOnce /\ FetchInv /\ ReadyInv /\ SharedInv /\ StoppedFollows
      /\ StopReported
  BY DEF SpeakerInv
<1>2. PICK n \in Nat : /\ n \notin Queued /\ Queued' = Queued \cup {n}
                       /\ \A i \in Queued : i \in Nat /\ i < n /\ Entry(i)' = Entry(i)
                       /\ Entry(n)' = e
                       /\ playback_connection_queue' \in Seq(Pi!Entry)
  BY <1>1, PutEntry DEF MessageTypes, Pi!Entry
<1>3. e # Pi!Shared /\ e.id \in Song
  BY DEF Pi!Message, Pi!Shared, Pi!Msg
<1>4. /\ UNCHANGED <<activeSong, nextSong, status>>
      /\ \A st : Posts(st)' <=> Posts(st)
      /\ \A i \in Queued : Says(Entry(i))' = Says(Entry(i))
      /\ Says(Entry(n))' = e
  BY <1>2, <1>3 DEF ServerIdle, vars, db, Posts, Says
<1> HIDE DEF Queued, Entry, Says, Posts
<1>5. MessageTypes'
  BY <1>1, <1>2, <1>3 DEF MessageTypes
<1>6. PlayingOnce'
  BY <1>1, <1>2, <1>4 DEF PlayingOnce
<1>7. FetchInv'
  BY <1>1, <1>2, <1>4 DEF FetchInv, PlayingOnce
<1>8. ReadyInv'
  BY <1>1, <1>2, <1>4 DEF ReadyInv
<1>9. SharedInv'
  BY <1>1, <1>2, <1>3, <1>4 DEF SharedInv
<1>10. StoppedFollows'
  BY <1>1, <1>2, <1>4 DEF StoppedFollows
<1>11. StopReported'
  BY <1>1, <1>2, <1>4 DEF StopReported, Says, Queued, Entry
<1> QED BY <1>5, <1>6, <1>7, <1>8, <1>9, <1>10, <1>11 DEF SpeakerInv

\* A step of the playback thread that queues nothing.
LEMMA SilentStep ==
    ASSUME SpeakerInv, ServerIdle,
           UNCHANGED <<playback_connection_queue, current_song, current_song_state, message, comm, files>>,
           next_song' # NoSong /\ next_song_state' = "READY" => next_song' \in files
    PROVE  SpeakerInv'
<1> USE DEF Queued, Entry, Says, Posts, SpeakerInv, ServerIdle, vars, db
<1>1. MessageTypes' /\ PlayingOnce' /\ FetchInv' /\ ReadyInv'
  BY DEF MessageTypes, PlayingOnce, FetchInv, ReadyInv
<1>2. SharedInv' /\ StoppedFollows' /\ StopReported'
  BY DEF SharedInv, StoppedFollows, StopReported
<1> QED BY <1>1, <1>2

\* The playback thread begins the next song, whose file is there.
LEMMA BeginStep ==
    ASSUME ServerInv, LinkInv, SpeakerInv, ServerIdle,
           nextSong # NoSong, current_song # nextSong, current_song_state # "PLAYING",
           Pi!put(Pi!Msg("Playing", nextSong)),
           current_song' = nextSong, current_song_state' = "PLAYING", next_song' = NoSong,
           UNCHANGED <<message, comm, files>>
    PROVE  SpeakerInv'
<1> DEFINE e == Pi!Msg("Playing", nextSong)
<1>1. /\ MessageTypes /\ PlayingOnce /\ FetchInv /\ ReadyInv /\ SharedInv
  BY DEF SpeakerInv
<1>2. /\ e \in Pi!Message /\ e.status = "Playing" /\ e.id = nextSong /\ e # Pi!Shared
  BY DEF ServerInv, IInv, TypeOK, Pi!Message, Pi!Shared, Pi!Msg
<1>3. Pi!put(e)
  OBVIOUS
<1>4. UNCHANGED <<activeSong, nextSong, status>>
  BY DEF ServerIdle, vars, db
\* The message itself, which no later step changes.
<1>5. PICK c : c = e
  OBVIOUS
<1>6. /\ c \in Pi!Message /\ c.status = "Playing" /\ c.id = nextSong /\ c # Pi!Shared
      /\ Pi!put(c)
  BY <1>2, <1>3, <1>5
<1> HIDE DEF e
<1>7. PICK n \in Nat : /\ n \notin Queued /\ Queued' = Queued \cup {n}
                       /\ \A i \in Queued : i \in Nat /\ i < n /\ Entry(i)' = Entry(i)
                       /\ Entry(n)' = c
                       /\ playback_connection_queue' \in Seq(Pi!Entry)
  BY <1>1, <1>6, PutEntry DEF MessageTypes, Pi!Entry
<1>8. /\ \A st : Posts(st)' <=> Posts(st)
      /\ \A i \in Queued : Says(Entry(i))' = Says(Entry(i))
      /\ Says(Entry(n))' = c
  BY <1>6, <1>7 DEF Posts, Says
<1> HIDE DEF Queued, Entry, Says, Posts
<1>9. (\A i \in Queued : Entry(i).status # "Playing") /\ ~Posts("Playing")
  BY <1>1 DEF PlayingOnce
<1>10. MessageTypes'
  BY <1>1, <1>6, <1>7, <1>8 DEF MessageTypes
<1>11. PlayingOnce'
  BY <1>4, <1>6, <1>7, <1>8, <1>9 DEF PlayingOnce
<1>12. FetchInv'
  BY <1>1, <1>4, <1>6, <1>7, <1>8, <1>9 DEF FetchInv
<1>13. ReadyInv'
  BY <1>1, <1>6, <1>7, <1>8 DEF ReadyInv
<1>14. SharedInv'
  BY <1>1, <1>6, <1>7, <1>8 DEF SharedInv
<1>15. StoppedFollows' /\ StopReported'
  BY DEF StoppedFollows, StopReported
<1> QED BY <1>10, <1>11, <1>12, <1>13, <1>14, <1>15 DEF SpeakerInv

\* pygame says that the song has ended.
LEMMA EndStep ==
    ASSUME ServerInv, LinkInv, SpeakerInv, ServerIdle, Pi!pollEvent
    PROVE  SpeakerInv'
<1> DEFINE m == Pi!Msg("Stopped", current_song)
<1>1. /\ MessageTypes /\ PlayingOnce /\ FetchInv /\ ReadyInv /\ SharedInv
  BY DEF SpeakerInv
<1>2. /\ current_song_state = "PLAYING" /\ current_song_state' = "STOPPED"
      /\ message' = m /\ Pi!put(Pi!Shared)
      /\ UNCHANGED <<current_song, next_song, next_song_state, files, comm>>
  BY DEF Pi!pollEvent
<1>3. current_song \in Song
  BY <1>1, <1>2 DEF MessageTypes, LinkInv, SongsFit, ServerInv, IInv, TypeOK
<1>4. m \in Pi!Message /\ m.status = "Stopped" /\ Pi!Shared.status = "shared"
  BY <1>3 DEF Pi!Message, Pi!Msg, Pi!Shared
<1>5. UNCHANGED <<activeSong, nextSong, status>>
  BY DEF ServerIdle, vars, db
<1>6. message' \in Pi!Message /\ message'.status = "Stopped"
  BY <1>2, <1>4
<1> HIDE DEF m
<1>7. Pi!Shared \in Pi!Entry
  BY DEF Pi!Entry
<1>8. PICK n \in Nat : /\ n \notin Queued /\ Queued' = Queued \cup {n}
                       /\ \A i \in Queued : i \in Nat /\ i < n /\ Entry(i)' = Entry(i)
                       /\ Entry(n)' = Pi!Shared
                       /\ playback_connection_queue' \in Seq(Pi!Entry)
  BY <1>1, <1>2, <1>7, PutEntry DEF MessageTypes
<1>9. /\ \A st : Posts(st)' <=> Posts(st)
      /\ \A i \in Queued : \/ Entry(i) # Pi!Shared /\ Says(Entry(i))' = Says(Entry(i))
                           \/ Entry(i) = Pi!Shared /\ Says(Entry(i))' = message'
      /\ Says(Entry(n))' = message'
  BY <1>2, <1>8 DEF Posts, Says
<1> HIDE DEF Queued, Entry, Says, Posts
<1>10. MessageTypes'
  BY <1>1, <1>2, <1>3, <1>6, <1>8, NoSongAssumption DEF MessageTypes
<1>11. PlayingOnce'
  BY <1>1, <1>2, <1>4, <1>5, <1>8, <1>9 DEF PlayingOnce
<1>12. FetchInv'
  BY <1>1, <1>2, <1>4, <1>5, <1>6, <1>8, <1>9 DEF FetchInv
<1>13. ReadyInv'
  BY <1>1, <1>2, <1>6, <1>8, <1>9 DEF ReadyInv
<1>14. SharedInv'
  BY <1>1, <1>2, <1>4, <1>8 DEF SharedInv
<1>15. StoppedFollows'
  BY <1>1, <1>4, <1>6, <1>8, <1>9 DEF StoppedFollows, PlayingOnce
<1>16. StopReported'
  BY <1>6, <1>8, <1>9 DEF StopReported, Says, Queued, Entry
<1> QED BY <1>10, <1>11, <1>12, <1>13, <1>14, <1>15, <1>16 DEF SpeakerInv

\* The communication thread takes a message.
LEMMA TakeStep ==
    ASSUME ServerInv, LinkInv, SpeakerInv, ServerIdle, Pi!communicate
    PROVE  SpeakerInv'
<1> DEFINE e == Entry(1)
           m == Says(Entry(1))
<1>1. /\ MessageTypes /\ PlayingOnce /\ FetchInv /\ ReadyInv /\ SharedInv /\ StoppedFollows
      /\ StopReported
  BY DEF SpeakerInv
<1>2. /\ 1 \in Queued /\ Head(playback_connection_queue) = Entry(1)
      /\ \A i \in Queued' : i \in Nat /\ i >= 1 /\ i + 1 \in Queued /\ Entry(i)' = Entry(i + 1)
      /\ \A i \in Queued : /\ i \in Nat /\ i >= 1
                           /\ i # 1 => i - 1 \in Queued' /\ Entry(i - 1)' = Entry(i)
      /\ playback_connection_queue' \in Seq(Pi!Entry)
  BY <1>1, TakeEntry DEF Pi!communicate, MessageTypes
<1>3. /\ comm.pc = "idle" /\ ~comm.shared
      /\ UNCHANGED <<current_song, current_song_state, next_song, files>>
  BY DEF Pi!communicate, Pi!Idle, Pi!At
<1>4. \/ /\ m.status = "need_song" /\ comm' = Pi!At("download", m) /\ next_song_state' = "DOWNLOADING"
         /\ message' = IF Pi!SharedQueued' THEN message ELSE Pi!NoMessage
      \/ /\ m.status # "need_song" /\ comm' = Pi!Taken(m, e) /\ UNCHANGED <<next_song_state, message>>
  BY <1>2, <1>3 DEF Pi!communicate, Pi!done, Says
<1>5. /\ m \in Pi!Message /\ m.id \in Song
      /\ e # Pi!Shared => m = e
      /\ e = Pi!Shared => e.status = "shared"
      /\ e.status = "Playing" => e # Pi!Shared
  BY <1>1, <1>2, EntryFacts
<1>6. UNCHANGED <<activeSong, nextSong, status>>
  BY DEF ServerIdle, vars, db
<1>7. e = Entry(1) /\ m = Says(Entry(1))
  BY DEF e, m
<1> HIDE DEF e, m
<1>8. \/ /\ m.status = "need_song" /\ next_song_state' = "DOWNLOADING"
         /\ comm' = [pc |-> "download", msg |-> m, shared |-> FALSE]
      \/ /\ m.status # "need_song" /\ UNCHANGED next_song_state
         /\ comm' = [pc |-> "post", msg |-> m, shared |-> (e = Pi!Shared)]
  BY <1>4 DEF Pi!At, Pi!Taken
<1>9. /\ comm'.pc \in {"download", "post"} /\ comm'.msg = m
      /\ comm'.pc = "download" => m.status = "need_song" /\ next_song_state' = "DOWNLOADING"
      /\ comm'.pc # "download" => UNCHANGED next_song_state
      /\ comm'.shared => e = Pi!Shared /\ comm'.pc = "post"
      /\ comm' \in [pc : {"idle", "download", "post", "answer"},
                     msg : Pi!Message \cup {Pi!NoMessage}, shared : BOOLEAN]
  <2>1. CASE comm' = [pc |-> "download", msg |-> m, shared |-> FALSE]
    BY <1>5, <1>8, <2>1
  <2>2. CASE comm' = [pc |-> "post", msg |-> m, shared |-> (e = Pi!Shared)]
    <3>1. (e = Pi!Shared) \in BOOLEAN
      OBVIOUS
    <3> QED BY <1>5, <1>8, <2>2, <3>1
  <2> QED BY <1>8, <2>1, <2>2
<1>10. \A st : Posts(st)' => m.status = st
  BY <1>9 DEF Posts
<1>11. ASSUME NEW i \in Queued', Entry(i)' = Pi!Shared PROVE message' = message
  <2>1. i \in 1..Len(playback_connection_queue')
    <3> HIDE DEF Pi!Entry
    <3> QED BY <1>2, LenProperties DEF Queued
  <2>2. Pi!SharedQueued'
    BY <1>11, <2>1 DEF Pi!SharedQueued, Entry
  <2> QED BY <1>4, <2>2
<1>12. \A i \in Queued' : Says(Entry(i))' = Says(Entry(i + 1))
  BY <1>2, <1>11 DEF Says
<1>13. /\ message'.status # "Playing"
       /\ (\E i \in Queued' : Entry(i)' = Pi!Shared) \/ comm'.shared => message' \in Pi!Message
  <2>1. message' = message \/ message' = Pi!NoMessage
    BY <1>4
  <2>2. message'.status # "Playing"
    BY <1>1, <2>1 DEF MessageTypes, Pi!NoMessage, Pi!Msg
  <2>3. ASSUME NEW i \in Queued', Entry(i)' = Pi!Shared PROVE message' \in Pi!Message
    BY <1>1, <1>2, <1>11, <2>3 DEF MessageTypes
  <2>4. ASSUME comm'.shared PROVE message' \in Pi!Message
    <3>1. message' = message
      BY <1>4, <2>4 DEF Pi!At
    <3>2. Entry(1) = Pi!Shared
      BY <1>7, <1>9, <2>4
    <3> QED BY <1>1, <1>2, <3>1, <3>2 DEF MessageTypes
  <2> QED BY <2>2, <2>3, <2>4
<1>14. MessageTypes'
  BY <1>1, <1>2, <1>3, <1>5, <1>9, <1>13 DEF MessageTypes, Queued, Entry
<1> HIDE DEF Queued, Entry, Says, Posts
<1>15. PlayingOnce'
  <2>1. Posts("Playing")' => e.status = "Playing" /\ comm'.msg = e
    BY <1>1, <1>5, <1>7, <1>9, <1>10 DEF MessageTypes, Says
  <2> QED BY <1>1, <1>2, <1>3, <1>6, <1>7, <2>1 DEF PlayingOnce
<1>16. FetchInv'
  <2>1. Posts("Playing")' => e.status = "Playing"
    BY <1>1, <1>5, <1>7, <1>9, <1>10 DEF MessageTypes, Says
  <2>2. comm'.pc = "download" => comm'.msg.id = nextSong'
    BY <1>1, <1>2, <1>6, <1>7, <1>9 DEF FetchInv
  <2>3. ASSUME NEW i \in Queued', Says(Entry(i))'.status = "need_song"
        PROVE  /\ Says(Entry(i))'.id = nextSong' /\ ~Posts("Playing")'
               /\ \A j \in Queued' : Entry(j)'.status = "Playing" => i < j
    <3>1. /\ i \in Nat /\ i >= 1 /\ i + 1 \in Queued /\ Says(Entry(i + 1)).status = "need_song"
          /\ Says(Entry(i))'.id = Says(Entry(i + 1)).id
      BY <1>2, <1>12, <2>3
    <3>2. /\ Says(Entry(i + 1)).id = nextSong
          /\ \A j \in Queued : Entry(j).status = "Playing" => i + 1 < j
      BY <1>1, <3>1 DEF FetchInv
    <3>3. ~Posts("Playing")'
      BY <1>2, <1>7, <2>1, <3>1, <3>2
    <3>4. ASSUME NEW j \in Queued', Entry(j)'.status = "Playing" PROVE i < j
      <4>1. j \in Nat /\ j + 1 \in Queued /\ Entry(j + 1).status = "Playing"
        BY <1>2, <3>4
      <4> QED BY <3>1, <3>2, <4>1
    <3> QED BY <1>6, <3>1, <3>2, <3>3, <3>4
  <2> QED BY <2>2, <2>3 DEF FetchInv
<1>17. ReadyInv'
  BY <1>1, <1>2, <1>3, <1>7, <1>9, <1>10, <1>12 DEF ReadyInv
<1>18. SharedInv'
  <2>1. ASSUME NEW i \in Queued', NEW j \in Queued', i < j,
               Entry(i)' = Pi!Shared, Entry(j)' = Pi!Shared
        PROVE  \E k \in Queued' : i < k /\ k < j /\ Entry(k)'.status = "Playing"
    <3>1. PICK k \in Queued : i + 1 < k /\ k < j + 1 /\ Entry(k).status = "Playing"
      BY <1>1, <1>2, <2>1 DEF SharedInv
    <3>2. k - 1 \in Queued' /\ Entry(k - 1)' = Entry(k) /\ i < k - 1 /\ k - 1 < j
      BY <1>2, <3>1
    <3> QED BY <3>1, <3>2
  <2>2. ASSUME comm'.shared, NEW j \in Queued', Entry(j)' = Pi!Shared
        PROVE  \E k \in Queued' : k < j /\ Entry(k)'.status = "Playing"
    <3>1. PICK k \in Queued : 1 < k /\ k < j + 1 /\ Entry(k).status = "Playing"
      BY <1>1, <1>2, <1>7, <1>9, <2>2 DEF SharedInv
    <3>2. k - 1 \in Queued' /\ Entry(k - 1)' = Entry(k) /\ k - 1 < j
      BY <1>2, <3>1
    <3> QED BY <3>1, <3>2
  <2>3. ASSUME current_song_state' = "PLAYING", NEW i \in Queued', Entry(i)' = Pi!Shared
        PROVE  \E k \in Queued' : i < k /\ Entry(k)'.status = "Playing"
    <3>1. PICK k \in Queued : i + 1 < k /\ Entry(k).status = "Playing"
      BY <1>1, <1>2, <1>3, <2>3 DEF SharedInv
    <3>2. k - 1 \in Queued' /\ Entry(k - 1)' = Entry(k) /\ i < k - 1
      BY <1>2, <3>1
    <3> QED BY <3>1, <3>2
  <2>4. ASSUME current_song_state' = "PLAYING", comm'.shared
        PROVE  \E k \in Queued' : Entry(k)'.status = "Playing"
    <3>1. PICK k \in Queued : 1 < k /\ Entry(k).status = "Playing"
      BY <1>1, <1>2, <1>3, <1>7, <1>9, <2>4 DEF SharedInv
    <3>2. k - 1 \in Queued' /\ Entry(k - 1)' = Entry(k)
      BY <1>2, <3>1
    <3> QED BY <3>1, <3>2
  <2> QED BY <2>1, <2>2, <2>3, <2>4 DEF SharedInv
<1>19. StoppedFollows'
  <2>1. ASSUME current_song_state' = "STOPPED", NEW i \in Queued', Entry(i)'.status = "Playing"
        PROVE  \E j \in Queued' : i < j /\ Says(Entry(j))'.status = "Stopped"
    <3>1. PICK k \in Queued : i + 1 < k /\ Says(Entry(k)).status = "Stopped"
      BY <1>1, <1>2, <1>3, <2>1 DEF StoppedFollows
    <3>2. k - 1 \in Queued' /\ i < k - 1 /\ (k - 1) + 1 = k
      BY <1>2, <3>1
    <3>3. Says(Entry(k - 1))' = Says(Entry(k))
      BY <1>12, <3>2
    <3> QED BY <3>1, <3>2, <3>3
  <2>2. ASSUME current_song_state' = "STOPPED", Posts("Playing")'
        PROVE  \E j \in Queued' : Says(Entry(j))'.status = "Stopped"
    <3>1. e.status = "Playing"
      BY <1>1, <1>5, <1>7, <1>9, <1>10, <2>2 DEF MessageTypes, Says
    <3>2. PICK k \in Queued : 1 < k /\ Says(Entry(k)).status = "Stopped"
      BY <1>1, <1>2, <1>3, <1>7, <2>2, <3>1 DEF StoppedFollows
    <3>3. k - 1 \in Queued' /\ (k - 1) + 1 = k
      BY <1>2, <3>2
    <3>4. Says(Entry(k - 1))' = Says(Entry(k))
      BY <1>12, <3>3
    <3> QED BY <3>2, <3>3, <3>4
  <2> QED BY <2>1, <2>2 DEF StoppedFollows
<1>20. StopReported'
  <2>1. SUFFICES ASSUME current_song_state = "STOPPED" /\ current_song = activeSong
                        /\ status[activeSong] = "Playing"
                 PROVE  \/ comm'.pc = "post" /\ comm'.msg.status = "Stopped"
                        \/ \E i \in Queued' : Says(Entry(i))'.status = "Stopped"
    BY <1>3, <1>6 DEF StopReported, Queued, Says, Entry
  <2>2. PICK k \in Queued : Says(Entry(k)).status = "Stopped"
    BY <1>1, <1>3, <2>1 DEF StopReported, Queued, Says, Entry
  <2>3. CASE k = 1
    BY <1>7, <1>9, <2>2, <2>3
  <2>4. CASE k # 1
    <3>1. k - 1 \in Queued' /\ (k - 1) + 1 = k
      BY <1>2, <2>4
    <3>2. Says(Entry(k - 1))' = Says(Entry(k))
      BY <1>12, <3>1
    <3> QED BY <2>2, <3>1, <3>2
  <2> QED BY <2>3, <2>4
<1> QED BY <1>14, <1>15, <1>16, <1>17, <1>18, <1>19, <1>20 DEF SpeakerInv

\* The server has answered a request for a song.
LEMMA DownloadStep ==
    ASSUME ServerInv, LinkInv, SpeakerInv, ServerIdle, Pi!handle_need_song
    PROVE  SpeakerInv'
<1> USE DEF Queued, Entry, Says
<1>1. /\ MessageTypes /\ PlayingOnce /\ FetchInv /\ ReadyInv /\ SharedInv /\ StoppedFollows
      /\ StopReported /\ SongsFit
  BY DEF SpeakerInv, LinkInv
<1>2. /\ comm.pc = "download" /\ files \subseteq files'
      /\ UNCHANGED <<current_song, current_song_state, next_song, playback_connection_queue, message>>
      /\ UNCHANGED <<activeSong, nextSong, status>>
  BY DEF Pi!handle_need_song, ServerIdle, vars, db
<1>3. comm.msg \in Pi!Message /\ comm.msg.id \in Song /\ comm.msg.id = nextSong
  BY <1>1, <1>2 DEF MessageTypes, FetchInv, Pi!Message
<1>4. \/ /\ comm' = [pc |-> "idle", msg |-> Pi!NoMessage, shared |-> FALSE]
         /\ next_song_state' = "READY" => nextSong \in files'
      \/ /\ comm' = [pc |-> "post", msg |-> [status |-> "Ready", id |-> nextSong], shared |-> FALSE]
         /\ nextSong \in files'
  BY <1>3 DEF Pi!handle_need_song, Pi!Idle, Pi!At, Pi!Msg
<1>5. [status |-> "Ready", id |-> nextSong] \in Pi!Message
  BY <1>3 DEF Pi!Message
<1>6. /\ comm'.pc \in {"idle", "post"} /\ ~comm'.shared
      /\ comm'.pc = "post" => comm'.msg \in Pi!Message /\ comm'.msg.status = "Ready" /\ comm'.msg.id \in files'
      /\ comm' \in [pc : {"idle", "download", "post", "answer"},
                    msg : Pi!Message \cup {Pi!NoMessage}, shared : BOOLEAN]
  <2> DEFINE r == [status |-> "Ready", id |-> nextSong]
  <2>1. r.status = "Ready" /\ r.id = nextSong /\ r \in Pi!Message
    BY <1>5
  <2>2. \/ comm' = [pc |-> "idle", msg |-> Pi!NoMessage, shared |-> FALSE]
        \/ comm' = [pc |-> "post", msg |-> r, shared |-> FALSE] /\ nextSong \in files'
    BY <1>4
  <2> HIDE DEF r
  <2>3. CASE comm' = [pc |-> "idle", msg |-> Pi!NoMessage, shared |-> FALSE]
    BY <2>3
  <2>4. CASE comm' = [pc |-> "post", msg |-> r, shared |-> FALSE] /\ nextSong \in files'
    BY <2>1, <2>4
  <2> QED BY <2>2, <2>3, <2>4
<1>7. next_song # NoSong /\ next_song_state' = "READY" => next_song \in files'
  BY <1>1, <1>4 DEF SongsFit
<1>8. MessageTypes'
  BY <1>1, <1>2, <1>6 DEF MessageTypes
<1>9. PlayingOnce' /\ FetchInv'
  BY <1>1, <1>2, <1>6 DEF PlayingOnce, FetchInv, Posts
<1>10. ReadyInv'
  BY <1>1, <1>2, <1>6, <1>7 DEF ReadyInv, Posts
<1>11. SharedInv' /\ StoppedFollows'
  BY <1>1, <1>2, <1>6 DEF SharedInv, StoppedFollows, Posts
<1>12. StopReported'
  BY <1>1, <1>2 DEF StopReported
<1> QED BY <1>8, <1>9, <1>10, <1>11, <1>12 DEF SpeakerInv

\* The server hears of a Playing, a Stopped or a Ready.
LEMMA PostStep ==
    ASSUME ServerInv, LinkInv, SpeakerInv, Pi!post,
           Keeps \/ (Starts /\ Posts("Playing")),
           Posts("Stopped") /\ activeSong # NoSong => status'[activeSong] = "Stopped"
    PROVE  SpeakerInv'
<1> USE DEF Queued, Entry, Says
<1>1. /\ MessageTypes /\ PlayingOnce /\ FetchInv /\ ReadyInv /\ SharedInv /\ StoppedFollows
      /\ StopReported
  BY DEF SpeakerInv
<1>2. /\ comm.pc = "post" /\ comm' = [comm EXCEPT !.pc = "answer"]
      /\ UNCHANGED <<current_song, current_song_state, next_song, next_song_state, files,
                     playback_connection_queue, message>>
  BY DEF Pi!post, Pi!songs
<1>3. /\ comm' \in [pc : {"idle", "download", "post", "answer"},
                    msg : Pi!Message \cup {Pi!NoMessage}, shared : BOOLEAN]
      /\ comm'.pc = "answer" /\ comm'.msg = comm.msg /\ comm'.shared = comm.shared
  BY <1>1, <1>2 DEF MessageTypes
<1>4. MessageTypes'
  BY <1>1, <1>2, <1>3 DEF MessageTypes
<1>5. ASSUME NEW i \in Queued, Entry(i).status = "Playing" PROVE nextSong' = nextSong
  BY <1>1, <1>5, EntryFacts, NoSongAssumption DEF PlayingOnce, Keeps
<1>6. PlayingOnce'
  BY <1>1, <1>2, <1>3, <1>5 DEF PlayingOnce, Posts
<1>7. ASSUME NEW i \in Queued, Says(Entry(i)).status = "need_song" PROVE nextSong' = nextSong
  BY <1>1, <1>7, EntryFacts, NoSongAssumption DEF FetchInv, Keeps
<1>8. FetchInv'
  BY <1>1, <1>2, <1>3, <1>7 DEF FetchInv, Posts
<1>9. ReadyInv'
  BY <1>1, <1>2, <1>3 DEF ReadyInv, Posts
<1>10. SharedInv' /\ StoppedFollows'
  BY <1>1, <1>2, <1>3 DEF SharedInv, StoppedFollows, Posts
<1>11. StopReported'
  <2>1. CASE Starts /\ Posts("Playing")
    BY <1>1, <1>2, <2>1 DEF StoppedFollows, StopReported
  <2>2. CASE Keeps
    <3>1. activeSong' = activeSong
      BY <2>2 DEF Keeps
    <3>2. SUFFICES ASSUME current_song_state = "STOPPED" /\ current_song = activeSong
                          /\ status'[activeSong] = "Playing"
                   PROVE  \E i \in Queued : Says(Entry(i)).status = "Stopped"
      BY <1>2, <3>1 DEF StopReported
    <3>3. activeSong \in Song /\ status \in [Song -> Status] /\ activeSong # NoSong
      BY <1>1, <3>2 DEF MessageTypes, ServerInv, IInv, TypeOK
    <3>4. status[activeSong] = "Playing"
      BY <2>2, <3>2, <3>3 DEF Keeps
    <3>5. ~Posts("Stopped")
      BY <3>2, <3>3
    <3> QED BY <1>1, <1>2, <3>2, <3>4, <3>5 DEF StopReported, Posts
  <2> QED BY <2>1, <2>2
<1> QED BY <1>4, <1>6, <1>8, <1>9, <1>10, <1>11 DEF SpeakerInv

\* The answer is there. While the speaker has a next song no Playing is on its
\* way, and so the dictionary the thread holds is in the queue only once.
LEMMA AnsweredStep ==
    ASSUME ServerInv, LinkInv, SpeakerInv, ServerIdle, Pi!answered
    PROVE  SpeakerInv'
<1>1. /\ MessageTypes /\ PlayingOnce /\ FetchInv /\ ReadyInv /\ SharedInv /\ StoppedFollows
      /\ StopReported /\ SongsFit
  BY DEF SpeakerInv, LinkInv
<1>2. /\ comm.pc = "answer" /\ comm.shared \in BOOLEAN
      /\ UNCHANGED <<current_song, current_song_state, next_song, next_song_state, files>>
      /\ UNCHANGED <<activeSong, nextSong, status>>
  BY <1>1 DEF Pi!answered, Pi!songs, ServerIdle, vars, db, MessageTypes
<1>3. ASSUME next_song # NoSong
      PROVE  /\ next_song \in Song /\ next_song = nextSong
             /\ \A i \in Queued : Entry(i).status # "Playing"
             /\ comm.shared => \A i \in Queued : Entry(i) # Pi!Shared
             /\ comm.shared => current_song_state # "PLAYING"
  BY <1>1, <1>3 DEF SongsFit, PlayingOnce, SharedInv, ServerInv, IInv, TypeOK
<1>4. ASSUME NEW i \in Queued', Entry(i)' = Pi!Shared,
             playback_connection_queue' \in Seq(Pi!Entry)
      PROVE  Pi!SharedQueued'
  <2>1. i \in 1..Len(playback_connection_queue')
    <3> HIDE DEF Pi!Entry
    <3> QED BY <1>4, LenProperties DEF Queued
  <2> QED BY <1>4, <2>1 DEF Pi!SharedQueued, Entry
<1>5. ASSUME UNCHANGED playback_connection_queue, comm'.pc \in {"idle", "post"}, ~comm'.shared,
             comm' \in [pc : {"idle", "download", "post", "answer"},
                        msg : Pi!Message \cup {Pi!NoMessage}, shared : BOOLEAN],
             comm'.pc = "post" => /\ comm'.msg \in Pi!Message /\ comm'.msg.status = "Ready"
                                  /\ comm'.msg.id \in files,
             message' = message \/ (message' = Pi!NoMessage /\ ~Pi!SharedQueued')
      PROVE  SpeakerInv'
  <2>1. playback_connection_queue' \in Seq(Pi!Entry)
    BY <1>1, <1>5 DEF MessageTypes
  <2>2. /\ message'.status # "Playing"
        /\ \A i \in Queued : Entry(i) = Pi!Shared => message' = message
    BY <1>1, <1>4, <1>5, <2>1 DEF MessageTypes, Pi!NoMessage, Pi!Msg, Queued, Entry
  <2>3. /\ Queued' = Queued /\ \A i \in Queued : Entry(i)' = Entry(i) /\ Says(Entry(i))' = Says(Entry(i))
        /\ \A st : Posts(st)' => st = "Ready"
    BY <1>5, <2>2 DEF Queued, Entry, Says, Posts
  <2> HIDE DEF Queued, Entry, Says, Posts
  <2>4. MessageTypes'
    BY <1>1, <1>2, <1>5, <2>1, <2>2, <2>3 DEF MessageTypes
  <2>5. PlayingOnce' /\ FetchInv'
    BY <1>1, <1>2, <1>5, <2>3 DEF PlayingOnce, FetchInv
  <2>6. ReadyInv'
    BY <1>1, <1>2, <1>5, <2>3 DEF ReadyInv, Posts
  <2>7. SharedInv' /\ StoppedFollows'
    BY <1>1, <1>2, <1>5, <2>3 DEF SharedInv, StoppedFollows
  <2>8. StopReported'
    BY <1>1, <1>2, <1>5, <2>3 DEF StopReported, Queued, Entry, Says
  <2> QED BY <2>4, <2>5, <2>6, <2>7, <2>8 DEF SpeakerInv
<1>6. CASE /\ next_song # NoSong /\ next_song_state = "READY"
           /\ comm' = Pi!At("post", Pi!Msg("Ready", next_song))
           /\ UNCHANGED playback_connection_queue /\ Pi!done(Pi!Msg("Ready", next_song))
  <2> DEFINE r == Pi!Msg("Ready", next_song)
  <2>1. r \in Pi!Message /\ r.status = "Ready" /\ r.id = next_song
    BY <1>3, <1>6 DEF Pi!Message, Pi!Msg
  <2>2. comm' = [pc |-> "post", msg |-> r, shared |-> FALSE]
    BY <1>6 DEF Pi!At
  <2>3. next_song \in files
    BY <1>1, <1>6 DEF ReadyInv
  <2>4. message' = IF Pi!SharedQueued' THEN (IF comm.shared THEN r ELSE message) ELSE Pi!NoMessage
    BY <1>6 DEF Pi!done
  <2> HIDE DEF r
  <2>5. comm.shared => ~Pi!SharedQueued'
    <3> SUFFICES ASSUME comm.shared, Pi!SharedQueued' PROVE FALSE
      OBVIOUS
    <3>1. PICK i \in 1..Len(playback_connection_queue) : playback_connection_queue[i] = Pi!Shared
      BY <1>6 DEF Pi!SharedQueued
    <3>2. i \in Queued
      <4> HIDE DEF Pi!Entry
      <4> QED BY <1>1, LenProperties DEF Queued, MessageTypes
    <3> QED BY <1>3, <1>6, <3>1, <3>2 DEF Entry
  <2>6. message' = message \/ (message' = Pi!NoMessage /\ ~Pi!SharedQueued')
    BY <2>4, <2>5
  <2>7. /\ comm'.pc = "post" /\ ~comm'.shared /\ comm'.msg = r
        /\ comm' \in [pc : {"idle", "download", "post", "answer"},
                      msg : Pi!Message \cup {Pi!NoMessage}, shared : BOOLEAN]
    BY <2>1, <2>2
  <2> QED BY <1>5, <1>6, <2>1, <2>3, <2>6, <2>7
<1>7. CASE /\ comm' = Pi!Idle /\ UNCHANGED playback_connection_queue /\ Pi!done(message)
  <2>1. message' = message \/ (message' = Pi!NoMessage /\ ~Pi!SharedQueued')
    BY <1>7 DEF Pi!done
  <2>2. comm' = [pc |-> "idle", msg |-> Pi!NoMessage, shared |-> FALSE]
    BY <1>7 DEF Pi!Idle, Pi!At
  <2> QED BY <1>5, <1>7, <2>1, <2>2
<1>8. CASE /\ next_song # NoSong /\ comm' = Pi!Idle
           /\ Pi!put(IF comm.shared THEN Pi!Shared ELSE Pi!Msg("need_song", next_song))
           /\ Pi!done(Pi!Msg("need_song", next_song))
  <2> DEFINE m == Pi!Msg("need_song", next_song)
  <2>1. m \in Pi!Message /\ m.status = "need_song" /\ m.id = nextSong
    BY <1>3, <1>8 DEF Pi!Message, Pi!Msg
  <2>2. comm' = [pc |-> "idle", msg |-> Pi!NoMessage, shared |-> FALSE]
    BY <1>8 DEF Pi!Idle, Pi!At
  <2>3. message' = IF Pi!SharedQueued' THEN (IF comm.shared THEN m ELSE message) ELSE Pi!NoMessage
    BY <1>8 DEF Pi!done
  <2>4. PICK e : e = IF comm.shared THEN Pi!Shared ELSE m
    OBVIOUS
  <2>5. e \in Pi!Entry /\ Pi!put(e)
    BY <1>8, <2>1, <2>4 DEF Pi!Entry
  <2> HIDE DEF m
  <2>6. PICK n \in Nat : /\ n \notin Queued /\ Queued' = Queued \cup {n}
                         /\ \A i \in Queued : i \in Nat /\ i < n /\ Entry(i)' = Entry(i)
                         /\ Entry(n)' = e
                         /\ playback_connection_queue' \in Seq(Pi!Entry)
    BY <1>1, <2>5, PutEntry DEF MessageTypes
  <2>7. m # Pi!Shared /\ Pi!Shared.status = "shared"
    BY <2>1 DEF Pi!Shared, Pi!Msg
  <2>8. /\ \A i \in Queued' : Entry(i)' = Pi!Shared => message' = IF comm.shared THEN m ELSE message
        /\ message'.status # "Playing"
    BY <1>1, <1>4, <2>1, <2>3, <2>6 DEF MessageTypes, Pi!NoMessage, Pi!Msg
  <2>9. /\ \A i \in Queued : Says(Entry(i))' = Says(Entry(i))
        /\ Says(Entry(n))' = m
    BY <1>3, <1>8, <2>4, <2>6, <2>7, <2>8 DEF Says
  <2>10. /\ comm'.pc = "idle" /\ ~comm'.shared
         /\ comm' \in [pc : {"idle", "download", "post", "answer"},
                       msg : Pi!Message \cup {Pi!NoMessage}, shared : BOOLEAN]
         /\ \A st : ~Posts(st)'
    BY <2>2 DEF Posts
  <2>11. /\ next_song # NoSong /\ \A i \in Queued : Entry(i).status # "Playing"
         /\ e.status # "Playing" /\ (e = Pi!Shared <=> comm.shared)
    BY <1>3, <1>8, <2>1, <2>4, <2>7
  <2> HIDE DEF Queued, Entry, Says, Posts
  <2>12. MessageTypes'
    BY <1>1, <1>2, <2>1, <2>6, <2>8, <2>10, <2>11 DEF MessageTypes
  <2>13. PlayingOnce'
    BY <2>6, <2>10, <2>11 DEF PlayingOnce
  <2>14. FetchInv'
    BY <1>1, <1>2, <2>1, <2>6, <2>9, <2>10, <2>11 DEF FetchInv
  <2>15. ReadyInv'
    BY <1>1, <1>2, <2>1, <2>6, <2>9, <2>10 DEF ReadyInv
  <2>16. SharedInv'
    <3>1. \A i \in Queued' : Entry(i)' = Pi!Shared =>
             \/ i \in Queued /\ ~comm.shared /\ Entry(i) = Pi!Shared
             \/ i = n /\ comm.shared
      BY <1>3, <2>6, <2>11
    <3>2. \A i, j \in Queued' : i < j /\ Entry(i)' = Pi!Shared /\ Entry(j)' = Pi!Shared => FALSE
      BY <1>1, <2>6, <2>11, <3>1 DEF SharedInv
    <3>3. current_song_state' = "PLAYING" => \A i \in Queued' : Entry(i)' # Pi!Shared
      BY <1>1, <1>2, <1>3, <2>11, <3>1 DEF SharedInv
    <3> QED BY <2>10, <3>2, <3>3 DEF SharedInv
  <2>17. StoppedFollows'
    BY <2>6, <2>10, <2>11 DEF StoppedFollows
  <2>18. StopReported'
    BY <1>1, <1>2, <2>6, <2>9 DEF StopReported, Queued, Entry, Says
  <2> QED BY <2>12, <2>13, <2>14, <2>15, <2>16, <2>17, <2>18 DEF SpeakerInv
<1> QED BY <1>6, <1>7, <1>8 DEF Pi!answered

\* The playback thread handles an update.
LEMMA PlaybackStep ==
    ASSUME ServerInv, LinkInv, SpeakerInv, ServerIdle, Pi!playback
    PROVE  SpeakerInv'
<1> DEFINE u == Head(server_playback_queue)
           s == u.song
<1>1. /\ ThreadInv /\ SongsFit /\ Fit(Updates, activeSong, nextSong, current_song, next_song)
      /\ ReadyInv
  BY DEF LinkInv, UpdatesFit, SpeakerInv
<1>2. u \in Pi!Update /\ Updates \in Seq(Pi!Update) /\ Updates # << >> /\ Updates[1] = u
  BY <1>1, HeadOfQueue DEF Pi!playback
<1>3. s \in Song
  BY <1>2 DEF Pi!Update, Pi!Upcoming, Pi!Play, Pi!Stop
<1>4. UNCHANGED <<files, message, comm>>
  BY DEF Pi!playback
<1>5. next_song # NoSong /\ next_song_state = "READY" => next_song \in files
  BY <1>1 DEF ReadyInv
<1>6. ASSUME NEW st \in {"need_song", "Ready", "Stopped", "Playing"}
      PROVE  /\ Pi!Msg(st, s) \in Pi!Message
             /\ Pi!Msg(st, s).status = st /\ Pi!Msg(st, s).id = s
  BY <1>3 DEF Pi!Message, Pi!Msg
<1> HIDE DEF s, Pi!Update
<1>7. CASE Pi!handle_play_command(s)
  <2>1. CASE UNCHANGED <<Pi!songs, playback_connection_queue>>
    BY <1>4, <1>5, <2>1, SilentStep DEF Pi!songs
  <2>2. CASE /\ s # current_song /\ s = next_song /\ next_song_state = "UNKNOWN"
             /\ Pi!put(Pi!Msg("need_song", s)) /\ UNCHANGED Pi!songs
    <3>1. s = nextSong
      BY <1>1, <1>3, <2>2, NoSongAssumption DEF SongsFit
    <3> QED BY <1>4, <1>5, <1>6, <2>2, <3>1, TellStep DEF Pi!songs
  <2>3. CASE /\ s # current_song /\ s = next_song
             /\ current_song_state # "PLAYING" /\ next_song_state = "READY"
             /\ current_song' = s /\ current_song_state' = "PLAYING" /\ next_song' = NoSong
             /\ s \in files => Pi!put(Pi!Msg("Playing", s))
    <3>1. s = nextSong /\ nextSong # NoSong
      BY <1>1, <1>3, <2>3, NoSongAssumption DEF SongsFit
    <3>2. s \in files
      BY <1>3, <1>5, <2>3, NoSongAssumption
    <3> QED BY <1>4, <2>3, <3>1, <3>2, BeginStep
  <2> QED BY <1>7, <2>1, <2>2, <2>3 DEF Pi!handle_play_command
<1>8. CASE Pi!handle_stop_command(s)
  <2>1. CASE UNCHANGED <<Pi!songs, playback_connection_queue>>
    BY <1>4, <1>5, <2>1, SilentStep DEF Pi!songs
  <2>2. CASE /\ current_song_state = "PLAYING" /\ current_song_state' = "STOPPED"
             /\ Pi!put(Pi!Msg("Stopped", s))
             /\ UNCHANGED <<current_song, next_song, next_song_state>>
    BY <1>4, <1>5, <1>6, <2>2, TellStep
  <2> QED BY <1>8, <2>1, <2>2 DEF Pi!handle_stop_command
<1>9. CASE u.type = "upcoming_song" /\ Pi!handle_upcoming_song_update(s)
  <2>1. UNCHANGED <<current_song, current_song_state>>
    BY <1>9 DEF Pi!handle_upcoming_song_update
  <2>2. CASE UNCHANGED <<next_song, next_song_state, playback_connection_queue>>
    BY <1>4, <1>5, <2>1, <2>2, SilentStep
  <2>3. CASE /\ s # current_song /\ next_song' = s
             /\ next_song_state' = IF s \in files THEN "READY" ELSE "UNKNOWN"
             /\ \/ s \notin files /\ Pi!put(Pi!Msg("need_song", s))
                \/ s \in files /\ Pi!put(Pi!Msg("Ready", s))
                \/ UNCHANGED playback_connection_queue
    <3>1. s \in {current_song, nextSong}
      BY <1>1, <1>2, <1>9, EmptySeq, LenProperties DEF Fit, Announces, s
    <3>2. s = nextSong
      BY <2>3, <3>1
    <3>3. next_song' # NoSong /\ next_song_state' = "READY" => next_song' \in files
      BY <2>3
    <3>4. CASE UNCHANGED playback_connection_queue
      BY <1>4, <2>1, <3>3, <3>4, SilentStep
    <3>5. CASE Pi!put(Pi!Msg("need_song", s))
      BY <1>4, <1>6, <2>1, <2>3, <3>2, <3>3, <3>5, TellStep
    <3>6. CASE s \in files /\ Pi!put(Pi!Msg("Ready", s))
      BY <1>4, <1>6, <2>1, <3>3, <3>6, TellStep
    <3> QED BY <2>3, <3>4, <3>5, <3>6
  <2> QED BY <1>9, <2>2, <2>3 DEF Pi!handle_upcoming_song_update, Pi!check_for_song
<1> QED BY <1>7, <1>8, <1>9 DEF Pi!playback, s

\* A speaker that begins has nothing to report.
LEMMA SpeakerInit == ASSUME PartyInit PROVE SpeakerInv
<1>1. /\ current_song = NoSong /\ current_song_state = "UNKNOWN" /\ next_song = NoSong
      /\ playback_connection_queue = << >> /\ message.status = "none"
      /\ comm = [pc |-> "idle", msg |-> Pi!NoMessage, shared |-> FALSE]
  BY DEF PartyInit, Pi!Init, Pi!Idle, Pi!At, Pi!NoMessage, Pi!Msg
<1>2. Queued = {}
  BY <1>1 DEF Queued
<1>3. << >> \in Seq(Pi!Entry)
  OBVIOUS
<1>4. MessageTypes
  BY <1>1, <1>2, <1>3 DEF MessageTypes
<1>5. PlayingOnce /\ FetchInv /\ ReadyInv
  BY <1>1, <1>2 DEF PlayingOnce, FetchInv, ReadyInv, Posts
<1>6. SharedInv /\ StoppedFollows /\ StopReported
  BY <1>1, <1>2 DEF SharedInv, StoppedFollows, StopReported
<1> QED BY <1>4, <1>5, <1>6 DEF SpeakerInv

\* A restart forgets everything but the files.
LEMMA RestartStep ==
    ASSUME restart
    PROVE  SpeakerInv'
<1>1. /\ current_song' = NoSong /\ current_song_state' = "UNKNOWN" /\ next_song' = NoSong
      /\ playback_connection_queue' = << >> /\ message'.status = "none"
      /\ comm' = [pc |-> "idle", msg |-> Pi!NoMessage, shared |-> FALSE]
  BY DEF restart, Pi!restart, Pi!Idle, Pi!At, Pi!NoMessage, Pi!Msg
<1>2. Queued' = {}
  BY <1>1 DEF Queued
<1>3. << >> \in Seq(Pi!Entry)
  OBVIOUS
<1>4. MessageTypes'
  BY <1>1, <1>2, <1>3 DEF MessageTypes
<1>5. PlayingOnce' /\ FetchInv' /\ ReadyInv'
  BY <1>1, <1>2 DEF PlayingOnce, FetchInv, ReadyInv, Posts
<1>6. SharedInv' /\ StoppedFollows' /\ StopReported'
  BY <1>1, <1>2 DEF SharedInv, StoppedFollows, StopReported
<1> QED BY <1>4, <1>5, <1>6 DEF SpeakerInv

-----------------------------------------------------------------------------
(***************************************************************************)
(* Every step keeps the invariant.                                         *)
(***************************************************************************)
\* Server and speaker begin with nothing to say.
LEMMA PartyInvInit == ASSUME PartyInit PROVE PartyInv
<1>1. ServerInv
  <2>1. IInv
    BY InitInv DEF PartyInit, IInv
  <2>2. ~overtaken /\ TornIsNext /\ NextSongIsAnother /\ HandlersInv
    BY DEF PartyInit, Init, TornIsNext, NextSongIsAnother, HandlersInv
  <2> QED BY <2>1, <2>2 DEF ServerInv, IInv
<1>2. LinkInv
  <2> HIDE DEF Pi!Update
  <2>1. /\ server_playback_queue = << >> /\ mailbox = EmptyMailbox /\ client_id = NoSession
        /\ update_thread = "authenticate" /\ current_song = NoSong /\ next_song = NoSong
        /\ activeSong = NoSong /\ nextSong = NoSong
    BY DEF PartyInit, Init, Pi!Init
  <2>2. Updates = << >>
    BY <2>1, EmptyBox DEF Updates
  <2>3. ThreadInv
    BY <2>1, EmptyBox DEF ThreadInv, EmptyMailbox
  <2>4. SongsFit /\ UpdatesFit
    BY <2>1, <2>2, FitEmpty DEF SongsFit, UpdatesFit
  <2> QED BY <2>3, <2>4 DEF LinkInv
<1> QED BY <1>1, <1>2, SpeakerInit DEF PartyInv

\* Steps of the server that start no song and leave the speaker alone.
LEMMA ByServerStep ==
    ASSUME PartyInv, ServerInv', Keeps,
           client_id \in Speaker => Tells(out'[client_id], client_id),
           Deliver(client_id), SpeakerIdle,
           UNCHANGED <<update_thread, client_id, welcoming>>
    PROVE  PartyInv'
<1>1. UNCHANGED speaker /\ UNCHANGED <<server_playback_queue, current_song, next_song>>
  BY DEF SpeakerIdle, speaker
<1>2. LinkInv'
  BY <1>1, ServerLink DEF PartyInv
<1>3. SpeakerInv'
  BY <1>1, KeepsSpeaker DEF PartyInv
<1> QED BY <1>2, <1>3 DEF PartyInv

\* Steps of the speaker alone that leave its songs and the connection alone.
LEMMA BySpeakerStep ==
    ASSUME PartyInv, SpeakerInv', ServerIdle,
           UNCHANGED <<server_playback_queue, current_song, next_song, link>>
    PROVE  PartyInv'
BY ServerIdleStep, IdleLink DEF PartyInv

\* Steps of the connection alone.
LEMMA ByLinkStep ==
    ASSUME PartyInv, LinkInv', ServerIdle, UNCHANGED <<current_song, current_song_state, next_song,
           next_song_state, files, playback_connection_queue, message, comm>>
    PROVE  PartyInv'
<1>1. ServerInv'
  BY ServerIdleStep DEF PartyInv
<1>2. SpeakerInv'
  BY SilentStep DEF PartyInv, SpeakerInv, ReadyInv
<1> QED BY <1>1, <1>2 DEF PartyInv

\* The steps of update_func and of the handlers of its requests.
LEMMA UpdateThreadStep ==
    ASSUME PartyInv, ~overtaken', UpdateThread
    PROVE  PartyInv'
<1>1. ServerInv /\ LinkInv /\ SpeakerInv /\ ThreadInv /\ NextSongIsAnother
  BY DEF PartyInv, LinkInv, ServerInv
<1>2. CASE connected
  <2>1. client_id \in Speaker /\ authenticate(client_id) /\ UNCHANGED speaker /\ activeSong' = activeSong
    BY <1>1, <1>2 DEF connected, ThreadInv, ServerInv, IInv, TypeOK, SpeakerIdle, authenticate, db
  <2>2. ServerInv' /\ (Keeps \/ Starts)
    BY <1>1, <2>1, ServerStep
  <2>3. SpeakerInv'
    BY <1>1, <2>1, <2>2, KeepsActive, KeepsSpeaker
  <2> QED BY <1>1, <1>2, <2>2, <2>3, ConnectedLink DEF PartyInv
<1>3. CASE requestUpdate
  <2>1. LinkInv'
    BY <1>1, <1>3, RequestLink
  <2>2. ServerIdle /\ UNCHANGED speaker
    BY <1>3 DEF requestUpdate, SpeakerIdle
  <2> QED BY <2>1, <2>2, ByLinkStep DEF speaker
<1>4. CASE updateReceived
  <2>1. LinkInv'
    BY <1>1, <1>4, ReceiveLink
  <2>2. /\ ServerIdle
        /\ UNCHANGED <<current_song, current_song_state, next_song, next_song_state, files,
                       playback_connection_queue, message, comm>>
    BY <1>4 DEF updateReceived, Pi!receive, Pi!songs
  <2> QED BY <2>1, <2>2, ByLinkStep
<1>5. ASSUME NEW p \in Speaker, connect(p) PROVE PartyInv'
  <2>1. createSession(p) /\ UNCHANGED speaker /\ activeSong' = activeSong
    BY <1>5 DEF connect, SpeakerIdle, createSession, db
  <2>2. ServerInv' /\ (Keeps \/ Starts)
    BY <1>1, <2>1, ServerStep
  <2>3. SpeakerInv'
    BY <1>1, <2>1, <2>2, KeepsActive, KeepsSpeaker
  <2> QED BY <1>1, <1>5, <2>2, <2>3, ConnectLink DEF PartyInv
<1> QED BY <1>2, <1>3, <1>4, <1>5 DEF UpdateThread

\* The speaker's own threads.
LEMMA SpeakerSteps ==
    ASSUME PartyInv, PlaybackSteps \/ CommSteps \/ songEnds
    PROVE  PartyInv'
<1>1. ServerInv /\ LinkInv /\ SpeakerInv
  BY DEF PartyInv
<1>2. ServerIdle /\ UNCHANGED link
  BY DEF PlaybackSteps, CommSteps, songEnds
<1>3. CASE Pi!playback
  BY <1>1, <1>2, <1>3, PlaybackLink, PlaybackStep, ServerIdleStep DEF PartyInv
<1>4. CASE Pi!pollEvent
  BY <1>1, <1>2, <1>4, EndStep, BySpeakerStep DEF Pi!pollEvent
<1>5. CASE Pi!communicate
  BY <1>1, <1>2, <1>5, TakeStep, BySpeakerStep DEF Pi!communicate
<1>6. CASE Pi!handle_need_song
  BY <1>1, <1>2, <1>6, DownloadStep, BySpeakerStep DEF Pi!handle_need_song
<1>7. CASE Pi!answered
  BY <1>1, <1>2, <1>7, AnsweredStep, BySpeakerStep DEF Pi!answered, Pi!songs
<1>8. CASE Pi!songEnds
  <2>1. /\ UNCHANGED <<current_song, current_song_state, next_song, next_song_state, files,
                       server_playback_queue, playback_connection_queue, message, comm>>
    BY <1>8 DEF Pi!songEnds, Pi!songs
  <2> QED BY <1>1, <1>2, <2>1, IdleLink, ByLinkStep
<1> QED BY <1>3, <1>4, <1>5, <1>6, <1>7, <1>8
        DEF PlaybackSteps, CommSteps, songEnds, Pi!PlaybackThread

\* The speaker posts and the server handles it. A Playing that arrives names
\* the next song; a server that has found it too short does not start it.
LEMMA PostStatusStep ==
    ASSUME PartyInv, ~overtaken', postStatus
    PROVE  PartyInv'
<1>1. /\ ServerInv /\ LinkInv /\ SpeakerInv /\ ThreadInv /\ NextSongIsAnother
      /\ MessageTypes /\ PlayingOnce /\ TypeOK
  BY DEF PartyInv, LinkInv, ServerInv, SpeakerInv, IInv
<1>2. /\ Pi!post /\ comm.pc = "post" /\ Deliver(client_id)
      /\ UNCHANGED <<update_thread, client_id, timeouts>>
      /\ UNCHANGED <<server_playback_queue, current_song, next_song>>
  BY DEF postStatus, Pi!post, Pi!songs
<1>3. comm.msg \in Pi!Message /\ comm.msg.id \in Song
  BY <1>1, <1>2 DEF MessageTypes, Pi!Message
<1>4. \/ comm.msg.status = "Playing" /\ statusPlaying(client_id, comm.msg.id)
      \/ comm.msg.status = "Stopped" /\ statusStopped(client_id)
      \/ comm.msg.status = "Ready"   /\ statusReady(client_id, comm.msg.id)
  BY DEF postStatus
<1>5. client_id \in Speaker
  BY <1>1, <1>4 DEF statusPlaying, statusStopped, statusReady, Connected, TypeOK
<1>6. ServerInv' /\ (Keeps \/ Starts)
  BY <1>1, <1>3, <1>4, <1>5, ServerStep
<1>7. UNCHANGED welcoming
  BY <1>4 DEF statusPlaying, statusStopped, statusReady, sessions
<1>8. comm.msg.status = "Playing" =>
         nextSong # NoSong /\ comm.msg.id = nextSong /\ current_song = nextSong
  BY <1>1, <1>2, <1>3, NoSongAssumption DEF PlayingOnce, Posts
<1>9. Tells(out'[client_id], client_id)
  BY <1>1, <1>3, <1>4, <1>5, <1>8, SpeakerRequestTells
<1>10. CASE Keeps
  <2>1. LinkInv'
    BY <1>1, <1>2, <1>7, <1>9, <1>10, ServerLink
  <2>2. Posts("Stopped") /\ activeSong # NoSong => status'[activeSong] = "Stopped"
    BY <1>1, <1>4 DEF Posts, statusStopped, TypeOK
  <2>3. SpeakerInv'
    BY <1>1, <1>2, <1>10, <2>2, PostStep
  <2> QED BY <1>6, <2>1, <2>3 DEF PartyInv
<1>11. CASE Starts
  <2>1. activeSong' # activeSong
    BY <1>1, <1>11 DEF Starts, NextSongIsAnother, ServerInv
  <2>2. comm.msg.status = "Playing"
    BY <1>4, <2>1 DEF statusStopped, statusReady, db
  <2>3. Posts("Playing") /\ ~Posts("Stopped")
    BY <1>2, <2>2 DEF Posts
  <2>4. UNCHANGED mailbox
    <3>1. out' = Nothing
      BY <1>4, <1>8, <2>2 DEF statusPlaying
    <3>2. out'[client_id] = << >>
      BY <1>5, <3>1, OutNothing
    <3> QED BY <1>2, <3>2 DEF Deliver, queueUpdates
  <2>5. LinkInv'
    BY <1>1, <1>2, <1>7, <1>8, <1>11, <2>2, <2>4, StartLink DEF link
  <2>6. SpeakerInv'
    BY <1>1, <1>2, <1>11, <2>3, PostStep
  <2> QED BY <1>6, <2>5, <2>6 DEF PartyInv
<1> QED BY <1>6, <1>10, <1>11

\* The second half of Ready, the timer and the phone clients.
LEMMA ServerTasksStep ==
    ASSUME PartyInv, ~overtaken',
           \/ \E p \in Speaker : readyHandled(p)
           \/ \E k \in TaskKind : timerStarts(k)
           \/ timerRuns \/ userRequests
    PROVE  PartyInv'
<1>1. ServerInv /\ ThreadInv /\ NextSongIsAnother
  BY DEF PartyInv, LinkInv, ServerInv
<1>2. /\ Deliver(client_id) /\ SpeakerIdle /\ UNCHANGED <<update_thread, client_id, timeouts>>
  BY DEF readyHandled, timerStarts, timerRuns, userRequests, ByServer
<1>3. \/ \E p \in Speaker : answerReady(p)
      \/ TimerStep
      \/ \E u \in User : UserRequest(u)
  BY DEF readyHandled, timerStarts, timerRuns, userRequests, TimerStep
<1>4. ServerInv' /\ (Keeps \/ Starts)
  BY <1>1, <1>3, ServerStep
<1>5. UNCHANGED <<activeSong, welcoming>>
  <2>1. ASSUME NEW p \in Speaker, answerReady(p) PROVE UNCHANGED <<activeSong, welcoming>>
    BY <2>1 DEF answerReady, sessions
  <2>2. CASE TimerStep
    BY <2>2 DEF TimerStep, startTask, runEndOfSong, runReminder, queryReminder, storeReminder,
              tellReminder, runStop, sessions
  <2>3. ASSUME NEW u \in User, UserRequest(u) PROVE UNCHANGED <<activeSong, welcoming>>
    BY <2>3 DEF UserRequest, createUserSession, destroyUserSession, countDislikes, decideSkip, vote, like, dislike,
                sessions
  <2> QED BY <1>3, <2>1, <2>2, <2>3
<1>6. Keeps
  BY <1>1, <1>4, <1>5, KeepsActive
<1>7. client_id \in Speaker => Tells(out'[client_id], client_id)
  BY <1>1, <1>3, SpeakerRequestTells, TimerTells, UserRequestTells
<1> QED BY <1>2, <1>4, <1>5, <1>6, <1>7, ByServerStep

\* A poll that times out, a channel found closed, a restart.
LEMMA FaultSteps ==
    ASSUME PartyInv, pollTimesOut \/ noticeClosed \/ restart
    PROVE  PartyInv'
<1>1. ServerInv /\ LinkInv /\ SpeakerInv
  BY DEF PartyInv
<1>2. CASE pollTimesOut
  <2>1. ServerIdle /\ UNCHANGED speaker
    BY <1>2 DEF pollTimesOut, SpeakerIdle
  <2> QED BY <1>1, <1>2, <2>1, TimeoutLink, ByLinkStep DEF speaker
<1>3. CASE noticeClosed
  <2>1. ServerIdle /\ UNCHANGED speaker
    BY <1>3 DEF noticeClosed, SpeakerIdle
  <2> QED BY <1>1, <1>3, <2>1, NoticeLink, ByLinkStep DEF speaker
<1>4. CASE restart
  <2>1. ServerIdle
    BY <1>4 DEF restart
  <2> QED BY <1>1, <1>4, <2>1, RestartLink, RestartStep, ServerIdleStep DEF PartyInv
<1> QED BY <1>2, <1>3, <1>4

\* All steps together.
LEMMA PartyInvStep ==
    ASSUME PartyInv, ~overtaken', [PartyNext]_allVars
    PROVE  PartyInv'
<1>1. CASE PartyNext
  BY <1>1, UpdateThreadStep, SpeakerSteps, PostStatusStep, ServerTasksStep, FaultSteps DEF PartyNext
<1>2. CASE UNCHANGED allVars
  <2> USE DEF allVars, vars, speaker, link, db, timer, reminder, faults, sessions, handlers
  <2>1. ServerInv'
    BY <1>2 DEF PartyInv, ServerInv, IInv, TypeOK, OneActiveSong, Marked,
                NoSkipBeforeFirstSong, ReminderHolds, TornByFailure, TornIsNext, NextSongIsAnother,
                HandlersInv
  <2>2. LinkInv'
    BY <1>2 DEF PartyInv, LinkInv, ThreadInv, SongsFit, UpdatesFit, Updates
  <2>3. SpeakerInv'
    <3> USE DEF Queued, Entry, Says, Posts
    <3>1. MessageTypes' /\ PlayingOnce' /\ FetchInv' /\ ReadyInv'
      BY <1>2 DEF PartyInv, SpeakerInv, MessageTypes, PlayingOnce, FetchInv, ReadyInv
    <3>2. SharedInv' /\ StoppedFollows' /\ StopReported'
      BY <1>2 DEF PartyInv, SpeakerInv, SharedInv, StoppedFollows, StopReported
    <3> QED BY <3>1, <3>2 DEF SpeakerInv
  <2> QED BY <2>1, <2>2, <2>3 DEF PartyInv
<1> QED BY <1>1, <1>2

-----------------------------------------------------------------------------
(***************************************************************************)
(* What holds of server and speaker together until a reminder is overtaken,*)
(* which stays remembered.                                                 *)
(***************************************************************************)
LEMMA OvertakenStays == ASSUME overtaken, [PartyNext]_allVars PROVE overtaken'
<1>1. ASSUME UNCHANGED reminder PROVE overtaken'
  BY <1>1 DEF reminder
<1>2. CASE ServerIdle
  BY <1>2 DEF ServerIdle, vars, timer, reminder
<1>3. CASE connected \/ \E p \in Speaker : connect(p) \/ readyHandled(p)
  BY <1>3 DEF connected, connect, readyHandled, authenticate, createSession, answerReady, timer,
              reminder
<1>4. CASE postStatus
  BY <1>4 DEF postStatus, statusPlaying, statusStopped, statusReady, timer, reminder
<1>5. CASE userRequests
  BY <1>1, <1>5 DEF userRequests, UserRequest, createUserSession, destroyUserSession, countDislikes,
                    decideSkip, vote, like, dislike, timer
<1>6. CASE timerRuns \/ \E k \in TaskKind : timerStarts(k)
  BY <1>6 DEF timerRuns, timerStarts, startTask, runEndOfSong, runStop, runReminder, queryReminder,
              storeReminder, tellReminder, reminder
<1>7. CASE UNCHANGED allVars
  BY <1>7 DEF allVars, vars, timer, reminder
<1> QED BY <1>2, <1>3, <1>4, <1>5, <1>6, <1>7
        DEF PartyNext, UpdateThread, PlaybackSteps, CommSteps, songEnds, requestUpdate,
            updateReceived, pollTimesOut, noticeClosed, restart

\* The inductive invariant: updates on their way name songs of now, and what
\* the speaker has queued agrees with what the server expects.
THEOREM PartyInvariance == PartySpec => [](overtaken \/ PartyInv)
<1>1. PartyInit => overtaken \/ PartyInv
  BY PartyInvInit
<1>2. (overtaken \/ PartyInv) /\ [PartyNext]_allVars => overtaken' \/ PartyInv'
  BY PartyInvStep, OvertakenStays
<1> QED BY <1>1, <1>2, PTL DEF PartySpec

\* The speaker plays the server's active song or, until the server has heard
\* of it, its next one, although updates are coalesced, lost and late and the
\* transaction that starts a song may fail, until a reminder is overtaken.
THEOREM SpeakerPlaysChosenTheorem == PartySpec => []SpeakerPlaysChosen
<1>1. overtaken \/ PartyInv => SpeakerPlaysChosen
  BY DEF PartyInv, LinkInv, SongsFit, SpeakerInv, MessageTypes, SpeakerPlaysChosen
<1> QED BY <1>1, PartyInvariance, PTL

\* A Playing that is under way names the server's next song, so that the
\* server never has to correct the speaker, until a reminder is overtaken.
THEOREM PlayingIsExpectedTheorem == PartySpec => []PlayingIsExpected
<1>1. overtaken \/ PartyInv => PlayingIsExpected
  BY DEF PartyInv, SpeakerInv, PlayingOnce, PlayingIsExpected, Queued, Entry, Posts
<1> QED BY <1>1, PartyInvariance, PTL

\* A Ready names a song whose file is there, whatever song the communication
\* thread has marked, until a reminder is overtaken.
THEOREM ReadyIsOnDiskTheorem == PartySpec => []ReadyIsOnDisk
<1>1. overtaken \/ PartyInv => ReadyIsOnDisk
  BY DEF PartyInv, SpeakerInv, ReadyInv, ReadyIsOnDisk, Posts
<1> QED BY <1>1, PartyInvariance, PTL

\* Until the server has heard that the active song has stopped, a Stopped is
\* queued or posted: nothing writes over it in the dictionary of playback_func,
\* until a reminder is overtaken.
THEOREM EndIsReportedTheorem == PartySpec => []EndIsReported
<1>1. overtaken \/ PartyInv => EndIsReported
  BY DEF PartyInv, SpeakerInv, StopReported, EndIsReported, Queued, Entry, Says, Posts
<1> QED BY <1>1, PartyInvariance, PTL

\* If pygame's event queue has room for an event, a speaker that takes a song
\* for playing plays it or has its end in the event queue, until a reminder is
\* overtaken.
THEOREM NotWedgedTheorem == ASSUME MaxEvents > 0 PROVE PartySpec => []NotWedged
<1> DEFINE WInv == endEvents \in Nat /\ NotWedged
<1>1. PartyInit => WInv
  BY DEF PartyInit, Pi!Init, NotWedged
<1>2. ASSUME PartyInv, ~overtaken', WInv, [PartyNext]_allVars PROVE WInv'
  <2>0. ~overtaken
    BY <1>2 DEF PartyInv, ServerInv
  <2>1. MaxEvents \in Nat
    BY PartyAssumption
  <2>2. CASE UNCHANGED speaker
    BY <1>2, <2>0, <2>2 DEF speaker, NotWedged
  <2>3. CASE UNCHANGED <<music, endEvents, current_song, current_song_state>>
    BY <1>2, <2>0, <2>3 DEF NotWedged
  <2>4. CASE Pi!playback
    <3> DEFINE u == Head(server_playback_queue)
               s == u.song
    <3>1. ThreadInv /\ ReadyInv
      BY <1>2 DEF PartyInv, LinkInv, SpeakerInv
    <3>2. s \in Song
      BY <2>4, <3>1, HeadOfQueue DEF Pi!playback, Pi!Update, Pi!Upcoming, Pi!Play, Pi!Stop
    <3> HIDE DEF s
    <3>3. CASE Pi!handle_play_command(s)
      BY <1>2, <2>0, <3>1, <3>2, <3>3, NoSongAssumption
         DEF Pi!handle_play_command, Pi!songs, Pi!mixer, ReadyInv, NotWedged
    <3>4. CASE Pi!handle_stop_command(s)
      BY <1>2, <2>0, <2>1, <3>4 DEF Pi!handle_stop_command, Pi!songs, Pi!mixer, Pi!postEnd, NotWedged
    <3>5. CASE Pi!handle_upcoming_song_update(s)
      BY <1>2, <2>0, <3>5 DEF Pi!handle_upcoming_song_update, Pi!mixer, NotWedged
    <3> QED BY <2>4, <3>3, <3>4, <3>5 DEF Pi!playback, s
  <2>5. CASE Pi!pollEvent
    BY <1>2, <2>0, <2>5 DEF Pi!pollEvent, NotWedged
  <2>6. CASE Pi!songEnds
    BY <1>2, <2>0, <2>1, <2>6 DEF Pi!songEnds, Pi!songs, Pi!postEnd, NotWedged
  <2>7. CASE restart
    BY <2>7 DEF restart, Pi!restart, NotWedged
  <2>8. CASE updateReceived \/ CommSteps \/ postStatus
    BY <2>3, <2>8 DEF updateReceived, CommSteps, postStatus, Pi!receive, Pi!communicate,
                      Pi!handle_need_song, Pi!answered, Pi!post, Pi!songs, Pi!mixer
  <2>9. CASE \/ connected \/ requestUpdate \/ (\E p \in Speaker : connect(p))
             \/ pollTimesOut \/ noticeClosed
    BY <2>2, <2>9 DEF connected, requestUpdate, connect, pollTimesOut, noticeClosed, SpeakerIdle
  <2>10. CASE \/ \E p \in Speaker : readyHandled(p)
              \/ \E k \in TaskKind : timerStarts(k)
              \/ timerRuns \/ userRequests
    BY <2>2, <2>10 DEF readyHandled, timerStarts, timerRuns, userRequests, ByServer, SpeakerIdle
  <2>11. CASE UNCHANGED allVars
    BY <2>2, <2>11 DEF allVars
  <2> HIDE DEF WInv
  <2> QED BY <1>2, <2>0, <2>4, <2>5, <2>6, <2>7, <2>8, <2>9, <2>10, <2>11
          DEF PartyNext, UpdateThread, PlaybackSteps, songEnds, Pi!PlaybackThread
<1>4. (overtaken \/ (PartyInv /\ WInv)) => NotWedged
  BY DEF NotWedged
<1> HIDE DEF WInv
<1>5. PartyInit => overtaken \/ (PartyInv /\ WInv)
  BY <1>1, PartyInvInit
<1>6. (overtaken \/ (PartyInv /\ WInv)) /\ [PartyNext]_allVars => overtaken' \/ (PartyInv' /\ WInv')
  BY <1>2, PartyInvStep, OvertakenStays
<1> QED BY <1>4, <1>5, <1>6, PTL DEF PartySpec
=============================================================================
