----------------------------- MODULE LibraryProofs -----------------------------
(***************************************************************************)
(* Proofs about Library for any number of folders, files and changes.      *)
(***************************************************************************)
EXTENDS Library, SequenceTheorems, WellFoundedInduction, TLAPS

-----------------------------------------------------------------------------
(***************************************************************************)
(* Listings and walks.                                                     *)
(***************************************************************************)
Walks == [Folder -> Listing]

LEMMA ConstantTypes ==
    /\ Folders \in Nat /\ Folders >= 1 /\ Mp3 \subseteq File /\ MaxFiles \in Nat /\ MaxChanges \in Nat
    /\ Folder = 1..Folders
    /\ \A d \in Folder : Last[d] \in Folder /\ d <= Last[d]
BY LibraryAssumption DEF Folder

\* A listing is a short sequence that names no file twice.
LEMMA ListingType ==
    ASSUME NEW fs \in Listing
    PROVE  /\ fs \in Seq(File) /\ Len(fs) \in 0..MaxFiles /\ DOMAIN fs = 1..Len(fs)
           /\ \A k \in 1..Len(fs) : fs[k] \in File
           /\ \A k, l \in 1..Len(fs) : fs[k] = fs[l] => k = l
<1>1. PICK n \in 0..MaxFiles : fs \in [1..n -> File]
  BY DEF Listing
<1>2. n \in Nat
  BY ConstantTypes
<1>3. fs \in Seq(File) /\ Len(fs) = n /\ DOMAIN fs = 1..n
  BY <1>1, <1>2
<1>4. \A k, l \in 1..n : fs[k] = fs[l] => k = l
  BY <1>3 DEF Listing
<1> QED BY <1>1, <1>3, <1>4

LEMMA EmptyListing == <<>> \in Listing
<1>1. <<>> \in [1..0 -> File] /\ DOMAIN <<>> = {}
  BY EmptySeq
<1>2. 0 \in 0..MaxFiles
  BY ConstantTypes
<1> QED BY <1>1, <1>2 DEF Listing

\* A walk is always before or after another path that it finds, never both.
LEMMA BeforeAsymmetric ==
    ASSUME NEW w \in Walks, NEW p \in Folder \X File, NEW q \in Folder \X File,
           Before(w, p, q), Before(w, q, p)
    PROVE  FALSE
<1>1. p[1] \in Folder /\ q[1] \in Folder
  OBVIOUS
<1>2. p[1] = q[1]
  <2>1. p[1] \in Int /\ q[1] \in Int
    BY <1>1, ConstantTypes
  <2>2. \/ p[1] < q[1]
        \/ p[1] = q[1]
    BY DEF Before
  <2>3. \/ q[1] < p[1]
        \/ p[1] = q[1]
    BY DEF Before
  <2> QED BY <2>1, <2>2, <2>3
<1> DEFINE fs == w[p[1]]
<1>3. fs \in Listing
  BY <1>1 DEF Walks
<1>d. ~(p[1] < q[1]) /\ ~(q[1] < p[1])
  BY <1>1, <1>2, ConstantTypes
<1>4. PICK k \in DOMAIN fs, l \in DOMAIN fs : k < l /\ fs[k] = p[2] /\ fs[l] = q[2]
  BY <1>2, <1>d DEF Before
<1>5. PICK m \in DOMAIN fs, n \in DOMAIN fs : m < n /\ fs[m] = q[2] /\ fs[n] = p[2]
  BY <1>2, <1>d DEF Before
<1> HIDE DEF fs
<1>6. Len(fs) \in Nat /\ DOMAIN fs = 1..Len(fs) /\ \A a, b \in 1..Len(fs) : fs[a] = fs[b] => a = b
  BY <1>3, ListingType, ConstantTypes
<1>7. k = n /\ l = m
  BY <1>4, <1>5, <1>6
<1> QED BY <1>4, <1>5, <1>6, <1>7

\* Two results of a walk that agree up to a place: what one has there the
\* other has further on, if it does not have it there, too.
LEMMA WalkFollows ==
    ASSUME NEW w \in Walks, NEW s \in Seq(Path), NEW t \in Seq(Path), IsWalk(s, w), IsWalk(t, w),
           NEW x \in 1..Len(s), x \in 1..Len(t), s[x] # t[x],
           \A y \in 1..Len(s) : y < x => s[y] = t[y]
    PROVE  \E y \in 1..Len(s) : s[y] = t[x] /\ x < y
<1>1. /\ Len(s) \in Nat /\ DOMAIN s = 1..Len(s)
      /\ Len(t) \in Nat /\ DOMAIN t = 1..Len(t)
  BY LenProperties
<1>2. {s[j] : j \in 1..Len(s)} = {t[j] : j \in 1..Len(t)}
  BY <1>1 DEF IsWalk
<1>3. PICK y \in 1..Len(s) : s[y] = t[x]
  BY <1>2
<1>4. CASE y < x
  <2>1. t[y] = t[x] /\ y \in 1..Len(t)
    BY <1>1, <1>3, <1>4
  <2>2. Before(w, t[y], t[x])
    BY <1>1, <1>4, <2>1 DEF IsWalk
  <2>3. t[x] \in Folder \X File
    BY ElementOfSeq DEF Path
  <2> QED BY <2>1, <2>2, <2>3, BeforeAsymmetric
<1>5. y # x
  BY <1>3
<1> QED BY <1>1, <1>3, <1>4, <1>5

\* A walk determines what is found: the listings leave no choice. (By the
\* first place where two results of one walk differ.)
LEMMA WalkUnique ==
    ASSUME NEW w \in Walks, NEW s \in Seq(Path), NEW t \in Seq(Path), IsWalk(s, w), IsWalk(t, w),
           NEW j \in 1..Len(s), j \in 1..Len(t)
    PROVE  s[j] = t[j]
<1> SUFFICES ASSUME s[j] # t[j] PROVE FALSE
  OBVIOUS
<1> DEFINE Differ == {k \in 1..Len(s) : k \in 1..Len(t) /\ s[k] # t[k]}
<1>1. PICK x \in Differ : \A y \in Differ : ~(y < x)
  <2> DEFINE R == OpToRel(<, Nat)
  <2>1. Differ \subseteq Nat /\ Differ # {}
    OBVIOUS
  <2>2. IsWellFoundedOn(R, Nat)
    BY NatLessThanWellFounded
  <2> HIDE DEF R, Differ
  <2>3. PICK x \in Differ : \A y \in Differ : ~(<<y, x>> \in R)
    BY <2>1, <2>2, WFMin
  <2>4. \A y \in Differ : ~(y < x)
    BY <2>1, <2>3 DEF R, OpToRel
  <2> QED BY <2>4
<1>2. /\ x \in 1..Len(s) /\ x \in 1..Len(t) /\ s[x] # t[x]
      /\ \A y \in 1..Len(s) : y < x => s[y] = t[y]
  <2>1. Len(s) \in Nat /\ Len(t) \in Nat
    BY LenProperties
  <2>2. x \in 1..Len(s) /\ x \in 1..Len(t) /\ s[x] # t[x]
    OBVIOUS
  <2>3. ASSUME NEW y \in 1..Len(s), y < x PROVE s[y] = t[y]
    <3>1. y \in 1..Len(t) /\ y \notin Differ
      BY <1>1, <2>1, <2>2, <2>3
    <3> QED BY <3>1
  <2> QED BY <2>2, <2>3
<1> HIDE DEF Differ
<1>3. \E y \in 1..Len(s) : s[y] = t[x] /\ x < y
  BY <1>2, WalkFollows
<1>4. \E y \in 1..Len(t) : t[y] = s[x] /\ x < y
  BY <1>2, WalkFollows
<1>5. PICK y \in 1..Len(s) : s[y] = t[x] /\ x < y
  BY <1>3
<1>6. PICK z \in 1..Len(t) : t[z] = s[x] /\ x < z
  BY <1>4
<1>7. Before(w, s[x], t[x]) /\ Before(w, t[x], s[x])
  BY <1>2, <1>5, <1>6, LenProperties DEF IsWalk
<1>8. s[x] \in Folder \X File /\ t[x] \in Folder \X File
  BY <1>2, ElementOfSeq DEF Path
<1> QED BY <1>7, <1>8, BeforeAsymmetric

-----------------------------------------------------------------------------
(***************************************************************************)
(* A crawl in progress: i folders listed, the files todo of the last one   *)
(* not looked at yet, the rows inserted.                                   *)
(***************************************************************************)
\* What is left of folder i, if it was listed as in w.
Left(w, i, todo) ==
    IF i = 0 THEN todo = <<>>
    ELSE /\ Len(todo) <= Len(w[i])
         /\ \A k \in 1..Len(todo) : todo[k] = w[i][Len(w[i]) - Len(todo) + k]

\* The walk through w has passed path p.
Passed(w, i, todo, p) ==
    \/ p[1] < i /\ In(p[2], w[p[1]])
    \/ p[1] = i /\ \E k \in 1..Len(w[i]) - Len(todo) : w[i][k] = p[2]

\* The rows are what a walk through w has found so far.
SoFar(w, i, todo, rows) ==
    /\ Left(w, i, todo)
    /\ {rows[j] : j \in 1..Len(rows)} = {p \in Folder \X Mp3 : Passed(w, i, todo, p)}
    /\ \A j, k \in 1..Len(rows) : j < k => Before(w, rows[j], rows[k])

LEMMA SoFarStart ==
    ASSUME NEW i \in Nat, NEW w, \A f \in 1..i : w[f] = <<>>
    PROVE  SoFar(w, i, <<>>, <<>>)
<1>0. Len(<<>>) = 0 /\ DOMAIN <<>> = {}
  BY EmptySeq
<1>1. Left(w, i, <<>>)
  <2>1. CASE i = 0
    BY <2>1 DEF Left
  <2>2. CASE i # 0
    <3>1. w[i] = <<>>
      BY <2>2
    <3> QED BY <1>0, <2>2, <3>1 DEF Left
  <2> QED BY <2>1, <2>2
<1>2. ASSUME NEW p \in Folder \X Mp3 PROVE ~Passed(w, i, <<>>, p)
  <2>1. p[1] \in 1..Folders /\ p[1] \in Nat /\ p[1] >= 1
    BY ConstantTypes
  <2>2. CASE p[1] < i
    <3>1. w[p[1]] = <<>>
      BY <2>1, <2>2
    <3> QED BY <1>0, <2>2, <3>1 DEF Passed, In
  <2>3. CASE p[1] = i
    <3>1. w[i] = <<>>
      BY <2>1, <2>3
    <3> QED BY <1>0, <2>3, <3>1 DEF Passed
  <2>4. CASE p[1] > i
    BY <2>1, <2>4 DEF Passed
  <2> QED BY <2>1, <2>2, <2>3, <2>4
<1> QED BY <1>0, <1>1, <1>2 DEF SoFar

\* Before looks at one folder only.
LEMMA BeforeLocal ==
    ASSUME NEW v, NEW w, NEW p, NEW q, v[p[1]] = w[p[1]], Before(v, p, q)
    PROVE  Before(w, p, q)
BY DEF Before

\* os.walk lists the next folder.
LEMMA SoFarList ==
    ASSUME NEW w \in Walks, NEW i \in 0..Folders - 1, NEW rows \in Seq(Path), NEW d \in Listing,
           SoFar(w, i, <<>>, rows)
    PROVE  SoFar([w EXCEPT ![i + 1] = d], i + 1, d, rows)
<1> DEFINE v == [w EXCEPT ![i + 1] = d]
<1>0. /\ i \in Nat /\ i + 1 \in Folder /\ i + 1 # 0
      /\ Len(rows) \in Nat /\ Len(d) \in Nat /\ Len(<<>>) = 0
      /\ v[i + 1] = d /\ \A f \in Folder : f # i + 1 => v[f] = w[f]
  BY ConstantTypes, ListingType, LenProperties, EmptySeq DEF Walks
<1>c. ASSUME NEW f \in 1..i PROVE f \in Folder /\ f \in Int /\ w[f] \in Listing /\ v[f] = w[f]
  BY <1>0, ConstantTypes DEF Walks
<1> HIDE DEF v
<1>1. Left(v, i + 1, d)
  BY <1>0 DEF Left
<1>2. ASSUME NEW p \in Folder \X Mp3
      PROVE  Passed(v, i + 1, d, p) <=> Passed(w, i, <<>>, p)
  <2>1. p[1] \in Folder /\ p[1] \in Int /\ p[1] >= 1
    BY ConstantTypes
  <2>2. CASE p[1] < i
    <3>1. v[p[1]] = w[p[1]]
      BY <1>c, <2>1, <2>2
    <3> QED BY <1>0, <2>1, <2>2, <3>1 DEF Passed
  <2>3. CASE p[1] = i
    <3>1. v[i] = w[i] /\ DOMAIN w[i] = 1..Len(w[i]) /\ Len(w[i]) \in Nat
      BY <1>c, <2>1, <2>3, ListingType
    <3>2. Passed(v, i + 1, d, p) <=> In(p[2], w[i])
      BY <1>0, <2>1, <2>3, <3>1 DEF Passed
    <3>3. Passed(w, i, <<>>, p) <=> \E k \in 1..Len(w[i]) : w[i][k] = p[2]
      BY <1>0, <2>1, <2>3, <3>1 DEF Passed
    <3> QED BY <3>1, <3>2, <3>3 DEF In
  <2>4. CASE p[1] = i + 1
    <3>1. Len(v[i + 1]) - Len(d) = 0
      BY <1>0
    <3> QED BY <1>0, <2>1, <2>4, <3>1 DEF Passed
  <2>5. CASE p[1] > i + 1
    BY <1>0, <2>1, <2>5 DEF Passed
  <2> QED BY <1>0, <2>1, <2>2, <2>3, <2>4, <2>5
<1>3. ASSUME NEW j \in 1..Len(rows), NEW k \in 1..Len(rows), j < k
      PROVE  Before(v, rows[j], rows[k])
  <2>1. Before(w, rows[j], rows[k])
    BY <1>3 DEF SoFar
  <2>2. Passed(w, i, <<>>, rows[j]) /\ rows[j] \in Folder \X Mp3
    BY DEF SoFar
  <2>3. rows[j][1] \in 1..i
    BY <1>0, <2>2, ConstantTypes DEF Passed
  <2>4. v[rows[j][1]] = w[rows[j][1]]
    BY <1>c, <2>3
  <2> QED BY <2>1, <2>4, BeforeLocal
<1>4. {rows[j] : j \in 1..Len(rows)} = {p \in Folder \X Mp3 : Passed(v, i + 1, d, p)}
  BY <1>2 DEF SoFar
<1> QED BY <1>1, <1>3, <1>4 DEF SoFar, v

\* A file is looked at, and inserted if it is an .mp3.
LEMMA SoFarInsert ==
    ASSUME NEW w \in Walks, NEW i \in Folder, NEW rows \in Seq(Path),
           NEW todo \in Seq(File), todo # <<>>, SoFar(w, i, todo, rows)
    PROVE  LET f == Head(todo)
           IN  /\ f \in Mp3 => SoFar(w, i, Tail(todo), Append(rows, <<i, f>>))
               /\ f \notin Mp3 => SoFar(w, i, Tail(todo), rows)
<1> DEFINE f == Head(todo)
           fs == w[i]
           n == Len(fs) - Len(todo)
           more == Append(rows, <<i, f>>)
<1>1. /\ Len(fs) \in Nat /\ DOMAIN fs = 1..Len(fs)
      /\ \A k, l \in 1..Len(fs) : fs[k] = fs[l] => k = l
      /\ i # 0 /\ i \in Int
  BY ListingType, ConstantTypes DEF Walks
<1>2. /\ f \in File /\ Len(todo) \in Nat /\ Len(todo) >= 1 /\ f = todo[1]
      /\ Tail(todo) \in Seq(File) /\ Len(Tail(todo)) = Len(todo) - 1
      /\ \A k \in 1..Len(todo) - 1 : Tail(todo)[k] = todo[k + 1]
  OBVIOUS
<1>3. /\ Len(todo) <= Len(fs)
      /\ \A k \in 1..Len(todo) : todo[k] = fs[n + k]
  BY <1>1 DEF SoFar, Left
<1>4. n \in Nat /\ n + 1 \in 1..Len(fs) /\ fs[n + 1] = f
  <2> HIDE DEF f, fs
  <2>1. n \in Nat /\ n + 1 \in 1..Len(fs)
    BY <1>1, <1>2, <1>3
  <2>2. todo[1] = fs[n + 1] /\ f = todo[1]
    <3> HIDE DEF n
    <3> QED BY <1>2, <1>3
  <2> QED BY <2>1, <2>2
<1>5. Len(fs) - Len(Tail(todo)) = n + 1
  BY <1>1, <1>2
<1>6. Left(w, i, Tail(todo))
  <2>1. ASSUME NEW k \in 1..Len(Tail(todo)) PROVE Tail(todo)[k] = fs[n + 1 + k]
    <3> HIDE DEF f, fs, n
    <3>1. k + 1 \in 1..Len(todo) /\ n + (k + 1) = n + 1 + k
      <4>1. Len(todo) \in Nat /\ Len(Tail(todo)) = Len(todo) - 1 /\ n \in Nat
        BY <1>2, <1>4
      <4> QED BY <4>1
    <3>2. todo[k + 1] = fs[n + (k + 1)]
      BY <1>3, <3>1
    <3> QED BY <1>2, <3>1, <3>2
  <2>2. Len(Tail(todo)) <= Len(fs)
    BY <1>1, <1>2, <1>3
  <2> QED BY <1>1, <1>5, <2>1, <2>2 DEF Left
<1>7. ASSUME NEW p \in Folder \X Mp3
      PROVE  Passed(w, i, Tail(todo), p) <=> Passed(w, i, todo, p) \/ p = <<i, f>>
  <2>1. CASE p[1] # i
    BY <2>1 DEF Passed
  <2>2. CASE p[1] = i
    <3>1. ~(p[1] < i)
      BY <1>1, <2>2
    <3>2. Passed(w, i, Tail(todo), p) <=> \E k \in 1..n + 1 : fs[k] = p[2]
      BY <1>5, <2>2, <3>1 DEF Passed
    <3>3. Passed(w, i, todo, p) <=> \E k \in 1..n : fs[k] = p[2]
      BY <2>2, <3>1 DEF Passed
    <3>4. p = <<i, f>> <=> p[2] = fs[n + 1]
      BY <1>4, <2>2
    <3>5. 1..n + 1 = (1..n) \cup {n + 1}
      BY <1>4
    <3> HIDE DEF n, f, fs
    <3> QED BY <3>2, <3>3, <3>4, <3>5
  <2> QED BY <2>1, <2>2
<1>8. CASE f \notin Mp3
  <2>1. \A p \in Folder \X Mp3 : Passed(w, i, Tail(todo), p) <=> Passed(w, i, todo, p)
    BY <1>7, <1>8
  <2>2. SoFar(w, i, Tail(todo), rows)
    BY <1>6, <2>1 DEF SoFar
  <2> QED BY <1>8, <2>2
<1>9. CASE f \in Mp3
  <2>1. <<i, f>> \in Path /\ <<i, f>> \in Folder \X Mp3
    BY <1>2, <1>9 DEF Path
  <2>2. /\ more \in Seq(Path) /\ Len(more) = Len(rows) + 1 /\ Len(rows) \in Nat
        /\ \A j \in 1..Len(rows) : more[j] = rows[j]
        /\ more[Len(rows) + 1] = <<i, f>>
    BY <2>1, AppendProperties, LenProperties
  <2>3. {more[j] : j \in 1..Len(more)} = {rows[j] : j \in 1..Len(rows)} \cup {<<i, f>>}
    <3>1. 1..Len(more) = (1..Len(rows)) \cup {Len(rows) + 1}
      BY <2>2
    <3> HIDE DEF more, f
    <3> QED BY <2>2, <3>1
  <2>4. {more[j] : j \in 1..Len(more)} = {p \in Folder \X Mp3 : Passed(w, i, Tail(todo), p)}
    <3>1. {rows[j] : j \in 1..Len(rows)} = {p \in Folder \X Mp3 : Passed(w, i, todo, p)}
      BY DEF SoFar
    <3> QED BY <1>7, <2>1, <2>3, <3>1
  <2>5. ASSUME NEW j \in 1..Len(rows) PROVE Before(w, rows[j], <<i, f>>)
    <3>1. rows[j] \in Folder \X Mp3 /\ Passed(w, i, todo, rows[j])
      BY DEF SoFar
    <3>2. CASE rows[j][1] < i
      <4>1. <<i, f>>[1] = i
        OBVIOUS
      <4> QED BY <3>2, <4>1 DEF Before
    <3>3. CASE rows[j][1] = i /\ \E k \in 1..n : fs[k] = rows[j][2]
      <4>1. PICK k \in 1..n : fs[k] = rows[j][2]
        BY <3>3
      <4>2. k \in DOMAIN fs /\ n + 1 \in DOMAIN fs /\ k < n + 1
        BY <1>1, <1>4
      <4> QED BY <1>4, <3>3, <4>1, <4>2 DEF Before
    <3> QED BY <3>1, <3>2, <3>3 DEF Passed
  <2>6. ASSUME NEW j \in 1..Len(more), NEW k \in 1..Len(more), j < k
        PROVE  Before(w, more[j], more[k])
    <3>1. j \in 1..Len(rows) /\ (k \in 1..Len(rows) \/ k = Len(rows) + 1)
      BY <2>2, <2>6
    <3> HIDE DEF more
    <3>2. CASE k \in 1..Len(rows)
      BY <2>2, <2>6, <3>1, <3>2 DEF SoFar
    <3>3. CASE k = Len(rows) + 1
      BY <2>2, <2>5, <3>1, <3>3
    <3> QED BY <3>1, <3>2, <3>3
  <2>7. SoFar(w, i, Tail(todo), more)
    BY <1>6, <2>4, <2>6 DEF SoFar
  <2> QED BY <1>9, <2>7
<1> QED BY <1>8, <1>9

\* At the end of the walk the rows are the whole of it.
LEMMA SoFarEnd ==
    ASSUME NEW w \in Walks, NEW rows \in Seq(Path), NEW i \in Folder, SoFar(w, i, <<>>, rows),
           \A f \in Folder : f > i => w[f] = <<>>
    PROVE  IsWalk(rows, w)
<1>1. DOMAIN rows = 1..Len(rows) /\ Len(<<>>) = 0
  BY LenProperties, EmptySeq
<1>2. ASSUME NEW p \in Folder \X Mp3
      PROVE  Passed(w, i, <<>>, p) <=> In(p[2], w[p[1]])
  <2>1. p[1] \in Folder /\ p[1] \in Int /\ i \in Int
    BY ConstantTypes
  <2>2. DOMAIN w[p[1]] = 1..Len(w[p[1]]) /\ Len(w[p[1]]) \in Nat
    BY <2>1, ListingType DEF Walks
  <2>3. CASE p[1] < i
    BY <2>1, <2>3 DEF Passed
  <2>4. CASE p[1] = i
    <3>1. ~(p[1] < i) /\ Len(w[i]) - Len(<<>>) = Len(w[i])
      BY <1>1, <2>1, <2>2, <2>4
    <3> QED BY <2>2, <2>4, <3>1 DEF Passed, In
  <2>5. CASE p[1] > i
    <3>1. w[p[1]] = <<>> /\ DOMAIN <<>> = {}
      BY <2>1, <2>5, EmptySeq
    <3> QED BY <2>1, <2>5, <3>1 DEF Passed, In
  <2> QED BY <2>1, <2>3, <2>4, <2>5
<1> QED BY <1>1, <1>2 DEF SoFar, IsWalk

-----------------------------------------------------------------------------
(***************************************************************************)
(* The inductive invariant.                                                *)
(***************************************************************************)
\* The listings w of the folders from d to i have been theirs; the others
\* are empty.
Listed(w, d, i) == \A f \in Folder : w[f] \in IF f \in d..i THEN past[f] ELSE {<<>>}

\* The crawl is in the tree of folder d.
Within(d) == crawler.folder \in d - 1..Last[d] /\ crawler.last = Last[d]

\* A crawl has found what a walk finds up to here, in listings each of which
\* its folder has had, and there is an id for every row that can still come.
CrawlInv ==
    /\ crawler.pc # "walk" => crawler.todo = <<>> /\ crawler.rows = <<>>
    /\ crawler.pc = "idle" => crawler = NoCrawl
    /\ crawler.pc = "create" => \E d \in roots : crawler.folder = d - 1 /\ crawler.last = Last[d]
    /\ crawler.pc = "walk" =>
          /\ \E d \in roots, w \in Walks : /\ Within(d) /\ Listed(w, d, crawler.folder)
                                         /\ SoFar(w, crawler.folder, crawler.todo, crawler.rows)
          /\ Len(crawler.rows) + Len(crawler.todo) <= crawler.folder * MaxFiles

\* The committed table is missing or empty while a crawl is under way, and a
\* whole crawl or empty otherwise.
TableInv ==
    /\ crawler.pc = "create" => music = NoTable /\ server # "loading"
    /\ crawler.pc = "walk" => music = <<>>
    /\ music # NoTable => (music = <<>> \/ Whole(music)) /\ Len(music) <= Folders * MaxFiles

\* What the server has read is the beginning of a table that stays as it is.
LoadInv ==
    /\ server = "loading" =>
          music # NoTable /\ Len(songs) <= Len(music) /\ \A j \in 1..Len(songs) : songs[j] = music[j]
    /\ server = "up" => Len(songs) <= Folders * MaxFiles

\* What is in folder d, and nothing else.
Under(d) == [i \in Folder |-> IF i \in Tree(d) THEN dir[i] ELSE <<>>]

\* The files a speaker has kept come from a walk through the folders as they
\* are, unless these have changed or two of them were crawled.
KeptInv ==
    Unchanged =>
       \A id \in Id :
          \/ cache[id] = NoFile
          \/ \E d \in roots, s \in Seq(Path) :
                IsWalk(s, Under(d)) /\ id \in 1..Len(s) /\ cache[id] = s[id]

LibraryInv ==
    /\ TypeOK /\ \A i \in Folder : dir[i] \in past[i]
    /\ CrawlInv /\ TableInv /\ LoadInv /\ LoadIsWhole /\ KeptInv

-----------------------------------------------------------------------------
(***************************************************************************)
(* What the parts of the invariant depend on.                              *)
(***************************************************************************)
\* The past of a folder and the crawls only grow.
LEMMA WholeGrows ==
    ASSUME NEW s, Whole(s), \A i \in Folder : past[i] \subseteq past'[i], roots \subseteq roots'
    PROVE  Whole(s)'
BY DEF Whole, WholeOf

\* No crawl is under way.
LEMMA CrawlIdle ==
    ASSUME crawler' = NoCrawl
    PROVE  CrawlInv'
BY DEF CrawlInv, NoCrawl

\* Steps of others leave a crawl alone.
LEMMA CrawlSame ==
    ASSUME CrawlInv, crawler' = crawler, crawler.folder \in 0..Folders,
           \A i \in Folder : past[i] \subseteq past'[i], roots' = roots
    PROVE  CrawlInv'
<1>0. CASE crawler.pc # "walk"
  BY <1>0 DEF CrawlInv
<1> SUFFICES ASSUME crawler.pc = "walk" PROVE CrawlInv'
  BY <1>0
<1>1. PICK d \in roots, w \in Walks :
         /\ Within(d) /\ Listed(w, d, crawler.folder)
         /\ SoFar(w, crawler.folder, crawler.todo, crawler.rows)
  BY DEF CrawlInv
<1>2. Within(d)'
  BY <1>1 DEF Within
<1>3. Listed(w, d, crawler.folder)'
  BY <1>1 DEF Listed
<1>4. SoFar(w, crawler'.folder, crawler'.todo, crawler'.rows)
  BY <1>1
<1>5. Len(crawler'.rows) + Len(crawler'.todo) <= crawler'.folder * MaxFiles
  BY DEF CrawlInv
<1> QED BY <1>1, <1>2, <1>3, <1>4, <1>5 DEF CrawlInv

LEMMA LibraryInvInit == Init => LibraryInv
<1> SUFFICES ASSUME Init PROVE LibraryInv
  OBVIOUS
<1>1. TypeOK
  <2>1. dir \in [Folder -> Listing] /\ past \in [Folder -> SUBSET Listing]
    BY DEF Init
  <2>2. <<>> \in Seq(Path) /\ <<>> \in Seq(File)
    BY EmptySeq
  <2>3. crawler \in [pc : {"idle", "create", "walk"}, folder : 0..Folders,
                     last : 0..Folders, todo : Seq(File), rows : Seq(Path)]
    BY <2>2, ConstantTypes DEF Init, NoCrawl
  <2>4. cache \in [Id -> Path \cup {NoFile}] /\ changes \in 0..MaxChanges
    BY ConstantTypes DEF Init
  <2> QED BY <2>1, <2>2, <2>3, <2>4 DEF Init, TypeOK
<1>2. \A i \in Folder : dir[i] \in past[i]
  BY DEF Init
<1>3. CrawlInv /\ TableInv /\ LoadInv /\ LoadIsWhole
  BY DEF Init, NoCrawl, CrawlInv, TableInv, LoadInv, LoadIsWhole
<1>4. KeptInv
  BY DEF Init, KeptInv
<1> QED BY <1>1, <1>2, <1>3, <1>4 DEF LibraryInv

-----------------------------------------------------------------------------
(***************************************************************************)
(* The steps. The crawler's change no folder, nothing the server has       *)
(* loaded and no file of the speaker.                                      *)
(***************************************************************************)
\* What a step that leaves the folders alone keeps without further ado.
LEMMA ElsewhereSame ==
    ASSUME LibraryInv, elsewhere' = elsewhere, roots \subseteq roots'
    PROVE  /\ dir' = dir /\ past' = past /\ server' = server /\ songs' = songs /\ cache' = cache
           /\ changes' = changes
           /\ \A i \in Folder : dir'[i] \in past'[i]
           /\ LoadIsWhole' /\ KeptInv'
<1>1. /\ dir' = dir /\ past' = past /\ server' = server /\ songs' = songs /\ cache' = cache
      /\ changes' = changes
  BY DEF elsewhere
<1>2. LoadIsWhole'
  BY <1>1 DEF LibraryInv, LoadIsWhole, Whole, WholeOf
<1>3. KeptInv'
  <2>1. \A d : Under(d)' = Under(d)
    BY <1>1 DEF Under
  <2>2. Unchanged' => Unchanged
    BY <1>1 DEF Unchanged
  <2> QED BY <1>1, <2>1, <2>2 DEF LibraryInv, KeptInv
<1> QED BY <1>1, <1>2, <1>3 DEF LibraryInv

CrawlerType == [pc : {"idle", "create", "walk"}, folder : 0..Folders, last : 0..Folders,
                todo : Seq(File), rows : Seq(Path)]

\* The types after a step of the crawler.
LEMMA CrawlerTypes ==
    ASSUME LibraryInv, elsewhere' = elsewhere, roots' \subseteq Folder,
           crawler' \in CrawlerType, music' \in Seq(Path) \cup {NoTable}, abandoned' \in BOOLEAN
    PROVE  TypeOK'
<1>1. /\ dir' = dir /\ past' = past /\ server' = server /\ songs' = songs /\ cache' = cache
      /\ changes' = changes
  BY DEF elsewhere
<1>2. TypeOK
  BY DEF LibraryInv
<1> QED BY <1>1, <1>2 DEF TypeOK, CrawlerType

LEMMA NoCrawlType ==
    /\ NoCrawl \in CrawlerType /\ NoCrawl.pc = "idle"
    /\ NoCrawl.folder = 0 /\ NoCrawl.todo = <<>> /\ NoCrawl.rows = <<>>
<1>1. <<>> \in Seq(Path) /\ <<>> \in Seq(File)
  BY EmptySeq
<1> QED BY <1>1, ConstantTypes DEF NoCrawl, CrawlerType

\* A server that loads goes on loading the same table.
LEMMA LoadSame ==
    ASSUME LoadInv, music' = music \/ server # "loading", server' = server, songs' = songs
    PROVE  LoadInv'
BY DEF LoadInv

\* A crawl that ends without a commit: insertRaises, killCrawler.
LEMMA EndCrawlStep ==
    ASSUME LibraryInv, crawler' = NoCrawl, music' = music, abandoned' \in BOOLEAN,
           elsewhere' = elsewhere, roots' = roots
    PROVE  LibraryInv'
<1>0. TypeOK /\ TableInv /\ LoadInv
  BY DEF LibraryInv
<1>1. /\ past' = past /\ server' = server /\ songs' = songs /\ KeptInv' /\ LoadIsWhole'
      /\ \A i \in Folder : dir'[i] \in past'[i]
  BY ElsewhereSame
<1>2. TypeOK'
  BY <1>0, NoCrawlType, CrawlerTypes DEF TypeOK
<1>3. CrawlInv'
  BY NoCrawlType, CrawlIdle
<1>4. TableInv'
  BY <1>0, <1>1, NoCrawlType DEF TableInv, Whole, WholeOf
<1>5. LoadInv'
  BY <1>0, <1>1, LoadSame
<1> QED BY <1>1, <1>2, <1>3, <1>4, <1>5 DEF LibraryInv

\* The table is dropped, and created again.
LEMMA TableSteps ==
    ASSUME LibraryInv, (\E d \in Folder : dropTable(d)) \/ createTable
    PROVE  LibraryInv'
<1>0. TypeOK /\ TableInv /\ LoadInv /\ CrawlInv /\ crawler \in CrawlerType /\ roots \subseteq Folder
  BY DEF LibraryInv, TypeOK, CrawlerType
<1>1. /\ elsewhere' = elsewhere /\ abandoned' = abandoned
      /\ roots \subseteq roots' /\ roots' \subseteq Folder
  BY <1>0 DEF dropTable, createTable
<1>2. /\ past' = past /\ server' = server /\ songs' = songs /\ KeptInv' /\ LoadIsWhole'
      /\ \A i \in Folder : dir'[i] \in past'[i]
  BY <1>1, ElsewhereSame
<1>3. <<>> \in Seq(Path) /\ Len(<<>>) = 0
  BY EmptySeq
<1>4. 0 <= Folders * MaxFiles
  BY ConstantTypes
<1>5. CASE \E d \in Folder : dropTable(d)
  <2>0. PICK d \in Folder : dropTable(d)
    BY <1>5
  <2>d. d - 1 \in 0..Folders /\ Last[d] \in 0..Folders
    BY ConstantTypes
  <2>1. /\ crawler' \in CrawlerType /\ crawler'.pc = "create" /\ music' = NoTable
        /\ server # "loading" /\ crawler'.folder = d - 1 /\ crawler'.last = Last[d]
        /\ d \in roots'
    BY <1>0, <2>0, <2>d DEF dropTable, CrawlerType
  <2>f. crawler'.todo = <<>> /\ crawler'.rows = <<>>
    BY <1>0, <2>0 DEF dropTable, CrawlerType, CrawlInv
  <2>2. TypeOK'
    BY <1>0, <1>1, <2>1, CrawlerTypes DEF TypeOK
  <2>3. CrawlInv'
    BY <2>1, <2>f DEF CrawlInv
  <2>4. TableInv'
    BY <1>2, <2>1 DEF TableInv
  <2>5. LoadInv'
    BY <1>0, <1>2, <2>1, LoadSame
  <2> QED BY <1>2, <2>2, <2>3, <2>4, <2>5 DEF LibraryInv
<1>6. CASE createTable
  <2>1. /\ crawler.pc = "create" /\ music' = <<>>
        /\ crawler' = [crawler EXCEPT !.pc = "walk"]
    BY <1>6 DEF createTable
  <2>2. crawler' \in CrawlerType /\ crawler'.pc = "walk" /\ server # "loading"
    BY <1>0, <2>1 DEF CrawlerType, TableInv
  <2>3. TypeOK'
    BY <1>0, <1>1, <1>3, <2>1, <2>2, CrawlerTypes DEF TypeOK
  <2>4. LoadInv'
    BY <1>0, <1>2, <2>2, LoadSame
  <2>5. TableInv'
    BY <1>3, <1>4, <2>1, <2>2 DEF TableInv
  <2>6. CrawlInv'
    <3>1. PICK d \in roots : crawler.folder = d - 1 /\ crawler.last = Last[d]
      BY <1>0, <2>1 DEF CrawlInv
    <3>2. /\ crawler'.folder = d - 1 /\ crawler'.last = Last[d] /\ d \in roots'
          /\ crawler'.todo = <<>> /\ crawler'.rows = <<>>
      BY <1>0, <1>1, <2>1, <3>1 DEF CrawlerType, CrawlInv
    <3>3. /\ d \in Folder /\ d \in Nat /\ d - 1 \in Nat /\ d - 1 \in d - 1..Last[d]
          /\ d..d - 1 = {} /\ 1..d - 1 \subseteq Folder
      BY <1>0, ConstantTypes
    <3> DEFINE w == [f \in Folder |-> <<>>]
    <3>4. w \in Walks /\ \A f \in Folder : w[f] = <<>>
      BY EmptyListing DEF Walks
    <3> HIDE DEF w
    <3>5. SoFar(w, d - 1, <<>>, <<>>)
      BY <3>3, <3>4, SoFarStart
    <3>6. Listed(w, d, d - 1)'
      BY <3>3, <3>4 DEF Listed
    <3>7. Within(d)'
      BY <3>2, <3>3 DEF Within
    <3>8. Len(crawler'.rows) + Len(crawler'.todo) <= crawler'.folder * MaxFiles
      BY <1>3, <3>2, <3>3, ConstantTypes
    <3> QED BY <2>2, <3>2, <3>4, <3>5, <3>6, <3>7, <3>8 DEF CrawlInv
  <2> QED BY <1>2, <2>3, <2>4, <2>5, <2>6 DEF LibraryInv
<1> QED BY <1>5, <1>6

LEMMA TimesMonotone ==
    ASSUME NEW n \in Nat, NEW i \in 0..n, NEW M \in Nat
    PROVE  i * M <= n * M
<1>1. n * M = i * M + (n - i) * M /\ n - i \in Nat
  OBVIOUS
<1>2. (n - i) * M \in Nat /\ i * M \in Nat
  BY <1>1
<1> QED BY <1>1, <1>2

\* One more folder, at most MaxFiles more files.
LEMMA RoomForFolder ==
    ASSUME NEW i \in Nat, NEW M \in Nat, NEW a \in Nat, NEW b \in 0..M, i * M \in Nat, a <= i * M
    PROVE  a + b <= (i + 1) * M
<1>1. (i + 1) * M = i * M + M
  OBVIOUS
<1>2. a + b <= i * M + M
  OBVIOUS
<1> QED BY <1>1, <1>2

\* A step of the walk: another folder, another file.
LEMMA WalkSteps ==
    ASSUME LibraryInv, listFolder \/ insert
    PROVE  LibraryInv'
<1>0. TypeOK /\ TableInv /\ LoadInv /\ crawler \in CrawlerType /\ crawler.pc = "walk"
  BY DEF LibraryInv, TypeOK, CrawlerType, listFolder, insert
<1>1. elsewhere' = elsewhere /\ abandoned' = abandoned /\ music' = music /\ roots' = roots
  BY DEF listFolder, insert
<1>2. /\ past' = past /\ server' = server /\ songs' = songs /\ KeptInv' /\ LoadIsWhole'
      /\ \A i \in Folder : dir'[i] \in past'[i]
  BY <1>1, ElsewhereSame
<1> DEFINE i == crawler.folder
           todo == crawler.todo
           rows == crawler.rows
<1>3. i \in 0..Folders /\ todo \in Seq(File) /\ rows \in Seq(Path) /\ Folders \in Nat /\ MaxFiles \in Nat
  BY <1>0, ConstantTypes DEF CrawlerType
<1>4. PICK r \in roots, w \in Walks : Within(r) /\ Listed(w, r, i) /\ SoFar(w, i, todo, rows)
  BY <1>0 DEF LibraryInv, CrawlInv
<1>r. /\ r \in Folder /\ r \in Nat /\ Last[r] \in Folder /\ Last[r] \in Nat /\ Last[r] <= Folders
      /\ i \in r - 1..Last[r] /\ crawler.last = Last[r]
  BY <1>0, <1>4, ConstantTypes DEF TypeOK, Within
<1>5. Len(rows) + Len(todo) <= i * MaxFiles /\ Len(rows) \in Nat /\ Len(todo) \in Nat
  BY <1>0, <1>3, LenProperties DEF LibraryInv, CrawlInv
<1>6. SUFFICES crawler' \in CrawlerType /\ crawler'.pc = "walk" /\ CrawlInv'
  <2>1. TypeOK'
    BY <1>0, <1>1, <1>6, CrawlerTypes DEF TypeOK
  <2>2. TableInv'
    BY <1>0, <1>1, <1>2, <1>6 DEF TableInv, Whole, WholeOf
  <2>3. LoadInv'
    BY <1>0, <1>1, <1>2, LoadSame
  <2> QED BY <1>2, <1>6, <2>1, <2>2, <2>3 DEF LibraryInv
<1>7. ASSUME NEW v \in Walks, Listed(v, r, crawler'.folder),
             crawler'.folder \in r - 1..Last[r], crawler'.last = Last[r],
             SoFar(v, crawler'.folder, crawler'.todo, crawler'.rows), crawler'.pc = "walk",
             Len(crawler'.rows) + Len(crawler'.todo) <= crawler'.folder * MaxFiles
      PROVE  CrawlInv'
  <2>1. Listed(v, r, crawler.folder)' /\ Within(r)'
    BY <1>2, <1>7 DEF Listed, Within
  <2> QED BY <1>1, <1>7, <2>1 DEF CrawlInv
<1>8. CASE listFolder
  <2> DEFINE d == dir[i + 1]
             v == [w EXCEPT ![i + 1] = d]
  <2>1. todo = <<>> /\ i < Last[r] /\ crawler' = [crawler EXCEPT !.folder = i + 1, !.todo = d]
    BY <1>0, <1>r, <1>8 DEF listFolder, CrawlerType
  <2>2. i \in 0..Folders - 1 /\ i + 1 \in Folder /\ i \in Nat /\ i + 1 \in r..Last[r]
    BY <1>3, <1>r, <2>1, ConstantTypes
  <2>3. d \in Listing /\ d \in past[i + 1]
    BY <1>0, <2>2 DEF TypeOK, LibraryInv
  <2>4. d \in Seq(File) /\ Len(d) \in 0..MaxFiles
    BY <2>3, ListingType
  <2>5. /\ crawler'.pc = "walk" /\ crawler'.folder = i + 1 /\ crawler'.todo = d
        /\ crawler'.last = Last[r] /\ crawler'.rows = rows /\ crawler' \in CrawlerType
    <3>1. i + 1 \in 0..Folders
      <4> HIDE DEF i
      <4> QED BY <1>3, <2>2
    <3> HIDE DEF d
    <3> QED BY <1>0, <1>3, <1>r, <2>1, <2>4, <3>1 DEF CrawlerType
  <2>6. SoFar(v, i + 1, d, rows)
    <3>1. SoFar(w, i, <<>>, rows)
      BY <1>4, <2>1
    <3> HIDE DEF i, todo, rows, d
    <3> QED BY <1>3, <2>2, <2>3, <3>1, SoFarList
  <2>7. v \in Walks /\ Listed(v, r, i + 1)
    <3>1. v \in Walks
      BY <2>2, <2>3 DEF Walks
    <3> HIDE DEF d, i
    <3>2. ASSUME NEW f \in Folder PROVE v[f] \in IF f \in r..i + 1 THEN past[f] ELSE {<<>>}
      <4>1. f \in Int /\ w \in [Folder -> Listing]
        BY ConstantTypes DEF Walks
      <4>2. CASE f = i + 1
        BY <1>r, <2>2, <2>3, <4>1, <4>2
      <4>3. CASE f # i + 1
        <5>1. f \in r..i + 1 <=> f \in r..i
          BY <1>r, <2>2, <4>1, <4>3
        <5>2. v[f] = w[f]
          BY <4>1, <4>3
        <5> QED BY <1>4, <5>1, <5>2 DEF Listed
      <4> QED BY <4>2, <4>3
    <3> QED BY <3>1, <3>2 DEF Listed
  <2>8. Len(rows) + Len(d) <= (i + 1) * MaxFiles
    <3>1. Len(todo) = 0
      BY <2>1, EmptySeq
    <3> HIDE DEF i, todo, rows, d
    <3>2. i * MaxFiles \in Nat /\ Len(rows) <= i * MaxFiles
      BY <1>3, <1>5, <2>2, <3>1
    <3> QED BY <1>3, <1>5, <2>2, <2>4, <3>2, RoomForFolder
  <2> HIDE DEF d, v, i, todo, rows
  <2>l. i + 1 \in r - 1..Last[r]
    BY <1>r, <2>2
  <2>9. CrawlInv'
    BY <1>7, <2>l, <2>5, <2>6, <2>7, <2>8
  <2> QED BY <2>5, <2>9
<1>9. CASE insert
  <2> DEFINE f == Head(todo)
             more == IF f \in Mp3 THEN Append(rows, <<i, f>>) ELSE rows
  <2>1. todo # <<>> /\ crawler' = [crawler EXCEPT !.todo = Tail(todo), !.rows = more]
    BY <1>0, <1>9 DEF insert, CrawlerType
  <2>2. i \in Folder
    <3>1. i # 0
      BY <1>4, <2>1 DEF SoFar, Left
    <3> QED BY <1>3, <3>1, ConstantTypes
  <2>3. f \in File /\ Tail(todo) \in Seq(File) /\ Len(Tail(todo)) = Len(todo) - 1
    BY <1>3, <2>1
  <2>4. more \in Seq(Path) /\ Len(more) <= Len(rows) + 1 /\ Len(more) \in Nat
    <3>1. <<i, f>> \in Path
      BY <2>2, <2>3 DEF Path
    <3>2. Append(rows, <<i, f>>) \in Seq(Path) /\ Len(Append(rows, <<i, f>>)) = Len(rows) + 1
      BY <1>3, <3>1, AppendProperties
    <3> QED BY <1>3, <1>5, <3>2
  <2>5. /\ crawler'.pc = "walk" /\ crawler'.folder = i /\ crawler'.todo = Tail(todo)
        /\ crawler'.last = Last[r] /\ crawler'.rows = more /\ crawler' \in CrawlerType
    <3> HIDE DEF more
    <3> QED BY <1>0, <1>3, <1>r, <2>1, <2>3, <2>4 DEF CrawlerType
  <2>6. SoFar(w, i, Tail(todo), more)
    BY <1>3, <1>4, <2>1, <2>2, SoFarInsert
  <2>7. Len(more) + Len(Tail(todo)) <= i * MaxFiles
    <3>1. i * MaxFiles \in Int
      BY <1>3
    <3> HIDE DEF more, i, todo, rows
    <3> QED BY <1>5, <2>3, <2>4, <3>1
  <2> HIDE DEF more, f, i, todo, rows
  <2>8. CrawlInv'
    BY <1>4, <1>r, <1>7, <2>5, <2>6, <2>7
  <2> QED BY <2>5, <2>8
<1> QED BY <1>8, <1>9

\* The crawl ends: its rows are committed, or thrown away later.
LEMMA CommitStep ==
    ASSUME LibraryInv, commit
    PROVE  LibraryInv'
<1>0. /\ TypeOK /\ TableInv /\ LoadInv /\ crawler \in CrawlerType
      /\ crawler.pc = "walk" /\ crawler.todo = <<>> /\ crawler.folder = crawler.last
      /\ crawler' = NoCrawl /\ elsewhere' = elsewhere /\ roots' = roots /\ roots \subseteq Folder
  BY DEF LibraryInv, TypeOK, CrawlerType, commit
<1>1. CASE abandoned' = TRUE /\ music' = music
  BY <1>0, <1>1, EndCrawlStep
<1>2. CASE /\ server # "loading" \/ crawler.rows = <<>>
           /\ music' = crawler.rows /\ abandoned' = abandoned
  <2>1. /\ past' = past /\ server' = server /\ songs' = songs /\ KeptInv' /\ LoadIsWhole'
        /\ \A i \in Folder : dir'[i] \in past'[i]
    BY <1>0, ElsewhereSame
  <2>2. TypeOK'
    <3>1. crawler.rows \in Seq(Path)
      BY <1>0 DEF CrawlerType
    <3> QED BY <1>0, <1>2, <3>1, NoCrawlType, CrawlerTypes DEF TypeOK
  <2>3. CrawlInv'
    BY <1>0, NoCrawlType, CrawlIdle
  <2>4. LoadInv'
    BY <1>0, <1>2, <2>1, LoadSame DEF TableInv
  <2>5. Whole(music)'
    <3>1. PICK d \in roots, w \in Walks :
             Within(d) /\ Listed(w, d, Last[d]) /\ SoFar(w, Last[d], <<>>, crawler.rows)
      BY <1>0 DEF LibraryInv, CrawlInv, Within
    <3>2. /\ d \in Folder /\ Last[d] \in Folder
          /\ \A f \in Folder : f > Last[d] => f \notin d..Last[d]
      BY <1>0, ConstantTypes
    <3>3. IsWalk(crawler.rows, w)
      BY <1>0, <3>1, <3>2, SoFarEnd DEF CrawlerType, Listed
    <3>4. Whole(crawler.rows)
      BY <3>1, <3>3 DEF Whole, WholeOf, Tree, Listed, Walks
    <3> QED BY <1>0, <1>2, <2>1, <3>4 DEF Whole, WholeOf
  <2>6. TableInv'
    <3>1. Len(music') <= Folders * MaxFiles
      <4>1. Len(crawler.rows) + Len(<<>>) <= crawler.folder * MaxFiles
        BY <1>0 DEF LibraryInv, CrawlInv
      <4>2. Len(crawler.rows) \in Nat /\ Len(<<>>) = 0
        BY <1>0, LenProperties, EmptySeq DEF CrawlerType
      <4>3. crawler.folder * MaxFiles <= Folders * MaxFiles
        <5>1. crawler.folder \in 0..Folders /\ Folders \in Nat /\ MaxFiles \in Nat
          BY <1>0, ConstantTypes DEF CrawlerType
        <5> QED BY <5>1, TimesMonotone
      <4>4. crawler.folder * MaxFiles \in Int /\ Folders * MaxFiles \in Int
        BY <1>0, ConstantTypes DEF CrawlerType
      <4> QED BY <1>2, <4>1, <4>2, <4>3, <4>4
    <3> QED BY <1>0, <2>5, <3>1, NoCrawlType DEF TableInv
  <2> QED BY <2>1, <2>2, <2>3, <2>4, <2>6 DEF LibraryInv
<1> QED BY <1>0, <1>1, <1>2 DEF commit
\* The rest of the crawler.
LEMMA CrawlerSteps ==
    ASSUME LibraryInv, Crawl \/ rollback \/ killCrawler
    PROVE  LibraryInv'
<1>1. CASE rollback
  <2>0. /\ TypeOK /\ TableInv /\ LoadInv /\ CrawlInv /\ crawler.folder \in 0..Folders
        /\ elsewhere' = elsewhere /\ crawler' = crawler /\ music' = music /\ abandoned' = FALSE
        /\ roots' = roots
    BY <1>1 DEF LibraryInv, TypeOK, rollback
  <2>1. /\ past' = past /\ server' = server /\ songs' = songs /\ KeptInv' /\ LoadIsWhole'
        /\ \A i \in Folder : dir'[i] \in past'[i]
    BY <2>0, ElsewhereSame
  <2>2. TypeOK'
    BY <2>0, CrawlerTypes DEF TypeOK, CrawlerType
  <2>3. CrawlInv'
    BY <2>0, <2>1, CrawlSame
  <2>4. LoadInv'
    BY <2>0, <2>1, LoadSame
  <2>5. TableInv'
    BY <2>0, <2>1 DEF TableInv, Whole, WholeOf
  <2> QED BY <2>1, <2>2, <2>3, <2>4, <2>5 DEF LibraryInv
<1>2. CASE killCrawler \/ insertRaises
  BY <1>2, EndCrawlStep DEF killCrawler, insertRaises
<1> QED BY <1>1, <1>2, TableSteps, WalkSteps, CommitStep DEF Crawl

-----------------------------------------------------------------------------
(***************************************************************************)
(* The server, the speaker and the folders.                                *)
(***************************************************************************)
\* What a step of the server leaves alone.
LEMMA FilesSame ==
    ASSUME LibraryInv, files' = files
    PROVE  /\ dir' = dir /\ past' = past /\ roots' = roots /\ music' = music /\ crawler' = crawler
           /\ abandoned' = abandoned /\ changes' = changes
           /\ \A i \in Folder : dir'[i] \in past'[i]
           /\ CrawlInv'
<1>1. /\ dir' = dir /\ past' = past /\ roots' = roots /\ music' = music /\ crawler' = crawler
      /\ abandoned' = abandoned /\ changes' = changes
  BY DEF files
<1>2. crawler.folder \in 0..Folders /\ CrawlInv
  BY DEF LibraryInv, TypeOK
<1>3. CrawlInv'
  BY <1>1, <1>2, CrawlSame
<1> QED BY <1>1, <1>3 DEF LibraryInv

\* The server starts, loads and stops.
LEMMA ServerSteps ==
    ASSUME LibraryInv, start \/ transferData \/ stop
    PROVE  LibraryInv'
<1>0. TypeOK /\ TableInv /\ LoadInv /\ KeptInv
  BY DEF LibraryInv
<1>1. files' = files /\ cache' = cache
  BY DEF start, transferData, stop
<1>2. /\ dir' = dir /\ past' = past /\ roots' = roots /\ music' = music /\ crawler' = crawler
      /\ abandoned' = abandoned /\ changes' = changes
      /\ \A i \in Folder : dir'[i] \in past'[i]
      /\ CrawlInv'
  BY <1>1, FilesSame
<1>3. KeptInv'
  <2>1. \A d : Under(d)' = Under(d)
    BY <1>2 DEF Under
  <2> QED BY <1>0, <1>1, <1>2, <2>1 DEF KeptInv, Unchanged
<1>4. <<>> \in Seq(Path) /\ Len(<<>>) = 0
  BY EmptySeq
<1>5. CASE start
  <2>1. server' = "loading" /\ songs' = <<>> /\ music # NoTable /\ music \in Seq(Path)
    BY <1>0, <1>5 DEF start, TypeOK
  <2>2. TypeOK'
    BY <1>0, <1>1, <1>2, <1>4, <2>1 DEF TypeOK
  <2>3. TableInv'
    <3>1. crawler.pc # "create"
      BY <1>0, <2>1 DEF TableInv
    <3> QED BY <1>0, <1>2, <2>1, <3>1 DEF TableInv, Whole, WholeOf
  <2>4. LoadInv' /\ LoadIsWhole'
    BY <1>2, <1>4, <2>1, LenProperties DEF LoadInv, LoadIsWhole
  <2> QED BY <1>2, <1>3, <2>2, <2>3, <2>4 DEF LibraryInv
<1>6. CASE stop
  <2>1. server' = "down" /\ songs' = <<>>
    BY <1>6 DEF stop
  <2>2. TypeOK'
    BY <1>0, <1>1, <1>2, <1>4, <2>1 DEF TypeOK
  <2>3. TableInv'
    BY <1>0, <1>2, <2>1 DEF TableInv, Whole, WholeOf
  <2>4. LoadInv' /\ LoadIsWhole'
    BY <2>1 DEF LoadInv, LoadIsWhole
  <2> QED BY <1>2, <1>3, <2>2, <2>3, <2>4 DEF LibraryInv
<1>7. CASE transferData
  <2>1. /\ server = "loading" /\ music # NoTable /\ music \in Seq(Path) /\ songs \in Seq(Path)
        /\ Len(songs) <= Len(music) /\ Len(music) <= Folders * MaxFiles
        /\ \A j \in 1..Len(songs) : songs[j] = music[j]
        /\ music = <<>> \/ Whole(music)
    BY <1>0, <1>7 DEF transferData, LoadInv, TableInv, TypeOK
  <2>2. Len(songs) \in Nat /\ Len(music) \in Nat
    BY <2>1, LenProperties
  <2>3. CASE /\ Len(songs) < Len(music) /\ songs' = Append(songs, music[Len(songs) + 1])
             /\ server' = server
    <3>1. music[Len(songs) + 1] \in Path
      BY <2>1, <2>2, <2>3, ElementOfSeq
    <3>2. /\ songs' \in Seq(Path) /\ Len(songs') = Len(songs) + 1
          /\ \A j \in 1..Len(songs) : songs'[j] = songs[j]
          /\ songs'[Len(songs) + 1] = music[Len(songs) + 1]
      BY <2>1, <2>3, <3>1, AppendProperties
    <3>3. TypeOK'
      BY <1>0, <1>1, <1>2, <2>3, <3>2 DEF TypeOK
    <3>4. TableInv'
      BY <1>0, <1>2, <2>3 DEF TableInv, Whole, WholeOf
    <3>5. ASSUME NEW j \in 1..Len(songs') PROVE songs'[j] = music'[j]
      <4>1. j \in 1..Len(songs) \/ j = Len(songs) + 1
        BY <2>2, <3>2
      <4> QED BY <1>2, <2>1, <3>2, <4>1
    <3>6. LoadInv' /\ LoadIsWhole'
      BY <1>2, <2>1, <2>2, <2>3, <3>2, <3>5 DEF LoadInv, LoadIsWhole
    <3> QED BY <1>2, <1>3, <3>3, <3>4, <3>6 DEF LibraryInv
  <2>4. CASE Len(songs) = Len(music) /\ server' = "up" /\ songs' = songs
    <3>1. songs = music
      BY <2>1, <2>4, SeqEqual
    <3>2. TypeOK'
      BY <1>0, <1>1, <1>2, <2>4 DEF TypeOK
    <3>3. TableInv'
      BY <1>0, <1>2, <2>4 DEF TableInv, Whole, WholeOf
    <3>4. LoadInv' /\ LoadIsWhole'
      BY <1>2, <2>1, <2>4, <3>1 DEF LoadInv, LoadIsWhole, Whole, WholeOf
    <3> QED BY <1>2, <1>3, <3>2, <3>3, <3>4 DEF LibraryInv
  <2> QED BY <1>7, <2>3, <2>4 DEF transferData
<1> QED BY <1>5, <1>6, <1>7

\* As long as the folders have not changed, a whole crawl is a walk through
\* them as they are.
LEMMA WholeUnchanged ==
    ASSUME TypeOK, Unchanged, NEW s, Whole(s)
    PROVE  \E d \in roots : IsWalk(s, Under(d)) /\ Under(d) \in Walks
<1>1. PICK d \in roots : WholeOf(s, d)
  BY DEF Whole
<1>2. PICK w \in [Folder -> Listing] :
         /\ \A i \in Folder : w[i] \in IF i \in Tree(d) THEN past[i] ELSE {<<>>}
         /\ IsWalk(s, w)
  BY <1>1 DEF WholeOf
<1>3. \A i \in Folder : w[i] = IF i \in Tree(d) THEN dir[i] ELSE <<>>
  BY <1>2 DEF Unchanged
<1>4. w = Under(d)
  BY <1>2, <1>3 DEF Under
<1> QED BY <1>2, <1>4 DEF Walks

\* The speaker keeps the file of a song.
LEMMA RequestStep ==
    ASSUME LibraryInv, NEW id \in Id, requestSong(id)
    PROVE  LibraryInv'
<1>0. TypeOK /\ TableInv /\ LoadInv /\ KeptInv /\ LoadIsWhole
  BY DEF LibraryInv
<1>1. /\ server = "up" /\ id \in DOMAIN songs /\ songs \in Seq(Path)
      /\ cache' = [cache EXCEPT ![id] = songs[id]]
      /\ files' = files /\ server' = server /\ songs' = songs
  BY <1>0 DEF requestSong, TypeOK
<1>2. /\ dir' = dir /\ past' = past /\ roots' = roots /\ music' = music /\ crawler' = crawler
      /\ abandoned' = abandoned /\ changes' = changes
      /\ \A i \in Folder : dir'[i] \in past'[i]
      /\ CrawlInv'
  BY <1>1, FilesSame
<1>3. id \in 1..Len(songs) /\ songs[id] \in Path
  BY <1>1, LenProperties, ElementOfSeq
<1>4. cache \in [Id -> Path \cup {NoFile}]
  BY <1>0 DEF TypeOK
<1>5. TypeOK'
  BY <1>0, <1>1, <1>2, <1>3, <1>4 DEF TypeOK
<1>6. TableInv' /\ LoadInv' /\ LoadIsWhole'
  BY <1>0, <1>1, <1>2 DEF TableInv, LoadInv, LoadIsWhole, Whole, WholeOf
<1>7. KeptInv'
  <2>u. \A d : Under(d)' = Under(d)
    BY <1>2 DEF Under
  <2> SUFFICES ASSUME Unchanged', NEW k \in Id
               PROVE  \/ cache'[k] = NoFile
                      \/ \E d \in roots, s \in Seq(Path) :
                            IsWalk(s, Under(d)) /\ k \in 1..Len(s) /\ cache'[k] = s[k]
    BY <1>2, <2>u DEF KeptInv
  <2>1. Unchanged
    BY <1>2 DEF Unchanged
  <2>2. CASE k = id
    <3>1. songs # <<>>
      BY <1>3, EmptySeq
    <3>2. \E d \in roots : IsWalk(songs, Under(d))
      BY <1>0, <1>1, <2>1, <3>1, WholeUnchanged DEF LoadIsWhole
    <3>3. cache'[k] = songs[k]
      BY <1>1, <1>4, <2>2
    <3> QED BY <1>1, <1>2, <1>3, <2>2, <3>2, <3>3
  <2>3. CASE k # id
    <3>1. cache'[k] = cache[k]
      BY <1>1, <1>4, <2>3
    <3> QED BY <1>0, <1>2, <2>1, <3>1 DEF KeptInv
  <2> QED BY <2>2, <2>3
<1> QED BY <1>2, <1>5, <1>6, <1>7 DEF LibraryInv

\* A folder changes.
LEMMA ChangeStep ==
    ASSUME LibraryInv, NEW i \in Folder, NEW fs \in Listing, changeFolder(i, fs)
    PROVE  LibraryInv'
<1>0. TypeOK /\ TableInv /\ LoadInv /\ LoadIsWhole /\ CrawlInv /\ crawler.folder \in 0..Folders
  BY DEF LibraryInv, TypeOK
<1>1. /\ dir' = [dir EXCEPT ![i] = fs] /\ past' = [past EXCEPT ![i] = past[i] \cup {fs}]
      /\ fs # dir[i] /\ changes < MaxChanges /\ changes' = changes + 1 /\ roots' = roots
      /\ music' = music /\ crawler' = crawler /\ abandoned' = abandoned
      /\ server' = server /\ songs' = songs /\ cache' = cache
  BY DEF changeFolder
<1>2. dir \in [Folder -> Listing] /\ past \in [Folder -> SUBSET Listing]
  BY <1>0 DEF TypeOK
<1>3. \A f \in Folder : past[f] \subseteq past'[f] /\ dir'[f] \in past'[f]
  BY <1>1, <1>2 DEF LibraryInv
<1>4. TypeOK'
  <2>1. changes' \in 0..MaxChanges
    BY <1>0, <1>1, ConstantTypes DEF TypeOK
  <2> QED BY <1>0, <1>1, <1>2, <2>1 DEF TypeOK
<1>5. CrawlInv'
  BY <1>0, <1>1, <1>3, CrawlSame
<1>6. TableInv'
  <2>1. Whole(music) => Whole(music)'
    BY <1>1, <1>3 DEF Whole, WholeOf
  <2> QED BY <1>0, <1>1, <2>1 DEF TableInv
<1>7. LoadInv'
  BY <1>0, <1>1 DEF LoadInv
<1>8. LoadIsWhole'
  BY <1>0, <1>1, <1>3 DEF LoadIsWhole, Whole, WholeOf
<1>9. ~Unchanged'
  <2>1. dir[i] \in past'[i] /\ fs \in past'[i] /\ dir'[i] = fs
    BY <1>1, <1>2 DEF LibraryInv
  <2> QED BY <1>1, <2>1 DEF Unchanged
<1> QED BY <1>3, <1>4, <1>5, <1>6, <1>7, <1>8, <1>9 DEF LibraryInv, KeptInv

-----------------------------------------------------------------------------
(***************************************************************************)
(* The theorems.                                                           *)
(***************************************************************************)
LEMMA LibraryInvStep == ASSUME LibraryInv, [Next]_vars PROVE LibraryInv'
<1>1. CASE UNCHANGED vars
  <2>1. /\ dir' = dir /\ past' = past /\ roots' = roots /\ music' = music /\ crawler' = crawler
        /\ abandoned' = abandoned /\ server' = server /\ songs' = songs /\ cache' = cache
        /\ changes' = changes
    BY <1>1 DEF vars
  <2>2. TypeOK' /\ \A i \in Folder : dir'[i] \in past'[i]
    BY <2>1 DEF LibraryInv, TypeOK
  <2>3. CrawlInv' /\ TableInv' /\ LoadInv'
    BY <2>1 DEF LibraryInv, CrawlInv, TableInv, LoadInv, Whole, WholeOf, Within, Listed
  <2>u. \A d : Under(d)' = Under(d)
    BY <2>1 DEF Under
  <2>4. LoadIsWhole' /\ KeptInv'
    BY <2>1, <2>u DEF LibraryInv, LoadIsWhole, KeptInv, Unchanged, Whole, WholeOf
  <2> QED BY <2>2, <2>3, <2>4 DEF LibraryInv
<1> QED BY <1>1, CrawlerSteps, ServerSteps, RequestStep, ChangeStep DEF Next

\* The library, its copy and the speaker's files, whatever crawls fail or are
\* killed and whenever the server starts (crawl, transferData,
\* check_for_song).
THEOREM Invariance == Spec => []LibraryInv
<1>1. Init => LibraryInv
  BY LibraryInvInit
<1>2. LibraryInv /\ [Next]_vars => LibraryInv'
  BY LibraryInvStep
<1> QED BY <1>1, <1>2, PTL DEF Spec

\* Every variable of the crawler, the server and the speaker keeps its type.
THEOREM TypeCorrect == Spec => []TypeOK
<1>1. LibraryInv => TypeOK
  BY DEF LibraryInv
<1> QED BY <1>1, Invariance, PTL

\* A server that is up offers nothing or one whole crawl, never a part of one
\* and never the rows of two: crawl commits at its end, and transferData reads
\* a table that stays as it is.
THEOREM LoadIsWholeTheorem == Spec => []LoadIsWhole
<1>1. LibraryInv => LoadIsWhole
  BY DEF LibraryInv
<1> QED BY <1>1, Invariance, PTL

\* While nobody changes the folders or crawls another one, a kept file is the
\* song a server offers under its id: two crawls of a folder that end find the
\* same songs in the same order, so AUTOINCREMENT gives them the same ids.
THEOREM CacheMatchesTheorem == Spec => []CacheMatches
<1>1. LibraryInv => CacheMatches
  <2> SUFFICES ASSUME LibraryInv, server = "up", Unchanged, NEW id \in DOMAIN songs
               PROVE  cache[id] \in {NoFile, songs[id]}
    BY DEF CacheMatches, IdsAgree
  <2>1. TypeOK /\ LoadInv /\ KeptInv /\ LoadIsWhole /\ songs \in Seq(Path)
    BY DEF LibraryInv, TypeOK
  <2>2. Len(songs) \in Nat /\ id \in 1..Len(songs) /\ Len(songs) <= Folders * MaxFiles
    BY <2>1, LenProperties DEF LoadInv
  <2>3. id \in Id
    <3>1. Folders * MaxFiles \in Int
      BY ConstantTypes
    <3> QED BY <2>2, <3>1 DEF Id
  <2>4. songs # <<>>
    BY <2>2, EmptySeq
  <2>5. PICK d \in roots : IsWalk(songs, Under(d)) /\ Under(d) \in Walks
    BY <2>1, <2>4, WholeUnchanged DEF LoadIsWhole
  <2>6. ASSUME cache[id] # NoFile PROVE cache[id] = songs[id]
    <3>1. PICK e \in roots, s \in Seq(Path) :
             IsWalk(s, Under(e)) /\ id \in 1..Len(s) /\ cache[id] = s[id]
      BY <2>1, <2>3, <2>6 DEF KeptInv
    <3>2. d = e
      BY DEF Unchanged
    <3> QED BY <2>1, <2>2, <2>5, <3>1, <3>2, WalkUnique
  <2> QED BY <2>6
<1> QED BY <1>1, Invariance, PTL
=============================================================================
