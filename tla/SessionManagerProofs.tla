------------------------ MODULE SessionManagerProofs ------------------------
(***************************************************************************)
(* Proofs about SessionManager for any number of threads, sessions and     *)
(* failing statements.                                                     *)
(***************************************************************************)
EXTENDS SessionManager, FiniteSetTheorems, TLAPS

-----------------------------------------------------------------------------
(***************************************************************************)
(* The inductive invariant.                                                *)
(***************************************************************************)
\* Threads between startTransaction and the end of their transaction.
InTransaction == {t \in Thread : thread[t].pc \in {"insert", "select", "commit", "finally",
                                                   "execute", "executed", "rollback"}}

\* Threads that will insert a row.
Creating == {u \in Thread : thread[u].pc \in {"create", "insert"}}

\* Whoever is in a transaction holds the lock.
LockInv ==
    /\ \A t \in InTransaction : lock.owner = t
    /\ lock.owner = NoThread <=> lock.count = 0

\* The ids fit: rows to come are counted, and a rollback only goes back.
IdsFit ==
    /\ sequence + Cardinality(Creating) <= MaxSessions
    /\ committed[2] <= sequence
    /\ \A t \in Thread :
          /\ thread[t].pc = "select" => thread[t].row \in Id /\ lastRowid \in Id
          /\ thread[t].pc \in {"commit", "put"} => thread[t].row \in Id /\ thread[t].sid \in Id
          /\ thread[t].pc \in {"destroy", "vote", "like"} => thread[t].sid \in Id

TypeInv == TypeOK /\ IdsFit

USE DEF InTransaction

\* Facts about numbers that the steps below use.
LEMMA IdType == MaxSessions \in Nat /\ Id \subseteq Nat /\ None \notin Id
BY SessionBoundsAssumption DEF Id, None

\* The number of threads that will insert a row is a number.
LEMMA CreatingFinite == IsFiniteSet(Creating) /\ Cardinality(Creating) \in Nat
<1>1. Creating \subseteq Thread
  BY DEF Creating
<1> QED BY <1>1, ThreadAssumption, FS_Subset, FS_CardinalityType

-----------------------------------------------------------------------------
(***************************************************************************)
(* Mutual exclusion of transactions.                                       *)
(***************************************************************************)
\* A thread in a transaction keeps transactionLock, through failures and
\* through the rollbacks that never release it.
LEMMA LockStep == TypeOK /\ LockInv /\ [Next]_vars => LockInv'
<1> SUFFICES ASSUME TypeOK, LockInv, [Next]_vars PROVE LockInv'
  OBVIOUS
<1> USE DEF TypeOK, Local, PC, LockInv, goto, idle, Idle, lockTransaction, unlock
<1>1. ASSUME NEW t \in Thread, Request(t) PROVE LockInv'
  BY <1>1 DEF Request, authenticate, updateNextSong, request
<1>2. ASSUME NEW t \in Thread, startTransaction(t) PROVE LockInv'
  BY <1>2, ThreadAssumption DEF startTransaction
<1>3. ASSUME NEW t \in Thread, insertSession(t) PROVE LockInv'
  BY <1>3 DEF insertSession
<1>4. ASSUME NEW t \in Thread, selectId(t) PROVE LockInv'
  BY <1>4 DEF selectId
<1>5. ASSUME NEW t \in Thread, stopTransaction(t) PROVE LockInv'
  BY <1>5, ThreadAssumption DEF stopTransaction
<1>6. ASSUME NEW t \in Thread, putSession(t) PROVE LockInv'
  BY <1>6 DEF putSession
<1>7. ASSUME NEW t \in Thread, destroySession(t) PROVE LockInv'
  BY <1>7 DEF destroySession
<1>8. ASSUME NEW t \in Thread, rate(t) PROVE LockInv'
  BY <1>8 DEF rate
<1>9. ASSUME NEW t \in Thread, executeUpdate(t) PROVE LockInv'
  BY <1>9 DEF executeUpdate
<1>10. ASSUME NEW t \in Thread, rollbackTransaction(t) PROVE LockInv'
  BY <1>10, ThreadAssumption DEF rollbackTransaction, undo
<1>11. ASSUME NEW t \in Thread, createFails(t) PROVE LockInv'
  BY <1>11 DEF createFails
<1>12. CASE UNCHANGED vars
  BY <1>12 DEF vars
<1> QED BY <1>1, <1>2, <1>3, <1>4, <1>5, <1>6, <1>7, <1>8, <1>9, <1>10, <1>11, <1>12 DEF Next, Step

-----------------------------------------------------------------------------
(***************************************************************************)
(* Types.                                                                  *)
(***************************************************************************)
\* A thread that goes on in its request, or ends it, keeps its type.
LEMMA GotoType ==
    ASSUME TypeOK, NEW t \in Thread, NEW pc \in PC, goto(t, pc)
    PROVE  thread' \in [Thread -> Local]
<1>1. [thread[t] EXCEPT !.pc = pc] \in Local
  BY DEF TypeOK, Local
<1> QED BY <1>1 DEF TypeOK, goto

LEMMA IdleType ==
    ASSUME TypeOK, NEW t \in Thread, idle(t)
    PROVE  thread' \in [Thread -> Local]
<1>1. Idle \in Local
  BY DEF Idle, Local, PC
<1> QED BY <1>1 DEF TypeOK, idle

\* So does the lock when it is released.
LEMMA UnlockType ==
    ASSUME TypeOK, LockInv, NEW t \in InTransaction, unlock
    PROVE  lock' \in [owner : Thread \cup {NoThread}, count : Nat]
BY ThreadAssumption DEF TypeOK, LockInv, unlock

\* TypeOK is kept by every step.
LEMMA TypeOKStep == TypeInv /\ LockInv /\ [Next]_vars => TypeOK'
<1> SUFFICES ASSUME TypeInv, LockInv, [Next]_vars PROVE TypeOK'
  OBVIOUS
<1> DEFINE TypeRest == /\ sessions \subseteq Id /\ sequence \in 0..MaxSessions
                       /\ lastRowid \in Id \cup {None}
                       /\ committed \in (SUBSET Id) \X (0..MaxSessions)
                       /\ autoCommit \in BOOLEAN
                       /\ sessionMap \in [Id -> Id \cup {None}]
                       /\ known \subseteq Id
                       /\ failures \in 0..MaxFailures /\ rolledBack \in BOOLEAN
                       /\ interleaved \subseteq Id
           LockType == lock \in [owner : Thread \cup {NoThread}, count : Nat]
<1>0. /\ TypeOK /\ IdsFit
      /\ TypeOK <=> TypeRest /\ LockType /\ thread \in [Thread -> Local]
      /\ TypeOK' <=> TypeRest' /\ LockType' /\ thread' \in [Thread -> Local]
  BY DEF TypeOK, TypeInv
<1> USE IdType, SessionBoundsAssumption
<1> USE DEF history, database, tables
<1>1. ASSUME NEW t \in Thread, authenticate(t) PROVE TypeOK'
  BY <1>0, <1>1, GotoType DEF authenticate, PC
<1>2. ASSUME NEW t \in Thread, updateNextSong(t) PROVE TypeOK'
  BY <1>0, <1>2, GotoType DEF updateNextSong, PC
<1>3. ASSUME NEW t \in Thread, NEW i \in Id, NEW pc \in {"destroy", "vote", "like"}, request(t, i, pc)
      PROVE  TypeOK'
  BY <1>0, <1>3 DEF request, PC, Local
<1>4. ASSUME NEW t \in Thread, startTransaction(t) PROVE TypeOK'
  <2>1. thread' \in [Thread -> Local]
    BY <1>0, <1>4, GotoType, IdleType DEF startTransaction, PC
  <2>2. LockType'
    BY <1>0, <1>4 DEF startTransaction, lockTransaction
  <2>3. failures' \in 0..MaxFailures
    BY <1>0, <1>4 DEF startTransaction
  <2>4. autoCommit' \in BOOLEAN
    BY <1>0, <1>4, Zenon DEF startTransaction
  <2> QED BY <1>0, <1>4, <2>1, <2>2, <2>3, <2>4 DEF startTransaction
<1>5. ASSUME NEW t \in Thread, insertSession(t) PROVE TypeOK'
  <2>1. sequence + 1 \in Id
    <3>1. t \in Creating
      BY <1>5 DEF insertSession, Creating
    <3>2. Cardinality(Creating) # 0
      BY <3>1, CreatingFinite, FS_EmptySet
    <3> QED BY <1>0, <3>2, CreatingFinite DEF IdsFit, Id
  <2>2. [pc |-> "select", row |-> sequence + 1, sid |-> None] \in Local
    BY <1>0, <2>1 DEF Local, PC
  <2>3. thread' \in [Thread -> Local]
    BY <1>0, <1>5, <2>2 DEF insertSession
  <2>4. TypeRest' /\ LockType'
    BY <1>0, <1>5, <2>1 DEF insertSession, keepCommitted, Id
  <2> QED BY <1>0, <2>3, <2>4
<1>6. ASSUME NEW t \in Thread, selectId(t) PROVE TypeOK'
  <2>1. [pc |-> "commit", row |-> thread[t].row, sid |-> lastRowid] \in Local
    BY <1>0 DEF Local, PC
  <2> QED BY <1>0, <1>6, <2>1 DEF selectId
<1>7. ASSUME NEW t \in Thread, stopTransaction(t) PROVE TypeOK'
  <2>1. thread' \in [Thread -> Local]
    BY <1>0, <1>7, GotoType, IdleType DEF stopTransaction, PC
  <2>2. LockType'
    BY <1>0, <1>7, UnlockType DEF stopTransaction
  <2>3. committed' \in (SUBSET Id) \X (0..MaxSessions)
    <3>1. tables \in (SUBSET Id) \X (0..MaxSessions)
      BY <1>0
    <3>2. committed' \in {tables, committed}
      BY <1>7 DEF stopTransaction
    <3> QED BY <1>0, <3>1, <3>2
  <2>4. failures' \in 0..MaxFailures
    BY <1>0, <1>7 DEF stopTransaction
  <2>5. autoCommit' \in BOOLEAN
    BY <1>0, <1>7, Zenon DEF stopTransaction
  <2> QED BY <1>0, <1>7, <2>1, <2>2, <2>3, <2>4, <2>5 DEF stopTransaction
<1>8. ASSUME NEW t \in Thread, putSession(t) PROVE TypeOK'
  <2>1. thread' \in [Thread -> Local]
    BY <1>0, <1>8, IdleType DEF putSession
  <2>2. TypeRest' /\ LockType'
    BY <1>0, <1>8 DEF putSession, IdsFit
  <2> QED BY <1>0, <2>1, <2>2
<1>9. ASSUME NEW t \in Thread, destroySession(t) PROVE TypeOK'
  <2>1. thread' \in [Thread -> Local]
    BY <1>0, <1>9, IdleType DEF destroySession
  <2>2. TypeRest' /\ LockType'
    BY <1>0, <1>9 DEF destroySession, keepCommitted
  <2> QED BY <1>0, <2>1, <2>2
<1>10. ASSUME NEW t \in Thread, rate(t) PROVE TypeOK'
  <2>1. thread' \in [Thread -> Local]
    BY <1>0, <1>10, IdleType DEF rate
  <2>2. TypeRest' /\ LockType'
    BY <1>0, <1>10 DEF rate, IdsFit
  <2> QED BY <1>0, <2>1, <2>2
<1>11. ASSUME NEW t \in Thread, executeUpdate(t) PROVE TypeOK'
  <2>1. thread' \in [Thread -> Local]
    BY <1>0, <1>11, GotoType DEF executeUpdate, PC
  <2> QED BY <1>0, <1>11, <2>1 DEF executeUpdate
<1>12. ASSUME NEW t \in Thread, rollbackTransaction(t) PROVE TypeOK'
  <2>1. thread' \in [Thread -> Local]
    BY <1>0, <1>12, IdleType DEF rollbackTransaction, undo
  <2>2. LockType'
    BY <1>0, <1>12, UnlockType DEF rollbackTransaction, undo
  <2>3. sessions' \subseteq Id /\ sequence' \in 0..MaxSessions
    BY <1>0, <1>12 DEF rollbackTransaction, undo
  <2>4. autoCommit' \in BOOLEAN /\ rolledBack' \in BOOLEAN
    BY <1>0, <1>12 DEF rollbackTransaction, undo
  <2>5. failures' \in 0..MaxFailures
    BY <1>0, <1>12 DEF rollbackTransaction, undo
  <2> QED BY <1>0, <1>12, <2>1, <2>2, <2>3, <2>4, <2>5 DEF rollbackTransaction, undo
<1>13. ASSUME NEW t \in Thread, createFails(t) PROVE TypeOK'
  <2>1. thread' \in [Thread -> Local]
    BY <1>0, <1>13, GotoType DEF createFails, PC
  <2> QED BY <1>0, <1>13, <2>1 DEF createFails
<1>14. CASE UNCHANGED vars
  BY <1>0, <1>14 DEF vars
<1> QED BY <1>1, <1>2, <1>3, <1>4, <1>5, <1>6, <1>7, <1>8, <1>9, <1>10, <1>11, <1>12, <1>13, <1>14
        DEF Next, Request, Step

\* So are the bounds on ids.
LEMMA IdsFitStep == TypeInv /\ [Next]_vars => IdsFit'
<1> SUFFICES ASSUME TypeInv, [Next]_vars PROVE IdsFit'
  OBVIOUS
<1> DEFINE Held(th, last) ==
              \A t \in Thread :
                 /\ th[t].pc = "select" => th[t].row \in Id /\ last \in Id
                 /\ th[t].pc \in {"commit", "put"} => th[t].row \in Id /\ th[t].sid \in Id
                 /\ th[t].pc \in {"destroy", "vote", "like"} => th[t].sid \in Id
<1>0. /\ thread \in [Thread -> Local] /\ sequence \in Nat /\ committed[2] \in Nat
      /\ sequence + Cardinality(Creating) <= MaxSessions
      /\ committed[2] <= sequence
      /\ Held(thread, lastRowid)
      /\ known \subseteq Id
  BY IdType DEF TypeInv, TypeOK, IdsFit
<1>a. Creating' \subseteq Thread
  BY DEF Creating
<1>b. IsFiniteSet(Creating') /\ Cardinality(Creating') \in Nat
  BY <1>a, ThreadAssumption, FS_Subset, FS_CardinalityType
<1>c. SUFFICES /\ sequence' + Cardinality(Creating') <= MaxSessions
               /\ committed'[2] <= sequence'
               /\ Held(thread', lastRowid')
  BY DEF IdsFit
<1> HIDE DEF Held
<1>d. ASSUME Creating' = Creating, sequence' = sequence, committed' = committed, Held(thread', lastRowid')
      PROVE  /\ sequence' + Cardinality(Creating') <= MaxSessions
             /\ committed'[2] <= sequence'
             /\ Held(thread', lastRowid')
  BY <1>d, <1>0
<1> USE IdType, CreatingFinite
<1> USE DEF goto, idle, Idle, history, database, tables
<1>1. ASSUME NEW t \in Thread, authenticate(t)
      PROVE  /\ sequence' + Cardinality(Creating') <= MaxSessions
             /\ committed'[2] <= sequence'
             /\ Held(thread', lastRowid')
  <2>1. t \notin Creating /\ Creating' = Creating \cup {t}
    BY <1>0, <1>1 DEF authenticate, Creating, Local
  <2>2. Cardinality(Creating') = Cardinality(Creating) + 1
    BY <2>1, FS_AddElement
  <2>3. sequence + Cardinality(Creating) < MaxSessions
    BY <1>1 DEF authenticate, Creating
  <2>4. Held(thread', lastRowid')
    BY <1>0, <1>1 DEF authenticate, Local, Held
  <2> QED BY <1>0, <1>1, <1>b, <2>2, <2>3, <2>4 DEF authenticate
<1>2. ASSUME NEW t \in Thread, updateNextSong(t)
      PROVE  Creating' = Creating /\ Held(thread', lastRowid')
  BY <1>0, <1>2 DEF updateNextSong, Creating, Local, Held
<1>3. ASSUME NEW t \in Thread, NEW i \in Id, NEW pc \in {"destroy", "vote", "like"}, request(t, i, pc)
      PROVE  Creating' = Creating /\ Held(thread', lastRowid')
  BY <1>0, <1>3 DEF request, Creating, Local, Held
<1>4. ASSUME NEW t \in Thread, startTransaction(t)
      PROVE  /\ sequence' + Cardinality(Creating') <= MaxSessions
             /\ committed'[2] <= sequence'
             /\ Held(thread', lastRowid')
  <2>1. Creating' \subseteq Creating
    BY <1>0, <1>4 DEF startTransaction, Creating, Local
  <2>2. Cardinality(Creating') <= Cardinality(Creating)
    BY <2>1, FS_Subset
  <2>3. Held(thread', lastRowid')
    BY <1>0, <1>4 DEF startTransaction, Local, Held
  <2> QED BY <1>0, <1>4, <1>b, <2>2, <2>3 DEF startTransaction
<1>5. ASSUME NEW t \in Thread, insertSession(t)
      PROVE  /\ sequence' + Cardinality(Creating') <= MaxSessions
             /\ committed'[2] <= sequence'
             /\ Held(thread', lastRowid')
  <2>1. t \in Creating /\ Creating' = Creating \ {t}
    BY <1>0, <1>5 DEF insertSession, Creating, Local
  <2>2. Cardinality(Creating') = Cardinality(Creating) - 1
    BY <2>1, FS_RemoveElement
  <2>3. sequence + 1 \in Id /\ sequence' + Cardinality(Creating') <= MaxSessions
    BY <1>0, <1>5, <1>b, <2>2 DEF insertSession, Id
  <2>4. Held(thread', lastRowid')
    BY <1>0, <1>5, <2>3 DEF insertSession, Local, Held
  <2>5. committed'[2] <= sequence'
    BY <1>0, <1>5 DEF insertSession, keepCommitted
  <2> QED BY <2>3, <2>4, <2>5
<1>6. ASSUME NEW t \in Thread, selectId(t)
      PROVE  Creating' = Creating /\ Held(thread', lastRowid')
  BY <1>0, <1>6 DEF selectId, Creating, Local, Held
<1>7. ASSUME NEW t \in Thread, stopTransaction(t)
      PROVE  /\ Creating' = Creating /\ Held(thread', lastRowid')
             /\ committed'[2] <= sequence'
  <2>1. Creating' = Creating /\ Held(thread', lastRowid')
    BY <1>0, <1>7 DEF stopTransaction, Creating, Local, Held
  <2>2. committed'[2] <= sequence'
    BY <1>0, <1>7 DEF stopTransaction
  <2> QED BY <2>1, <2>2
<1>8. ASSUME NEW t \in Thread, putSession(t)
      PROVE  Creating' = Creating /\ Held(thread', lastRowid')
  BY <1>0, <1>8 DEF putSession, Creating, Local, Held
<1>9. ASSUME NEW t \in Thread, destroySession(t)
      PROVE  /\ Creating' = Creating /\ Held(thread', lastRowid')
             /\ committed'[2] <= sequence'
  <2>1. Creating' = Creating /\ Held(thread', lastRowid')
    BY <1>0, <1>9 DEF destroySession, Creating, Local, Held
  <2>2. committed'[2] <= sequence'
    BY <1>0, <1>9 DEF destroySession, keepCommitted
  <2> QED BY <2>1, <2>2
<1>10. ASSUME NEW t \in Thread, rate(t)
      PROVE  Creating' = Creating /\ Held(thread', lastRowid')
  <2>1. lastRowid' \in Id
    BY <1>0, <1>10 DEF rate, Held
  <2> QED BY <1>0, <1>10, <2>1 DEF rate, Creating, Local, Held
<1>11. ASSUME NEW t \in Thread, executeUpdate(t)
      PROVE  Creating' = Creating /\ Held(thread', lastRowid')
  BY <1>0, <1>11 DEF executeUpdate, Creating, Local, Held
<1>12. ASSUME NEW t \in Thread, rollbackTransaction(t)
      PROVE  /\ Creating' = Creating /\ Held(thread', lastRowid')
             /\ committed'[2] <= sequence' /\ sequence' <= sequence /\ sequence' \in Nat
  <2>1. Creating' = Creating /\ Held(thread', lastRowid')
    BY <1>0, <1>12 DEF rollbackTransaction, Creating, Local, Held
  <2>2. committed'[2] <= sequence' /\ sequence' <= sequence /\ sequence' \in Nat
    BY <1>0, <1>12 DEF rollbackTransaction, undo
  <2> QED BY <2>1, <2>2
<1>13. ASSUME NEW t \in Thread, createFails(t)
      PROVE  /\ sequence' + Cardinality(Creating') <= MaxSessions
             /\ committed'[2] <= sequence'
             /\ Held(thread', lastRowid')
  <2>1. Creating' \subseteq Creating
    BY <1>0, <1>13 DEF createFails, Creating, Local
  <2>2. Cardinality(Creating') <= Cardinality(Creating)
    BY <2>1, FS_Subset
  <2>3. Held(thread', lastRowid')
    BY <1>0, <1>13 DEF createFails, Local, Held
  <2> QED BY <1>0, <1>13, <1>b, <2>2, <2>3 DEF createFails
<1>14. CASE UNCHANGED vars
  BY <1>0, <1>14 DEF vars, Creating
<1>15. ASSUME NEW t \in Thread,
              \/ updateNextSong(t) \/ selectId(t) \/ putSession(t)
              \/ rate(t) \/ executeUpdate(t)
              \/ \E i \in Id, pc \in {"destroy", "vote", "like"} : request(t, i, pc)
       PROVE  sequence' = sequence /\ committed' = committed
  BY <1>15 DEF updateNextSong, selectId, putSession, rate, executeUpdate, request
<1>16. ASSUME NEW t \in Thread, stopTransaction(t) \/ destroySession(t)
       PROVE  sequence' = sequence
  BY <1>16 DEF stopTransaction, destroySession
<1> QED BY <1>0, <1>b, <1>d, <1>1, <1>2, <1>3, <1>4, <1>5, <1>6, <1>7, <1>8, <1>9, <1>10, <1>11, <1>12,
           <1>13, <1>14, <1>15, <1>16 DEF Next, Request, Step

-----------------------------------------------------------------------------
(***************************************************************************)
(* Sessions, until a rating comes between the INSERT of a session and the  *)
(* SELECT of its id (find_session_id shows what happens then).             *)
(***************************************************************************)
\* Threads that have inserted a row for a client who does not know it yet.
HasRow(t) == thread[t].pc \in {"select", "commit", "put"}

\* The id read by selectId will be that of the row, and no two threads have the
\* same row: rows are numbered upwards, also after a rollback, which only goes
\* back to what was committed.
RowsApart ==
    /\ \A t \in Thread :
          /\ HasRow(t) => thread[t].row <= sequence
          /\ thread[t].pc = "select" => lastRowid = thread[t].row
          /\ thread[t].pc = "put" => thread[t].row <= committed[2]
    /\ \A t, u \in Thread : HasRow(t) /\ HasRow(u) /\ thread[t].row = thread[u].row => t = u

\* What clients know has been committed, so that its number is not given out
\* again; they only ask for what they know, and do not know rows to come.
KnownCommitted ==
    /\ \A i \in known : i <= committed[2]
    /\ \A t \in Thread :
          /\ HasRow(t) => thread[t].row \notin known
          /\ thread[t].pc \in {"destroy", "vote", "like"} => thread[t].sid \in known

\* The rows of sessions in the map, and of those about to be, survive a rollback.
RowsCommitted ==
    /\ Mapped \subseteq committed[1] \cap sessions
    /\ \A t \in Thread :
          /\ HasRow(t) => thread[t].row \in sessions
          /\ thread[t].pc = "put" => thread[t].row \in committed[1]

SessionInv ==
    TypeInv /\ LockInv /\ AtomicCreation /\ RowsApart /\ KnownCommitted /\ RowsCommitted

USE DEF HasRow

\* Rows and the sequence are numbers.
LEMMA RowNumbers ==
    ASSUME TypeInv, NEW u \in Thread, HasRow(u)
    PROVE  thread[u].row \in Nat /\ sequence \in Nat
<1>1. thread[u].row \in Id
  BY DEF TypeInv, IdsFit
<1>2. sequence \in Nat
  BY IdType DEF TypeInv, TypeOK
<1> QED BY <1>1, <1>2, IdType DEF Id

\* selectId reads the id of the thread's own row, and it goes into the map.
LEMMA CreationStep ==
    ASSUME SessionInv, Next, interleaved' = {}
    PROVE  AtomicCreation'
<1> USE IdType
<1> USE DEF SessionInv, TypeInv, TypeOK, Local, PC, IdsFit, LockInv, AtomicCreation, RowsApart, Mapped, goto, idle, Idle
<1>1. ASSUME NEW t \in Thread, Request(t) PROVE AtomicCreation'
  BY <1>1 DEF Request, authenticate, updateNextSong, request
<1>2. ASSUME NEW t \in Thread, startTransaction(t) PROVE AtomicCreation'
  BY <1>2 DEF startTransaction
<1>3. ASSUME NEW t \in Thread, insertSession(t) PROVE AtomicCreation'
  BY <1>3 DEF insertSession
<1>4. ASSUME NEW t \in Thread, selectId(t) PROVE AtomicCreation'
  BY <1>4 DEF selectId
<1>5. ASSUME NEW t \in Thread, stopTransaction(t) PROVE AtomicCreation'
  BY <1>5 DEF stopTransaction
<1>6. ASSUME NEW t \in Thread, putSession(t) PROVE AtomicCreation'
  BY <1>6 DEF putSession
<1>7. ASSUME NEW t \in Thread, destroySession(t) PROVE AtomicCreation'
  BY <1>7 DEF destroySession
<1>8. ASSUME NEW t \in Thread, rate(t) PROVE AtomicCreation'
  BY <1>8 DEF rate
<1>9. ASSUME NEW t \in Thread, executeUpdate(t) PROVE AtomicCreation'
  BY <1>9 DEF executeUpdate
<1>10. ASSUME NEW t \in Thread, rollbackTransaction(t) PROVE AtomicCreation'
  BY <1>10 DEF rollbackTransaction, undo
<1>11. ASSUME NEW t \in Thread, createFails(t) PROVE AtomicCreation'
  BY <1>11 DEF createFails
<1> QED BY <1>1, <1>2, <1>3, <1>4, <1>5, <1>6, <1>7, <1>8, <1>9, <1>10, <1>11 DEF Next, Step

\* A new row has a new number; the lock keeps others from the row id of the
\* connection until it has been read, and from rolling the row back.
LEMMA RowsApartStep ==
    ASSUME SessionInv, Next, interleaved' = {}
    PROVE  RowsApart'
<1> USE IdType
<1> USE DEF SessionInv, TypeInv, TypeOK, Local, PC, IdsFit, LockInv, RowsApart,
       goto, idle, Idle, database, tables, keepCommitted
<1>1. ASSUME NEW t \in Thread, Request(t) PROVE RowsApart'
  BY <1>1 DEF Request, authenticate, updateNextSong, request
<1>2. ASSUME NEW t \in Thread, startTransaction(t) PROVE RowsApart'
  BY <1>2 DEF startTransaction
<1>3. ASSUME NEW t \in Thread, insertSession(t) PROVE RowsApart'
  <2>1. /\ thread'[t] = [pc |-> "select", row |-> sequence + 1, sid |-> None]
        /\ \A u \in Thread \ {t} : thread'[u] = thread[u]
        /\ sequence' = sequence + 1 /\ lastRowid' = sequence + 1
    BY <1>3 DEF insertSession
  <2>2. committed'[2] \in {committed[2], sequence + 1}
    BY <1>3 DEF insertSession
  <2>3. \A u \in Thread : u # t => thread[u].pc # "select"
    BY <1>3 DEF insertSession
  <2>4. \A u \in Thread : HasRow(u) => thread[u].row \in Nat /\ thread[u].row < sequence + 1
    BY RowNumbers
  <2> QED BY <2>1, <2>2, <2>3, <2>4
<1>4. ASSUME NEW t \in Thread, selectId(t) PROVE RowsApart'
  BY <1>4 DEF selectId
<1>5. ASSUME NEW t \in Thread, stopTransaction(t) PROVE RowsApart'
  BY <1>5 DEF stopTransaction
<1>6. ASSUME NEW t \in Thread, putSession(t) PROVE RowsApart'
  BY <1>6 DEF putSession
<1>7. ASSUME NEW t \in Thread, destroySession(t) PROVE RowsApart'
  BY <1>7 DEF destroySession
<1>8. ASSUME NEW t \in Thread, rate(t) PROVE RowsApart'
  BY <1>8 DEF rate
<1>9. ASSUME NEW t \in Thread, executeUpdate(t) PROVE RowsApart'
  BY <1>9 DEF executeUpdate
<1>10. ASSUME NEW t \in Thread, rollbackTransaction(t) PROVE RowsApart'
  BY <1>10 DEF rollbackTransaction, undo
<1>11. ASSUME NEW t \in Thread, createFails(t) PROVE RowsApart'
  BY <1>11 DEF createFails
<1> QED BY <1>1, <1>2, <1>3, <1>4, <1>5, <1>6, <1>7, <1>8, <1>9, <1>10, <1>11 DEF Next, Step

\* A thread that ends its transaction keeps its row or is done.
LEMMA StopLeaves ==
    ASSUME TypeOK, NEW t \in Thread, stopTransaction(t), NEW u \in Thread
    PROVE  \/ thread'[u] = thread[u]
           \/ thread'[u].pc = "put" /\ thread'[u].row = thread[u].row /\ HasRow(u)
           \/ thread'[u].pc = "idle"
<1>1. \/ thread[t].pc = "commit" /\ thread' = [thread EXCEPT ![t].pc = "put"]
      \/ thread' = [thread EXCEPT ![t] = Idle]
  BY DEF stopTransaction, goto, idle
<1>2. thread \in [Thread -> Local]
  BY DEF TypeOK
<1>3. CASE u # t
  BY <1>1, <1>2, <1>3
<1>4. CASE u = t
  BY <1>1, <1>2, <1>4 DEF Idle, Local
<1> QED BY <1>3, <1>4

\* A commit only adds to what is committed.
LEMMA KnownStop ==
    ASSUME SessionInv, NEW t \in Thread, stopTransaction(t)
    PROVE  KnownCommitted'
<1>1. committed' \in {committed, tables} /\ known' = known
  BY DEF stopTransaction
<1>2. /\ committed \in (SUBSET Id) \X (0..MaxSessions) /\ sequence \in 0..MaxSessions
      /\ known \subseteq Id /\ committed[2] <= sequence /\ TypeOK
  BY DEF SessionInv, TypeInv, TypeOK, IdsFit
<1>3. committed[2] \in Nat /\ committed'[2] \in Nat /\ committed[2] <= committed'[2]
  BY <1>1, <1>2, IdType DEF tables
<1>4. \A i \in known' : i <= committed'[2]
  <2>1. \A i \in known : i \in Nat /\ i <= committed[2]
    BY <1>2, IdType DEF SessionInv, KnownCommitted
  <2> QED BY <1>1, <1>3, <2>1
<1>5. ASSUME NEW u \in Thread
      PROVE  /\ HasRow(u)' => thread'[u].row \notin known'
             /\ thread'[u].pc \in {"destroy", "vote", "like"} => thread'[u].sid \in known'
  <2>1. \/ thread'[u] = thread[u]
        \/ thread'[u].pc = "put" /\ thread'[u].row = thread[u].row /\ HasRow(u)
        \/ thread'[u].pc = "idle"
    BY <1>2, StopLeaves
  <2> QED BY <1>1, <2>1 DEF SessionInv, KnownCommitted
<1> QED BY <1>4, <1>5 DEF KnownCommitted

\* What becomes known has been committed, and belongs to the thread that tells.
LEMMA KnownCommittedStep ==
    ASSUME SessionInv, Next
    PROVE  KnownCommitted'
<1> USE IdType
<1> USE DEF SessionInv, TypeInv, TypeOK, Local, PC, IdsFit, LockInv, AtomicCreation, RowsApart,
       KnownCommitted, goto, idle, Idle, database, tables, keepCommitted
<1>1. ASSUME NEW t \in Thread, Request(t) PROVE KnownCommitted'
  BY <1>1 DEF Request, authenticate, updateNextSong, request
<1>2. ASSUME NEW t \in Thread, startTransaction(t) PROVE KnownCommitted'
  BY <1>2 DEF startTransaction
<1>3. ASSUME NEW t \in Thread, insertSession(t) PROVE KnownCommitted'
  BY <1>3 DEF insertSession
<1>4. ASSUME NEW t \in Thread, selectId(t) PROVE KnownCommitted'
  BY <1>4 DEF selectId
<1>5. ASSUME NEW t \in Thread, stopTransaction(t) PROVE KnownCommitted'
  BY <1>5, KnownStop
<1>6. ASSUME NEW t \in Thread, putSession(t) PROVE KnownCommitted'
  BY <1>6 DEF putSession
<1>7. ASSUME NEW t \in Thread, destroySession(t) PROVE KnownCommitted'
  BY <1>7 DEF destroySession
<1>8. ASSUME NEW t \in Thread, rate(t) PROVE KnownCommitted'
  BY <1>8 DEF rate
<1>9. ASSUME NEW t \in Thread, executeUpdate(t) PROVE KnownCommitted'
  BY <1>9 DEF executeUpdate
<1>10. ASSUME NEW t \in Thread, rollbackTransaction(t) PROVE KnownCommitted'
  BY <1>10 DEF rollbackTransaction, undo
<1>11. ASSUME NEW t \in Thread, createFails(t) PROVE KnownCommitted'
  BY <1>11 DEF createFails
<1> QED BY <1>1, <1>2, <1>3, <1>4, <1>5, <1>6, <1>7, <1>8, <1>9, <1>10, <1>11 DEF Next, Step

\* Only destroySession removes rows of sessions that clients know, and with them
\* the entries of the map.
LEMMA RowsCommittedStep ==
    ASSUME SessionInv, Next
    PROVE  RowsCommitted'
<1> USE IdType
<1> USE DEF SessionInv, TypeInv, TypeOK, Local, PC, IdsFit, LockInv, AtomicCreation, Mapped,
       KnownCommitted, RowsCommitted, goto, idle, Idle, database, tables, keepCommitted
<1>1. ASSUME NEW t \in Thread, Request(t) PROVE RowsCommitted'
  BY <1>1 DEF Request, authenticate, updateNextSong, request
<1>2. ASSUME NEW t \in Thread, startTransaction(t) PROVE RowsCommitted'
  BY <1>2 DEF startTransaction
<1>3. ASSUME NEW t \in Thread, insertSession(t) PROVE RowsCommitted'
  BY <1>3 DEF insertSession
<1>4. ASSUME NEW t \in Thread, selectId(t) PROVE RowsCommitted'
  BY <1>4 DEF selectId
<1>5. ASSUME NEW t \in Thread, stopTransaction(t) PROVE RowsCommitted'
  BY <1>5 DEF stopTransaction
<1>6. ASSUME NEW t \in Thread, putSession(t) PROVE RowsCommitted'
  BY <1>6 DEF putSession
<1>7. ASSUME NEW t \in Thread, destroySession(t) PROVE RowsCommitted'
  BY <1>7 DEF destroySession
<1>8. ASSUME NEW t \in Thread, rate(t) PROVE RowsCommitted'
  BY <1>8 DEF rate
<1>9. ASSUME NEW t \in Thread, executeUpdate(t) PROVE RowsCommitted'
  BY <1>9 DEF executeUpdate
<1>10. ASSUME NEW t \in Thread, rollbackTransaction(t) PROVE RowsCommitted'
  BY <1>10 DEF rollbackTransaction, undo
<1>11. ASSUME NEW t \in Thread, createFails(t) PROVE RowsCommitted'
  BY <1>11 DEF createFails
<1> QED BY <1>1, <1>2, <1>3, <1>4, <1>5, <1>6, <1>7, <1>8, <1>9, <1>10, <1>11 DEF Next, Step

-----------------------------------------------------------------------------
(***************************************************************************)
(* The theorems.                                                           *)
(***************************************************************************)
LEMMA InitInv == Init => SessionInv /\ interleaved = {}
<1> SUFFICES ASSUME Init PROVE SessionInv /\ interleaved = {}
  OBVIOUS
<1> USE IdType, SessionBoundsAssumption DEF Init, Idle, tables
<1>1. thread \in [Thread -> Local]
  BY DEF Local, PC
<1>2. TypeOK
  <2>1. committed \in (SUBSET Id) \X (0..MaxSessions)
    BY DEF Id
  <2>2. sequence \in 0..MaxSessions /\ failures \in 0..MaxFailures
    OBVIOUS
  <2>3. sessionMap \in [Id -> Id \cup {None}] /\ autoCommit \in BOOLEAN /\ rolledBack \in BOOLEAN
    OBVIOUS
  <2> QED BY <1>1, <2>1, <2>2, <2>3 DEF TypeOK
<1>3. Creating = {} /\ Cardinality({}) = 0
  BY FS_EmptySet DEF Creating
<1>4. IdsFit
  BY <1>3 DEF IdsFit
<1>5. LockInv
  BY DEF LockInv
<1>6. AtomicCreation /\ RowsApart /\ KnownCommitted /\ RowsCommitted
  BY DEF AtomicCreation, RowsApart, KnownCommitted, RowsCommitted, Mapped
<1> QED BY <1>2, <1>4, <1>5, <1>6 DEF SessionInv, TypeInv

\* Types, and the lock of a transaction, whatever ratings do.
THEOREM Transactions == Spec => [](TypeInv /\ LockInv)
<1>1. Init => TypeInv /\ LockInv
  BY InitInv DEF SessionInv
<1>2. TypeInv /\ LockInv /\ [Next]_vars => (TypeInv /\ LockInv)'
  BY TypeOKStep, IdsFitStep, LockStep DEF TypeInv
<1> QED BY <1>1, <1>2, PTL DEF Spec

\* The tables, the map, the lock and the threads of SessionManager keep their
\* types; in particular nobody is told an id that is none.
THEOREM TypeCorrect == Spec => []TypeOK
<1>1. TypeInv /\ LockInv => TypeOK
  BY DEF TypeInv
<1> QED BY Transactions, <1>1, PTL

\* transactionLock does what it is for: two threads are never both between
\* startTransaction and the end of their transactions, although a commit may
\* throw and a rollback keeps the lock.
THEOREM TransactionsApart == Spec => [](\A t, u \in InTransaction : t = u)
<1>1. TypeInv /\ LockInv => \A t, u \in InTransaction : t = u
  BY DEF LockInv
<1> QED BY Transactions, <1>1, PTL

\* As long as no transaction has been rolled back, the lock is free or held,
\* once, by a thread that is in its transaction and will release it.
LockIsUsed ==
    ~rolledBack => \/ lock.owner = NoThread
                   \/ lock.owner \in InTransaction /\ lock.count = 1

\* stopTransaction releases the lock when it commits and when it throws, and so
\* does a rollback that throws.
LEMMA LockIsUsedStep ==
    ASSUME TypeInv, LockInv, LockIsUsed, Next
    PROVE  LockIsUsed'
<1> USE ThreadAssumption
<1> USE DEF TypeInv, TypeOK, Local, PC, LockInv, LockIsUsed, goto, idle, Idle,
       lockTransaction, unlock, history
<1>1. ASSUME NEW t \in Thread, Request(t) PROVE LockIsUsed'
  BY <1>1 DEF Request, authenticate, updateNextSong, request
<1>2. ASSUME NEW t \in Thread, startTransaction(t) PROVE LockIsUsed'
  BY <1>2 DEF startTransaction
<1>3. ASSUME NEW t \in Thread, insertSession(t) PROVE LockIsUsed'
  BY <1>3 DEF insertSession
<1>4. ASSUME NEW t \in Thread, selectId(t) PROVE LockIsUsed'
  BY <1>4 DEF selectId
<1>5. ASSUME NEW t \in Thread, stopTransaction(t) PROVE LockIsUsed'
  BY <1>5 DEF stopTransaction
<1>6. ASSUME NEW t \in Thread, putSession(t) PROVE LockIsUsed'
  BY <1>6 DEF putSession
<1>7. ASSUME NEW t \in Thread, destroySession(t) PROVE LockIsUsed'
  BY <1>7 DEF destroySession
<1>8. ASSUME NEW t \in Thread, rate(t) PROVE LockIsUsed'
  BY <1>8 DEF rate
<1>9. ASSUME NEW t \in Thread, executeUpdate(t) PROVE LockIsUsed'
  BY <1>9 DEF executeUpdate
<1>10. ASSUME NEW t \in Thread, rollbackTransaction(t) PROVE LockIsUsed'
  BY <1>10 DEF rollbackTransaction, undo
<1>11. ASSUME NEW t \in Thread, createFails(t) PROVE LockIsUsed'
  BY <1>11 DEF createFails
<1> QED BY <1>1, <1>2, <1>3, <1>4, <1>5, <1>6, <1>7, <1>8, <1>9, <1>10, <1>11 DEF Next, Step

\* The lock is not forgotten: whatever statements throw, only a rollback leaves
\* it with a thread that has no transaction.
THEOREM LockIsUsedTheorem == Spec => []LockIsUsed
<1>1. Init => LockIsUsed
  BY DEF Init, LockIsUsed
<1>2. ASSUME TypeInv /\ LockInv, LockIsUsed, [Next]_vars PROVE LockIsUsed'
  <2>1. CASE Next
    BY <1>2, <2>1, LockIsUsedStep
  <2>2. CASE UNCHANGED vars
    BY <1>2, <2>2 DEF vars, history, LockIsUsed
  <2> QED BY <1>2, <2>1, <2>2
<1> QED BY Transactions, <1>1, <1>2, PTL DEF Spec

LEMMA SessionInvStep ==
    ASSUME SessionInv, [Next]_vars, interleaved' = {}
    PROVE  SessionInv'
<1>1. TypeInv' /\ LockInv'
  BY TypeOKStep, IdsFitStep, LockStep DEF SessionInv, TypeInv
<1>2. CASE Next
  BY <1>1, <1>2, CreationStep, RowsApartStep, KnownCommittedStep, RowsCommittedStep DEF SessionInv
<1>3. CASE UNCHANGED vars
  <2>1. (AtomicCreation /\ RowsApart /\ KnownCommitted /\ RowsCommitted)'
    BY <1>3 DEF SessionInv, vars, database, tables, AtomicCreation, RowsApart, KnownCommitted,
                RowsCommitted, Mapped
  <2> QED BY <1>1, <2>1 DEF SessionInv
<1> QED BY <1>2, <1>3

\* What has come between stays in the history.
LEMMA InterleavedStays == [Next]_vars /\ interleaved' = {} => interleaved = {}
<1> SUFFICES ASSUME [Next]_vars, interleaved' = {} PROVE interleaved = {}
  OBVIOUS
<1>1. ASSUME NEW t \in Thread, rate(t) PROVE interleaved = {}
  BY <1>1 DEF rate
<1>2. ASSUME interleaved' = interleaved PROVE interleaved = {}
  BY <1>2
<1> QED BY <1>1, <1>2
        DEF Next, Request, Step, authenticate, updateNextSong, request, startTransaction, insertSession,
            selectId, stopTransaction, putSession, destroySession, executeUpdate, rollbackTransaction,
            createFails, vars, history

\* The invariant about sessions, until a rating comes between the INSERT of a
\* session and the SELECT of its id.
THEOREM Invariance == Spec => [](interleaved # {} \/ SessionInv)
<1>1. Init => SessionInv
  BY InitInv
<1>2. (interleaved # {} \/ SessionInv) /\ [Next]_vars => (interleaved # {} \/ SessionInv)'
  BY SessionInvStep, InterleavedStays
<1> QED BY <1>1, <1>2, PTL DEF Spec

\* A session in the map has its row in the table, whatever transactions are
\* rolled back, until a rating gives a client a wrong id.
THEOREM MapHasRowTheorem == Spec => []MapHasRow
<1>1. (interleaved # {} \/ SessionInv) => MapHasRow
  BY DEF SessionInv, RowsCommitted, MapHasRow
<1> QED BY Invariance, <1>1, PTL

\* The row id of the connection is that of the row whose id a thread is about
\* to read, unless a rating has come between.
OwnRowid ==
    \A t \in Thread :
       thread[t].pc = "select" /\ thread[t].row \notin interleaved => lastRowid = thread[t].row

\* Only ratings come between: other inserts of sessions wait for the lock.
LEMMA OwnStep ==
    ASSUME TypeInv, LockInv, OwnRowid, OwnSession, Next
    PROVE  OwnRowid' /\ OwnSession'
<1> USE IdType
<1> USE DEF TypeInv, TypeOK, Local, PC, IdsFit, LockInv, OwnSession, OwnRowid, Mapped, goto, idle, Idle,
       history, database, tables
<1>1. ASSUME NEW t \in Thread, Request(t) PROVE OwnRowid' /\ OwnSession'
  BY <1>1 DEF Request, authenticate, updateNextSong, request
<1>2. ASSUME NEW t \in Thread, startTransaction(t) PROVE OwnRowid' /\ OwnSession'
  BY <1>2 DEF startTransaction
<1>3. ASSUME NEW t \in Thread, insertSession(t) PROVE OwnRowid' /\ OwnSession'
  BY <1>3 DEF insertSession
<1>4. ASSUME NEW t \in Thread, selectId(t) PROVE OwnRowid' /\ OwnSession'
  BY <1>4 DEF selectId
<1>5. ASSUME NEW t \in Thread, stopTransaction(t) PROVE OwnRowid' /\ OwnSession'
  BY <1>5 DEF stopTransaction
<1>6. ASSUME NEW t \in Thread, putSession(t) PROVE OwnRowid' /\ OwnSession'
  BY <1>6 DEF putSession
<1>7. ASSUME NEW t \in Thread, destroySession(t) PROVE OwnRowid' /\ OwnSession'
  BY <1>7 DEF destroySession
<1>8. ASSUME NEW t \in Thread, rate(t) PROVE OwnRowid' /\ OwnSession'
  <2>1. /\ \A u \in Thread : u # t => thread'[u] = thread[u]
        /\ thread'[t].pc = "idle" /\ sessionMap' = sessionMap
        /\ interleaved \subseteq interleaved'
        /\ \A u \in Thread : thread[u].pc = "select" => thread[u].row \in interleaved'
    BY <1>8 DEF rate
  <2> QED BY <2>1
<1>9. ASSUME NEW t \in Thread, executeUpdate(t) PROVE OwnRowid' /\ OwnSession'
  BY <1>9 DEF executeUpdate
<1>10. ASSUME NEW t \in Thread, rollbackTransaction(t) PROVE OwnRowid' /\ OwnSession'
  BY <1>10 DEF rollbackTransaction, undo
<1>11. ASSUME NEW t \in Thread, createFails(t) PROVE OwnRowid' /\ OwnSession'
  BY <1>11 DEF createFails
<1> QED BY <1>1, <1>2, <1>3, <1>4, <1>5, <1>6, <1>7, <1>8, <1>9, <1>10, <1>11 DEF Next, Step

\* A client whose id was read before the next rating has the id of its own row,
\* and the map holds its session under it, whatever happens to other clients.
THEOREM OwnSessionTheorem == Spec => []OwnSession
<1>1. Init => OwnRowid /\ OwnSession
  BY DEF Init, Idle, OwnRowid, OwnSession, Mapped
<1>2. ASSUME TypeInv /\ LockInv, OwnRowid /\ OwnSession, [Next]_vars PROVE (OwnRowid /\ OwnSession)'
  <2>1. CASE Next
    BY <1>2, <2>1, OwnStep
  <2>2. CASE UNCHANGED vars
    BY <1>2, <2>2 DEF vars, history, database, OwnRowid, OwnSession, Mapped
  <2> QED BY <1>2, <2>1, <2>2
<1> QED BY Transactions, <1>1, <1>2, PTL DEF Spec

\* Known ids have been given out.
LEMMA KnownAreBelow ==
    ASSUME SessionInv, NEW i \in known
    PROVE  i \in Nat /\ sequence \in Nat /\ i <= sequence
<1>1. committed \in (SUBSET Id) \X (0..MaxSessions) /\ i \in Id /\ sequence \in 0..MaxSessions
  BY DEF SessionInv, TypeInv, TypeOK
<1>2. committed[2] \in 0..MaxSessions
  BY <1>1
<1>3. committed[2] \in Nat /\ i \in Nat /\ sequence \in Nat
  BY <1>1, <1>2, IdType DEF Id
<1>4. i <= committed[2] /\ committed[2] <= sequence
  BY DEF SessionInv, TypeInv, IdsFit, KnownCommitted
<1> QED BY <1>3, <1>4

\* Until a rating gives a client a wrong id, the id of a session that was
\* destroyed is not given to another client. The step of a rollback is not
\* covered: it brings the row back if destroySession ran in its transaction.
THEOREM DestroyedStaysGoneTheorem == Spec => DestroyedStaysGone
<1> DEFINE Gone == interleaved = {} =>
                      \A i \in known \ sessions :
                         i \in sessions' => \E t \in Thread : thread[t].pc = "rollback"
<1>1. ASSUME interleaved # {} \/ SessionInv, [Next]_vars PROVE [Gone]_vars
  <2> SUFFICES ASSUME Next, SessionInv, NEW i \in known \ sessions, i \in sessions',
                      \A t \in Thread : thread[t].pc # "rollback"
               PROVE  FALSE
    BY <1>1
  <2>2. i # sequence + 1
    BY <1>1, KnownAreBelow
  <2>3. ASSUME NEW t \in Thread, insertSession(t) PROVE FALSE
    BY <2>2, <2>3 DEF insertSession
  <2>4. ASSUME NEW t \in Thread, destroySession(t) PROVE FALSE
    BY <2>4 DEF destroySession
  <2>5. ASSUME NEW t \in Thread, rollbackTransaction(t) PROVE FALSE
    BY <2>5 DEF rollbackTransaction, undo
  <2>6. ASSUME sessions' = sessions PROVE FALSE
    BY <2>6
  <2> QED BY <2>3, <2>4, <2>5, <2>6
          DEF Next, Request, Step, authenticate, updateNextSong, request, startTransaction, selectId,
              stopTransaction, putSession, rate, executeUpdate, createFails, database, tables
<1> QED BY Invariance, <1>1, PTL DEF Spec, DestroyedStaysGone

-----------------------------------------------------------------------------
(***************************************************************************)
(* Rows that nobody knows.                                                 *)
(***************************************************************************)
LEMMA GhostsFinite ==
    ASSUME TypeOK
    PROVE  IsFiniteSet(Ghosts) /\ Cardinality(Ghosts) \in Nat
<1>1. Ghosts \subseteq 1..MaxSessions
  BY DEF Ghosts, TypeOK, Id
<1>2. IsFiniteSet(1..MaxSessions)
  BY IdType, FS_Interval
<1>3. IsFiniteSet(Ghosts)
  BY <1>1, <1>2, FS_Subset
<1> QED BY <1>3, FS_CardinalityType

\* The row of a thread that is counted with the sessions on their way.
OnItsWay == {thread[t].row : t \in {u \in Thread : thread[u].pc \in {"select", "commit", "put"}}}

\* The row of a session that is created goes to the map, and leaves the table
\* together with the map's entry; a thread that leaves its row alone on the way
\* has met an exception.
LEMMA GhostStep ==
    ASSUME SessionInv, Next, interleaved' = {}, ~rolledBack'
    PROVE  \/ Ghosts' \subseteq Ghosts /\ failures' >= failures
           \/ \E r : Ghosts' \subseteq Ghosts \cup {r} /\ failures' = failures + 1
<1> DEFINE Fine == Ghosts' \subseteq Ghosts /\ failures' >= failures
           One  == \E r : Ghosts' \subseteq Ghosts \cup {r} /\ failures' = failures + 1
<1> SUFFICES Fine \/ One
  OBVIOUS
<1>0. /\ thread \in [Thread -> Local] /\ failures \in Nat
      /\ sessionMap \in [Id -> Id \cup {None}]
      /\ Ghosts = sessions \ (Mapped \cup OnItsWay)
      /\ Ghosts' = sessions' \ (Mapped' \cup OnItsWay')
  BY SessionBoundsAssumption DEF SessionInv, TypeInv, TypeOK, Ghosts, OnItsWay
<1>a. ASSUME sessions' \subseteq sessions, Mapped' = Mapped, OnItsWay \subseteq OnItsWay', failures' >= failures
      PROVE  Fine
  BY <1>0, <1>a
<1>b. ASSUME NEW t \in Thread, sessions' = sessions, Mapped' = Mapped, failures' = failures + 1,
             \A u \in Thread \ {t} : thread'[u] = thread[u]
      PROVE  One
  <2>1. OnItsWay \subseteq OnItsWay' \cup {thread[t].row}
    BY <1>b DEF OnItsWay
  <2>2. Ghosts' \subseteq Ghosts \cup {thread[t].row}
    BY <1>0, <1>b, <2>1
  <2> QED BY <1>b, <2>2
<1>c. ASSUME NEW t \in Thread, thread[t].pc \notin {"select", "commit", "put"},
             \A u \in Thread \ {t} : thread'[u] = thread[u]
      PROVE  OnItsWay \subseteq OnItsWay'
  BY <1>c DEF OnItsWay
<1> HIDE DEF Fine, One
<1> USE DEF Local, PC, goto, idle, Idle, history, database, tables
<1>1. ASSUME NEW t \in Thread, Request(t) PROVE Fine
  <2>1. OnItsWay \subseteq OnItsWay'
    BY <1>0, <1>1, <1>c DEF Request, authenticate, updateNextSong, request
  <2> QED BY <1>0, <1>1, <1>a, <2>1 DEF Request, authenticate, updateNextSong, request, Mapped
<1>2. ASSUME NEW t \in Thread, startTransaction(t) PROVE Fine
  <2>1. OnItsWay \subseteq OnItsWay'
    BY <1>0, <1>2, <1>c DEF startTransaction
  <2> QED BY <1>0, <1>2, <1>a, <2>1 DEF startTransaction, Mapped
<1>3. ASSUME NEW t \in Thread, insertSession(t) PROVE Fine
  <2>1. OnItsWay \subseteq OnItsWay'
    BY <1>0, <1>3, <1>c DEF insertSession
  <2>2. sequence + 1 \in OnItsWay'
    <3>1. thread'[t] = [pc |-> "select", row |-> sequence + 1, sid |-> None]
      BY <1>0, <1>3 DEF insertSession
    <3> QED BY <3>1 DEF OnItsWay
  <2>3. sessions' = sessions \cup {sequence + 1} /\ Mapped' = Mapped /\ failures' = failures
    BY <1>3 DEF insertSession, Mapped
  <2> QED BY <1>0, <2>1, <2>2, <2>3 DEF Fine
<1>4. ASSUME NEW t \in Thread, selectId(t) PROVE Fine
  <2>1. /\ \A u \in Thread : thread'[u].row = thread[u].row
        /\ \A u \in Thread : thread[u].pc \in {"select", "commit", "put"} =>
                                thread'[u].pc \in {"select", "commit", "put"}
    BY <1>0, <1>4 DEF selectId
  <2>2. OnItsWay \subseteq OnItsWay'
    BY <2>1 DEF OnItsWay
  <2> QED BY <1>0, <1>4, <1>a, <2>2 DEF selectId, Mapped
<1>5. ASSUME NEW t \in Thread, stopTransaction(t) PROVE Fine \/ One
  <2>0. sessions' = sessions /\ Mapped' = Mapped /\ \A u \in Thread \ {t} : thread'[u] = thread[u]
    BY <1>0, <1>5 DEF stopTransaction, Mapped
  <2>1. CASE failures' = failures + 1
    BY <1>b, <2>0, <2>1
  <2>2. CASE failures' = failures /\ thread[t].pc = "commit" /\ goto(t, "put")
    <3>1. /\ \A u \in Thread : thread'[u].row = thread[u].row
          /\ \A u \in Thread : thread[u].pc \in {"select", "commit", "put"} =>
                                  thread'[u].pc \in {"select", "commit", "put"}
      BY <1>0, <2>2
    <3>2. OnItsWay \subseteq OnItsWay'
      BY <3>1 DEF OnItsWay
    <3> QED BY <1>0, <1>a, <2>0, <2>2, <3>2
  <2>3. CASE failures' = failures /\ thread[t].pc \in {"finally", "executed"}
    <3>1. OnItsWay \subseteq OnItsWay'
      BY <1>c, <2>0, <2>3
    <3> QED BY <1>0, <1>a, <2>0, <2>3, <3>1
  <2> QED BY <1>5, <2>1, <2>2, <2>3 DEF stopTransaction
<1>6. ASSUME NEW t \in Thread, putSession(t) PROVE Fine
  <2>1. /\ thread[t].sid = thread[t].row /\ thread[t].row \in Id
        /\ sessionMap' = [sessionMap EXCEPT ![thread[t].sid] = thread[t].row]
        /\ sessions' = sessions /\ failures' = failures
        /\ \A u \in Thread \ {t} : thread'[u] = thread[u]
    BY <1>0, <1>6 DEF putSession, SessionInv, TypeInv, IdsFit, AtomicCreation
  <2>2. Mapped' = Mapped \cup {thread[t].row}
    BY <1>0, <2>1, IdType DEF Mapped
  <2>3. OnItsWay \subseteq OnItsWay' \cup {thread[t].row}
    BY <2>1 DEF OnItsWay
  <2> QED BY <1>0, <2>1, <2>2, <2>3 DEF Fine
<1>7. ASSUME NEW t \in Thread, destroySession(t) PROVE Fine
  <2>1. /\ sessions' = sessions \ {thread[t].sid} /\ failures' = failures
        /\ Mapped' = Mapped \ {thread[t].sid}
    BY <1>0, <1>7 DEF destroySession, Mapped
  <2>2. OnItsWay \subseteq OnItsWay'
    BY <1>0, <1>7, <1>c DEF destroySession
  <2> QED BY <1>0, <2>1, <2>2 DEF Fine
<1>8. ASSUME NEW t \in Thread, rate(t) PROVE Fine
  <2>1. OnItsWay \subseteq OnItsWay'
    BY <1>0, <1>8, <1>c DEF rate
  <2> QED BY <1>0, <1>8, <1>a, <2>1 DEF rate, Mapped
<1>9. ASSUME NEW t \in Thread, executeUpdate(t) PROVE Fine
  <2>1. OnItsWay \subseteq OnItsWay'
    BY <1>0, <1>9, <1>c DEF executeUpdate
  <2> QED BY <1>0, <1>9, <1>a, <2>1 DEF executeUpdate, Mapped
<1>10. ASSUME NEW t \in Thread, rollbackTransaction(t) PROVE Fine
  <2>1. sessions' = sessions /\ failures' = failures + 1 /\ Mapped' = Mapped
    BY <1>10 DEF rollbackTransaction, undo, Mapped
  <2>2. OnItsWay \subseteq OnItsWay'
    BY <1>0, <1>10, <1>c DEF rollbackTransaction, undo
  <2> QED BY <1>0, <1>a, <2>1, <2>2
<1>11. ASSUME NEW t \in Thread, createFails(t) PROVE One
  <2>1. /\ sessions' = sessions /\ failures' = failures + 1 /\ Mapped' = Mapped
        /\ \A u \in Thread \ {t} : thread'[u] = thread[u]
    BY <1>0, <1>11 DEF createFails, Mapped
  <2> QED BY <1>b, <2>1
<1> QED BY <1>1, <1>2, <1>3, <1>4, <1>5, <1>6, <1>7, <1>8, <1>9, <1>10, <1>11 DEF Next, Step

\* Each statement that throws in a creation leaves at most one row without a
\* session, until a rollback or a wrong id: getSessionCount is not further off.
THEOREM OneGhostPerFailureTheorem == Spec => []OneGhostPerFailure
<1>1. Init => OneGhostPerFailure
  <2>1. Init => Ghosts = {} /\ failures = 0
    BY DEF Init, Ghosts
  <2> QED BY <2>1, FS_EmptySet DEF OneGhostPerFailure
<1>2. ASSUME TypeInv /\ LockInv, (TypeInv /\ LockInv)', interleaved # {} \/ SessionInv,
             OneGhostPerFailure, [Next]_vars
      PROVE  OneGhostPerFailure'
  <2> SUFFICES ASSUME interleaved' = {}, ~rolledBack' PROVE Cardinality(Ghosts') <= failures'
    BY DEF OneGhostPerFailure
  <2>1. IsFiniteSet(Ghosts) /\ Cardinality(Ghosts) \in Nat
    BY <1>2, GhostsFinite DEF TypeInv
  <2>2. failures \in Nat /\ failures' \in Nat
    BY <1>2, SessionBoundsAssumption DEF TypeInv, TypeOK
  <2>3. interleaved = {} /\ SessionInv
    BY <1>2, InterleavedStays
  <2>4. CASE UNCHANGED vars
    BY <1>2, <2>4 DEF vars, history, database, tables, OneGhostPerFailure, Ghosts, Mapped
  <2>5. CASE Next
    <3>1. ~rolledBack
      BY <2>5 DEF Next, Request, Step, authenticate, updateNextSong, request, startTransaction, insertSession,
                  selectId, stopTransaction, putSession, destroySession, rate, executeUpdate,
                  rollbackTransaction, undo, createFails, history
    <3>2. Cardinality(Ghosts) <= failures
      BY <1>2, <2>3, <3>1 DEF OneGhostPerFailure
    <3>3. CASE Ghosts' \subseteq Ghosts /\ failures' >= failures
      <4>1. Cardinality(Ghosts') <= Cardinality(Ghosts) /\ Cardinality(Ghosts') \in Nat
        BY <2>1, <3>3, FS_Subset, FS_CardinalityType
      <4> QED BY <2>1, <2>2, <3>2, <3>3, <4>1
    <3>4. CASE \E r : Ghosts' \subseteq Ghosts \cup {r} /\ failures' = failures + 1
      <4>1. PICK r : Ghosts' \subseteq Ghosts \cup {r} /\ failures' = failures + 1
        BY <3>4
      <4>2. IsFiniteSet(Ghosts \cup {r}) /\ Cardinality(Ghosts \cup {r}) <= Cardinality(Ghosts) + 1
            /\ Cardinality(Ghosts \cup {r}) \in Nat
        BY <2>1, FS_AddElement, FS_CardinalityType
      <4>3. Cardinality(Ghosts') <= Cardinality(Ghosts \cup {r}) /\ Cardinality(Ghosts') \in Nat
        BY <4>1, <4>2, FS_Subset, FS_CardinalityType
      <4> QED BY <2>1, <2>2, <3>2, <4>1, <4>2, <4>3
    <3> QED BY <2>3, <2>5, <3>3, <3>4, GhostStep
  <2> QED BY <1>2, <2>4, <2>5
<1> QED BY Invariance, Transactions, <1>1, <1>2, PTL DEF Spec
=============================================================================
