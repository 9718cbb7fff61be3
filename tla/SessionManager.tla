--------------------------- MODULE SessionManager ---------------------------
(***************************************************************************)
(* SessionManager.java on DatabaseManager.java: sessions are created and   *)
(* destroyed by several netty threads that share one JDBC connection.      *)
(*                                                                         *)
(* A session is a row of the table sessions and an entry of sessionMap.    *)
(* createSession inserts the row inside a transaction, asks the connection *)
(* for the id of the row inserted last, commits and puts the new Session   *)
(* into the map. transactionLock keeps transactions apart, but only those: *)
(* ratings and destroySession write on the same connection without it, and *)
(* belong to whatever transaction is open. SongManager.updateNextSong is   *)
(* the other user of transactions, and the only one that rolls back.       *)
(*                                                                         *)
(* A statement is one action. Any statement of a transaction may throw.    *)
(***************************************************************************)
EXTENDS Integers, FiniteSets

CONSTANTS
    Thread,        \* netty's worker threads
    NoThread,      \* the owner of a lock nobody holds
    MaxSessions,   \* bound: rows ever inserted into sessions
    MaxFailures    \* bound: statements that throw

ASSUME ThreadAssumption == IsFiniteSet(Thread) /\ NoThread \notin Thread
ASSUME SessionBoundsAssumption == MaxSessions \in Nat /\ MaxFailures \in Nat

VARIABLES
    sessions,     \* ids of the rows of the table sessions
    sequence,     \* the largest id ever given out (sqlite_sequence)
    lastRowid,    \* LAST_INSERT_ROWID() of the connection
    committed,    \* the tables a rollback returns to
    autoCommit,   \* connection.getAutoCommit()
    lock,         \* transactionLock: its owner and hold count
    sessionMap,   \* sessionMap[i]: the session stored under i, named by its row; or 0
    known,        \* ids that clients have been sent
    thread,       \* thread[t]: the request t handles, its row and its session id
    failures,     \* statements that have thrown
    rolledBack,   \* history: a transaction has been rolled back
    interleaved   \* history: rows with a rating between their INSERT and the SELECT of the id

tables   == <<sessions, sequence>>
database == <<tables, lastRowid, committed, autoCommit>>
history  == <<failures, rolledBack, interleaved>>
vars     == <<database, lock, sessionMap, known, thread, history>>

Id   == 1..MaxSessions
None == 0
Idle == [pc |-> "idle", row |-> None, sid |-> None]

Init ==
    /\ sessions = {} /\ sequence = 0
    /\ lastRowid = None
    /\ committed = tables /\ autoCommit = TRUE
    /\ lock = [owner |-> NoThread, count |-> 0]
    /\ sessionMap = [i \in Id |-> None]
    /\ known = {}
    /\ thread = [t \in Thread |-> Idle]
    /\ failures = 0 /\ rolledBack = FALSE /\ interleaved = {}

-----------------------------------------------------------------------------
(***************************************************************************)
(* DatabaseManager.                                                        *)
(***************************************************************************)
goto(t, pc) == thread' = [thread EXCEPT ![t].pc = pc]
idle(t)     == thread' = [thread EXCEPT ![t] = Idle]

\* What a step that changes tables leaves to roll back to.
keepCommitted == committed' = IF autoCommit THEN tables' ELSE committed

lockTransaction(t) == lock' = [owner |-> t, count |-> lock.count + 1]

unlock == lock' = IF lock.count = 1 THEN [owner |-> NoThread, count |-> 0]
                                    ELSE [lock EXCEPT !.count = @ - 1]

\* connection.rollback().
undo == sessions' = committed[1] /\ sequence' = committed[2] /\ rolledBack' = TRUE

\* The connection is switched to a transaction without the lock.
startTransactionBug(t) ==
    /\ thread[t].pc \in {"create", "update"}
    /\ autoCommit' = FALSE
    /\ goto(t, IF thread[t].pc = "create" THEN "insert" ELSE "execute")
    /\ UNCHANGED <<tables, lastRowid, committed, lock, sessionMap, known, history>>

\* startTransaction. If setAutoCommit throws, so does the commit or rollback
\* outside a transaction that follows, which releases the lock.
startTransaction(t) ==
    /\ thread[t].pc \in {"create", "update"}
    /\ lock.owner \in {NoThread, t}
    /\ \/ /\ lockTransaction(t) /\ autoCommit' = FALSE
          /\ goto(t, IF thread[t].pc = "create" THEN "insert" ELSE "execute")
          /\ UNCHANGED failures
       \/ /\ autoCommit /\ failures < MaxFailures /\ failures' = failures + 1
          /\ idle(t)
          /\ UNCHANGED <<lock, autoCommit>>
    /\ UNCHANGED <<tables, lastRowid, committed, sessionMap, known, rolledBack, interleaved>>

\* The lock is kept when the commit throws.
stopTransactionBug(t) ==
    /\ thread[t].pc \in {"commit", "finally", "executed"}
    /\ \/ /\ committed' = tables /\ autoCommit' = TRUE
          /\ unlock
          /\ IF thread[t].pc = "commit" THEN goto(t, "put") ELSE idle(t)
          /\ UNCHANGED failures
       \/ /\ failures < MaxFailures /\ failures' = failures + 1
          /\ idle(t)
          /\ UNCHANGED <<committed, autoCommit, lock>>
    /\ UNCHANGED <<tables, lastRowid, sessionMap, known, rolledBack, interleaved>>

\* stopTransaction: commit; or throw with the connection still in the
\* transaction; or commit and then throw in setAutoCommit, which may or may not
\* have done its work. The lock is released in every case.
stopTransaction(t) ==
    /\ thread[t].pc \in {"commit", "finally", "executed"}
    /\ unlock
    /\ \/ /\ committed' = tables /\ autoCommit' = TRUE
          /\ IF thread[t].pc = "commit" THEN goto(t, "put") ELSE idle(t)
          /\ UNCHANGED failures
       \/ /\ failures < MaxFailures /\ failures' = failures + 1
          /\ idle(t)
          /\ \/ UNCHANGED <<committed, autoCommit>>
             \/ committed' = tables /\ autoCommit' \in BOOLEAN
    /\ UNCHANGED <<tables, lastRowid, sessionMap, known, rolledBack, interleaved>>

\* rollbackTransaction: everything since the last commit is undone, whoever
\* did it, and the lock is kept; or rollback or setAutoCommit throws, and the
\* lock is released.
rollbackTransaction(t) ==
    /\ thread[t].pc = "rollback"
    /\ idle(t)
    /\ \/ /\ undo /\ autoCommit' = TRUE
          /\ UNCHANGED <<lock, failures>>
       \/ /\ failures < MaxFailures /\ failures' = failures + 1
          /\ unlock
          /\ \/ UNCHANGED <<tables, autoCommit, rolledBack>>
             \/ undo /\ autoCommit' \in BOOLEAN
    /\ UNCHANGED <<lastRowid, committed, sessionMap, known, interleaved>>

-----------------------------------------------------------------------------
(***************************************************************************)
(* createSession.                                                          *)
(***************************************************************************)
\* A client has sent its pin; the pin is right.
authenticate(t) ==
    /\ thread[t] = Idle
    /\ sequence + Cardinality({u \in Thread : thread[u].pc \in {"create", "insert"}}) < MaxSessions
    /\ goto(t, "create")
    /\ UNCHANGED <<database, lock, sessionMap, known, history>>

\* Without AUTOINCREMENT: the smallest id that is free.
insertSessionBug(t) ==
    /\ thread[t].pc = "insert"
    /\ \E i \in Id \ sessions :
          /\ \A j \in Id \ sessions : i <= j
          /\ sequence' = IF i > sequence THEN i ELSE sequence
          /\ sessions' = sessions \cup {i}
          /\ lastRowid' = i
          /\ thread' = [thread EXCEPT ![t] = [pc |-> "select", row |-> i, sid |-> None]]
    /\ keepCommitted
    /\ UNCHANGED <<autoCommit, lock, sessionMap, known, history>>

\* INSERT INTO sessions, whose id is AUTOINCREMENT.
insertSession(t) ==
    /\ thread[t].pc = "insert"
    /\ sequence' = sequence + 1
    /\ sessions' = sessions \cup {sequence + 1}
    /\ lastRowid' = sequence + 1
    /\ thread' = [thread EXCEPT ![t] = [pc |-> "select", row |-> sequence + 1, sid |-> None]]
    /\ keepCommitted
    /\ UNCHANGED <<autoCommit, lock, sessionMap, known, history>>

\* SELECT LAST_INSERT_ROWID() and the row of the child table. Nothing reads
\* that row, nor its row id, which stands until the next INSERT.
selectId(t) ==
    /\ thread[t].pc = "select"
    /\ thread' = [thread EXCEPT ![t] = [pc |-> "commit", row |-> @.row, sid |-> lastRowid]]
    /\ UNCHANGED <<database, lock, sessionMap, known, history>>

\* The exception is swallowed.
createFailsBug(t) ==
    /\ thread[t].pc \in {"insert", "select"}
    /\ failures < MaxFailures /\ failures' = failures + 1
    /\ goto(t, "commit")
    /\ UNCHANGED <<database, lock, sessionMap, known, rolledBack, interleaved>>

\* A statement of createSession throws. The finally clause commits what has
\* been inserted.
createFails(t) ==
    /\ thread[t].pc \in {"insert", "select"}
    /\ failures < MaxFailures /\ failures' = failures + 1
    /\ goto(t, "finally")
    /\ UNCHANGED <<database, lock, sessionMap, known, rolledBack, interleaved>>

\* The map is filled with the id the client was created under.
putSession(t) ==
    /\ thread[t].pc = "put"
    /\ sessionMap' = [sessionMap EXCEPT ![thread[t].sid] = thread[t].row]
    /\ known' = known \cup {thread[t].sid}
    /\ idle(t)
    /\ UNCHANGED <<database, lock, history>>

-----------------------------------------------------------------------------
(***************************************************************************)
(* Other requests. validSession has looked at the row when they begin.     *)
(***************************************************************************)
validSession(i) == i \in sessions

request(t, i, pc) ==
    /\ thread[t] = Idle /\ i \in known /\ validSession(i)
    /\ thread' = [thread EXCEPT ![t] = [pc |-> pc, row |-> None, sid |-> i]]
    /\ UNCHANGED <<database, lock, sessionMap, known, history>>

\* The row stays.
destroySessionBug(t) ==
    /\ thread[t].pc = "destroy"
    /\ sessionMap' = [sessionMap EXCEPT ![thread[t].sid] = None]
    /\ idle(t)
    /\ UNCHANGED <<database, lock, known, history>>

\* The entry of the map stays.
destroySessionRowOnly(t) ==
    /\ thread[t].pc = "destroy"
    /\ sessions' = sessions \ {thread[t].sid}
    /\ UNCHANGED sequence
    /\ keepCommitted
    /\ idle(t)
    /\ UNCHANGED <<lastRowid, autoCommit, lock, sessionMap, known, history>>

\* destroySession: the row and the entry of the map.
destroySession(t) ==
    /\ thread[t].pc = "destroy"
    /\ sessions' = sessions \ {thread[t].sid}
    /\ sessionMap' = [sessionMap EXCEPT ![thread[t].sid] = None]
    /\ UNCHANGED sequence
    /\ keepCommitted
    /\ idle(t)
    /\ UNCHANGED <<lastRowid, autoCommit, lock, known, history>>

\* SongManager.vote, like and dislike. The primary key session_id of the table
\* votes is its row id; the table likes numbers its rows. Either number becomes
\* the connection's last row id.
rate(t) ==
    /\ thread[t].pc \in {"vote", "like"}
    /\ \/ thread[t].pc = "vote" /\ lastRowid' = thread[t].sid
       \/ thread[t].pc = "like" /\ lastRowid' \in Id
    /\ interleaved' = interleaved \cup {thread[u].row : u \in {v \in Thread : thread[v].pc = "select"}}
    /\ idle(t)
    /\ UNCHANGED <<tables, committed, autoCommit, lock, sessionMap, known, failures, rolledBack>>

\* SongManager.updateNextSong, in the monitor of the SongManager. Its
\* statements change the tables songs, votes and likes only.
updateNextSong(t) ==
    /\ thread[t] = Idle
    /\ \A u \in Thread : thread[u].pc \notin {"update", "execute", "executed", "rollback"}
    /\ goto(t, "update")
    /\ UNCHANGED <<database, lock, sessionMap, known, history>>

executeUpdate(t) ==
    /\ thread[t].pc = "execute"
    /\ \/ goto(t, "executed") /\ UNCHANGED failures
       \/ /\ failures < MaxFailures /\ failures' = failures + 1
          /\ goto(t, "rollback")
    /\ UNCHANGED <<database, lock, sessionMap, known, rolledBack, interleaved>>

-----------------------------------------------------------------------------
Request(t) ==
    \/ authenticate(t) \/ updateNextSong(t)
    \/ \E i \in Id, pc \in {"destroy", "vote", "like"} : request(t, i, pc)

Step(t) ==
    \/ insertSession(t) \/ selectId(t) \/ stopTransaction(t) \/ putSession(t)
    \/ destroySession(t) \/ rate(t)
    \/ executeUpdate(t) \/ rollbackTransaction(t)

Next == \E t \in Thread : Request(t) \/ startTransaction(t) \/ Step(t) \/ createFails(t)

Spec == Init /\ [][Next]_vars

\* A thread goes on with its request; a thread that waits for the lock is
\* queued and gets it when it has been free often enough.
FairSpec == Spec /\ \A t \in Thread : WF_vars(Step(t)) /\ SF_vars(startTransaction(t))
-----------------------------------------------------------------------------
PC == {"idle", "create", "insert", "select", "commit", "finally", "put", "destroy", "vote", "like",
       "update", "execute", "executed", "rollback"}

\* What a thread knows.
Local == [pc : PC, row : Id \cup {None}, sid : Id \cup {None}]

\* Every variable has its type.
TypeOK ==
    /\ sessions \subseteq Id /\ sequence \in 0..MaxSessions
    /\ lastRowid \in Id \cup {None}
    /\ committed \in (SUBSET Id) \X (0..MaxSessions)
    /\ autoCommit \in BOOLEAN
    /\ lock \in [owner : Thread \cup {NoThread}, count : Nat]
    /\ sessionMap \in [Id -> Id \cup {None}]
    /\ known \subseteq Id
    /\ thread \in [Thread -> Local]
    /\ failures \in 0..MaxFailures /\ rolledBack \in BOOLEAN
    /\ interleaved \subseteq Id

Mapped == {i \in Id : sessionMap[i] # None}

\* "Begin transaction to atomically create a new session": a client is given
\* the id of the row inserted for it, and the map holds its session under it.
AtomicCreation ==
    /\ \A t \in Thread : thread[t].pc \in {"commit", "put"} => thread[t].sid = thread[t].row
    /\ \A i \in Mapped : sessionMap[i] = i

\* So it is for every session whose id was read before the next rating,
\* although the id comes from the connection that all threads share, and
\* whatever went wrong for other sessions.
OwnSession ==
    /\ \A t \in Thread :
          thread[t].pc \in {"commit", "put"} /\ thread[t].row \notin interleaved =>
             thread[t].sid = thread[t].row
    /\ \A i \in Mapped : sessionMap[i] \notin interleaved => sessionMap[i] = i

\* A session in the map has a row, unless a client was given a wrong id:
\* validSession lets its requests pass, and broadcastUpdate, which reads the
\* rows first, reaches it. No rollback of another thread takes the row away.
MapHasRow == interleaved = {} => Mapped \subseteq sessions

\* Rows that are neither those of a session in the map nor of one on its way.
Ghosts ==
    sessions \ (Mapped \cup
       {thread[t].row : t \in {u \in Thread : thread[u].pc \in {"select", "commit", "put"}}})

\* A statement that throws in createSession, or the commit of its finally
\* clause, leaves at most one row without a session behind: getSessionCount,
\* and with it the number of dislikes that skip a song, is wrong by no more
\* than the number of exceptions. (A rollback may bring back the rows of any
\* number of destroyed sessions, a wrong id may hide the right one.)
OneGhostPerFailure == interleaved = {} /\ ~rolledBack => Cardinality(Ghosts) <= failures

\* The id of a session that was destroyed is not given to another client, even
\* after a rollback has reset the sequence, unless a client was given a wrong
\* id before. A rollback itself brings the row back if destroySession ran
\* while the transaction was open; that step is excepted.
DestroyedStaysGone ==
    [][interleaved = {} =>
         \A i \in known \ sessions : i \in sessions' => \E t \in Thread : thread[t].pc = "rollback"]_vars

\* A rollback has left the lock with a thread that is done.
LockKept == rolledBack /\ lock.owner \in Thread /\ thread[lock.owner] = Idle

\* Every request comes to its end, with or without an exception, unless a
\* rollback has kept the lock. ("Must call stopTransaction or deadlock will
\* likely occur")
RequestsEnd == \A t \in Thread : thread[t] # Idle ~> thread[t] = Idle \/ LockKept
=============================================================================
