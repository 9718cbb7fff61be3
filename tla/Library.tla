------------------------------ MODULE Library ------------------------------
(***************************************************************************)
(* The song library on its way from the disk to the speakers: crawling.py  *)
(* writes the table music of song_list.db, DatabaseManager.java copies it  *)
(* into memory when the server starts, and raspi.py keeps the files it has *)
(* downloaded under the ids of the server.                                 *)
(*                                                                         *)
(* Crawler and server are separate processes that meet in SQLite's locks:  *)
(* a transaction with inserts keeps other writers out, a commit waits for  *)
(* readers, and whoever waits too long gets "database is locked". Python's *)
(* sqlite3 runs DROP and CREATE outside a transaction and begins one with  *)
(* the first INSERT. A crawl that raises leaves its connection, with its   *)
(* transaction, to the garbage collector.                                  *)
(***************************************************************************)
EXTENDS Integers, Sequences

CONSTANTS
    Folders,      \* number of folders, in the order in which os.walk visits them
    Last,         \* Last[d]: the last folder that os.walk visits from folder d
    File,         \* names of files
    Mp3,          \* the names that end in .mp3
    MaxFiles,     \* bound: files in a folder
    MaxChanges,   \* bound: changes of the folders
    NoTable,      \* the table music does not exist
    NoFile        \* the speaker has no file for an id

ASSUME LibraryAssumption ==
    /\ Folders \in Nat \ {0} /\ Mp3 \subseteq File /\ MaxFiles \in Nat /\ MaxChanges \in Nat
    /\ Last \in [1..Folders -> 1..Folders] /\ \A d \in 1..Folders : d <= Last[d]

VARIABLES
    dir,          \* dir[i]: the files of folder i, in the order of os.listdir
    past,         \* past[i]: what dir[i] has ever been
    roots,        \* the folders that have been crawled
    music,        \* the paths in the committed table music, or NoTable
    crawler,      \* crawl: where it is and what it has inserted
    abandoned,    \* is the transaction of a failed crawl still open?
    server,       \* "down", "loading", "up"
    songs,        \* the table songs of the server: songs[id] is a path
    cache,        \* cache[id]: the song in the speaker's file of that name
    changes       \* changes of the folders so far

vars == <<dir, past, roots, music, crawler, abandoned, server, songs, cache, changes>>

Folder  == 1..Folders
Path    == Folder \X File
Id      == 1..(Folders * MaxFiles)
Listing == {fs \in UNION {[1..n -> File] : n \in 0..MaxFiles} :
               \A i, j \in DOMAIN fs : fs[i] = fs[j] => i = j}

In(f, fs) == \E i \in DOMAIN fs : fs[i] = f

\* What os.walk(d) visits, a folder before those in it.
Tree(d) == d..Last[d]

NoCrawl == [pc |-> "idle", folder |-> 0, last |-> 0, todo |-> <<>>, rows |-> <<>>]

Init ==
    /\ dir \in [Folder -> Listing] /\ past = [i \in Folder |-> {dir[i]}]
    /\ roots = {} /\ music = NoTable /\ crawler = NoCrawl /\ abandoned = FALSE
    /\ server = "down" /\ songs = <<>>
    /\ cache = [i \in Id |-> NoFile]
    /\ changes = 0

-----------------------------------------------------------------------------
(***************************************************************************)
(* Files of a folder are added, removed or replaced, at any time.          *)
(***************************************************************************)
changeFolder(i, fs) ==
    /\ changes < MaxChanges /\ fs # dir[i]
    /\ dir' = [dir EXCEPT ![i] = fs]
    /\ past' = [past EXCEPT ![i] = @ \cup {fs}]
    /\ changes' = changes + 1
    /\ UNCHANGED <<roots, music, crawler, abandoned, server, songs, cache>>

-----------------------------------------------------------------------------
(***************************************************************************)
(* crawl.                                                                  *)
(***************************************************************************)
elsewhere == <<dir, past, server, songs, cache, changes>>

\* crawl(d) for the folder that the user has chosen, "drop table if exists".
\* Whoever is reading or writing makes it raise, and nothing has changed.
dropTable(d) ==
    /\ crawler.pc = "idle" /\ ~abandoned /\ server # "loading"
    /\ music' = NoTable
    /\ crawler' = [crawler EXCEPT !.pc = "create", !.folder = d - 1, !.last = Last[d]]
    /\ roots' = roots \cup {d}
    /\ UNCHANGED <<abandoned, elsewhere>>

\* "CREATE TABLE if not exists".
createTable ==
    /\ crawler.pc = "create"
    /\ music' = <<>>
    /\ crawler' = [crawler EXCEPT !.pc = "walk"]
    /\ UNCHANGED <<roots, abandoned, elsewhere>>

\* os.walk goes one folder too far.
listFolderBug ==
    /\ crawler.pc = "walk" /\ crawler.todo = <<>> /\ crawler.folder <= crawler.last
    /\ crawler' = [crawler EXCEPT !.folder = @ + 1,
                                  !.todo = IF crawler.folder < Folders THEN dir[crawler.folder + 1]
                                           ELSE <<>>]
    /\ UNCHANGED <<roots, music, abandoned, elsewhere>>

\* os.walk lists the next folder.
listFolder ==
    /\ crawler.pc = "walk" /\ crawler.todo = <<>> /\ crawler.folder < crawler.last
    /\ crawler' = [crawler EXCEPT !.folder = @ + 1, !.todo = dir[crawler.folder + 1]]
    /\ UNCHANGED <<roots, music, abandoned, elsewhere>>

\* Every row is committed.
insertBug ==
    /\ crawler.pc = "walk" /\ crawler.todo # <<>>
    /\ Head(crawler.todo) \in Mp3 => In(Head(crawler.todo), dir[crawler.folder])
    /\ LET f    == Head(crawler.todo)
           rows == IF f \in Mp3 THEN Append(crawler.rows, <<crawler.folder, f>>) ELSE crawler.rows
       IN  /\ crawler' = [crawler EXCEPT !.todo = Tail(@), !.rows = rows]
           /\ music' = rows
    /\ UNCHANGED <<roots, abandoned, elsewhere>>

\* A file that cannot be read is left out.
insertSkips ==
    /\ crawler.pc = "walk" /\ crawler.todo # <<>>
    /\ LET f == Head(crawler.todo)
       IN  \E readable \in BOOLEAN :
              crawler' = [crawler EXCEPT !.todo = Tail(@),
                             !.rows = IF f \in Mp3 /\ readable
                                      THEN Append(@, <<crawler.folder, f>>) ELSE @]
    /\ UNCHANGED <<roots, music, abandoned, elsewhere>>

\* The next file that was listed: an .mp3 that can still be read becomes a
\* row, anything else but an .mp3 is skipped.
insert ==
    /\ crawler.pc = "walk" /\ crawler.todo # <<>>
    /\ LET f == Head(crawler.todo)
       IN  /\ f \in Mp3 => In(f, dir[crawler.folder])
           /\ crawler' = [crawler EXCEPT !.todo = Tail(@),
                             !.rows = IF f \in Mp3 THEN Append(@, <<crawler.folder, f>>) ELSE @]
    /\ UNCHANGED <<roots, music, abandoned, elsewhere>>

\* A file that is gone, has no tag or several pictures, or is still being
\* copied makes crawl raise.
insertRaises ==
    /\ crawler.pc = "walk" /\ crawler.todo # <<>> /\ Head(crawler.todo) \in Mp3
    /\ crawler' = NoCrawl
    /\ abandoned' = (crawler.rows # <<>>)
    /\ UNCHANGED <<roots, music, elsewhere>>

\* conn.commit and conn.close. A server that is reading makes the commit
\* raise, unless there is nothing to commit.
commit ==
    /\ crawler.pc = "walk" /\ crawler.todo = <<>> /\ crawler.folder = crawler.last
    /\ \/ /\ server # "loading" \/ crawler.rows = <<>>
          /\ music' = crawler.rows /\ UNCHANGED abandoned
       \/ /\ server = "loading" /\ crawler.rows # <<>>
          /\ abandoned' = TRUE /\ UNCHANGED music
    /\ crawler' = NoCrawl
    /\ UNCHANGED <<roots, elsewhere>>

\* The connection of a failed crawl is collected: its transaction is rolled back.
rollback ==
    /\ abandoned
    /\ abandoned' = FALSE
    /\ UNCHANGED <<roots, music, crawler, elsewhere>>

\* The crawler is killed at any point.
killCrawler ==
    /\ crawler.pc # "idle" \/ abandoned
    /\ crawler' = NoCrawl /\ abandoned' = FALSE
    /\ UNCHANGED <<roots, music, elsewhere>>

-----------------------------------------------------------------------------
(***************************************************************************)
(* The server. DatabaseManager copies the table row by row; a missing      *)
(* table, or one that is locked, ends the server before it has begun.      *)
(***************************************************************************)
files == <<dir, past, roots, music, crawler, abandoned, changes>>

start ==
    /\ server = "down" /\ music # NoTable
    /\ server' = "loading" /\ songs' = <<>>
    /\ UNCHANGED <<files, cache>>

\* transferData: the ids are those of AUTOINCREMENT, not those of the crawler.
transferData ==
    /\ server = "loading"
    /\ \/ /\ Len(songs) < Len(music)
          /\ songs' = Append(songs, music[Len(songs) + 1])
          /\ UNCHANGED server
       \/ /\ Len(songs) = Len(music)
          /\ server' = "up" /\ UNCHANGED songs
    /\ UNCHANGED <<files, cache>>

\* The server is stopped or killed; its database was in memory.
stop ==
    /\ server # "down"
    /\ server' = "down" /\ songs' = <<>>
    /\ UNCHANGED <<files, cache>>

\* raspi.py needs song id, finds no file of that name (check_for_song) and
\* saves what the server reads from the path of the song (getSongData,
\* handle_need_song).
requestSong(id) ==
    /\ server = "up" /\ id \in DOMAIN songs /\ cache[id] = NoFile
    /\ In(songs[id][2], dir[songs[id][1]])
    /\ cache' = [cache EXCEPT ![id] = songs[id]]
    /\ UNCHANGED <<files, server, songs>>

-----------------------------------------------------------------------------
Crawl == (\E d \in Folder : dropTable(d)) \/ createTable \/ listFolder \/ insert \/ insertRaises \/ commit

Next ==
    \/ Crawl \/ rollback \/ killCrawler
    \/ start \/ transferData \/ stop
    \/ \E id \in Id : requestSong(id)
    \/ \E i \in Folder, fs \in Listing : changeFolder(i, fs)

Spec == Init /\ [][Next]_vars

-----------------------------------------------------------------------------
\* Every variable has its type.
TypeOK ==
    /\ dir \in [Folder -> Listing] /\ past \in [Folder -> SUBSET Listing]
    /\ roots \subseteq Folder
    /\ music \in Seq(Path) \cup {NoTable}
    /\ crawler \in [pc : {"idle", "create", "walk"}, folder : 0..Folders,
                    last : 0..Folders, todo : Seq(File), rows : Seq(Path)]
    /\ abandoned \in BOOLEAN
    /\ server \in {"down", "loading", "up"}
    /\ songs \in Seq(Path)
    /\ cache \in [Id -> Path \cup {NoFile}]
    /\ changes \in 0..MaxChanges

\* In the listings w the walk comes to path p before path q.
Before(w, p, q) ==
    \/ p[1] < q[1]
    \/ p[1] = q[1] /\ \E k, l \in DOMAIN w[p[1]] : k < l /\ w[p[1]][k] = p[2] /\ w[p[1]][l] = q[2]

\* s is what a walk finds in the listings w: their .mp3 files, each of them
\* once and in the order of the walk.
IsWalk(s, w) ==
    /\ {s[j] : j \in DOMAIN s} = {p \in Folder \X Mp3 : In(p[2], w[p[1]])}
    /\ \A j, k \in DOMAIN s : j < k => Before(w, s[j], s[k])

\* A walk from folder d finds what a walk through all folders finds if those
\* that are not in d are empty.
WholeOf(s, d) ==
    \E w \in [Folder -> Listing] :
       (\A i \in Folder : w[i] \in IF i \in Tree(d) THEN past[i] ELSE {<<>>}) /\ IsWalk(s, w)

Whole(s) == \E d \in roots : WholeOf(s, d)

\* A server that is up offers nothing at all or one complete crawl of a folder
\* that was crawled: every folder in it as it was at some time, in the order of
\* the walk, never a part of one and never rows of two crawls. (commit is at
\* the end of crawl; the server reads row by row while crawls come, fail and
\* are killed.)
LoadIsWhole == server = "up" => songs = <<>> \/ Whole(songs)

\* Nobody has changed the folders or crawled a second one.
Unchanged == (\A i \in Folder : past[i] = {dir[i]}) /\ (\A d, e \in roots : d = e)

\* The files a speaker has kept are the songs that the server offers.
IdsAgree == \A id \in DOMAIN songs : cache[id] \in {NoFile, songs[id]}

\* "Song IDs will never change.", as far as the code keeps that promise: as
\* long as nobody has changed the folders and all crawls were of the same
\* folder, the files a speaker has kept are the songs a server offers under
\* those ids, whatever crawls have failed and however often server and crawler
\* were restarted.
CacheMatches == server = "up" /\ Unchanged => IdsAgree
=============================================================================
