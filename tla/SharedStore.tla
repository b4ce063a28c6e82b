---------------------------- MODULE SharedStore ----------------------------
(***************************************************************************)
(* Several users of one article database: watcher processes, which test     *)
(* with exist() and then insert() (feed_watcher::get_feeds), and threads    *)
(* that call db_article::insert_if_not_exist on an article object they      *)
(* share, whose mutex they take.  No statement is part of a transaction,    *)
(* no constraint is on the table, and a process may create the file while   *)
(* another one starts.                                                     *)
(*                                                                         *)
(* A statement is atomic; SQLite may reject one that it could execute (the  *)
(* file is locked by the other process, the disk is full).                  *)
(***************************************************************************)
EXTENDS DbStrings, FiniteSets

CONSTANTS
  Writers,      \* the threads that store articles
  Processes,
  ProcessOf,    \* the process of a writer
  ObjectOf,     \* the db_article object whose insert_if_not_exist it calls
  NoObject,     \* a watcher thread: an object of its own for each item
  Titles,       \* sequences of characters
  TitleOf,      \* the m_title of a shared object
  NoWriter,
  MaxDbFaults,  \* bound: executable statements that are rejected
  MaxCrashes    \* bound: processes that end between two steps

Objects == {ObjectOf[w] : w \in Writers} \ {NoObject}

\* What SQLite is given for each title.
SqlOf == [title \in Titles |-> Sql(title)]

ASSUME ProcessOfAssumption == ProcessOf \in [Writers -> Processes]
ASSUME ObjectsAreLocal ==
  \A w, x \in Writers : ObjectOf[w] = ObjectOf[x] /\ ObjectOf[w] # NoObject
                          => ProcessOf[w] = ProcessOf[x]
ASSUME NoWriterAssumption == NoWriter \notin Writers
ASSUME TitlesAssumption == Titles \subseteq Seq(Chars) /\ TitleOf \in [Objects -> Titles]
ASSUME StoreBoundsAssumption == MaxDbFaults \in Nat /\ MaxCrashes \in Nat

VARIABLES
  dbFile, tables,
  article,    \* table article: the title, and as history the item, the writer
              \* and how many rows there were when it asked exist()
  pstage,     \* what a process does: main and db_access::init
  stage,      \* what a writer does
  item,       \* its m_title
  asked,      \* history: the rows there were when its exist() answered 0
  row,        \* history: the row it inserted
  owner,      \* who holds m_insert_mutex of an object
  told,       \* the uids read back: [uid, row]
  dbFaults, crashes

storeVars == <<dbFile, tables, article>>
writerVars == <<stage, item, asked, row>>
vars == <<storeVars, pstage, writerVars, owner, told, dbFaults, crashes>>

Rows ==
  [title : {SqlOf[title] : title \in Titles}, item : Titles, writer : Writers, asked : Nat]
ProcessStages == {"down", "look", "openNew", "openOld", "createNewspaper", "createArticle", "up"}
Stages == {"idle", "lock", "exist", "insert", "select"}
Shares(w, x) == ObjectOf[w] = ObjectOf[x] /\ ObjectOf[w] # NoObject
Inside(w) == stage[w] \in {"exist", "insert", "select"}

TypeOK ==
  /\ dbFile \in BOOLEAN
  /\ tables \subseteq {"newspaper", "article"}
  /\ article \in Seq(Rows)
  /\ pstage \in [Processes -> ProcessStages]
  /\ stage \in [Writers -> Stages]
  /\ item \in [Writers -> Titles]
  /\ asked \in [Writers -> 0 .. Len(article)]
  /\ row \in [Writers -> 0 .. Len(article)]
  /\ owner \in [Objects -> Writers \cup {NoWriter}]
  /\ told \subseteq [uid : DOMAIN article, row : DOMAIN article]
  /\ dbFaults \in 0 .. MaxDbFaults
  /\ crashes \in 0 .. MaxCrashes

Init ==
  /\ dbFile = FALSE /\ tables = {} /\ article = <<>>
  /\ pstage = [process \in Processes |-> "down"]
  /\ stage = [w \in Writers |-> "idle"]
  /\ item \in {[w \in Writers |-> title] : title \in Titles}
  /\ asked = [w \in Writers |-> 0]
  /\ row = [w \in Writers |-> 0]
  /\ owner = [object \in Objects |-> NoWriter]
  /\ told = {}
  /\ dbFaults = 0 /\ crashes = 0

-----------------------------------------------------------------------------
(* main and db_access::init *)

At(process, from, to) == pstage[process] = from /\ pstage' = [pstage EXCEPT ![process] = to]
others == <<writerVars, owner, told, crashes>>

DbFault == dbFaults < MaxDbFaults /\ dbFaults' = dbFaults + 1
NoDbFault == UNCHANGED dbFaults

Start(process) ==
  /\ At(process, "down", "look")
  /\ UNCHANGED <<storeVars, others, dbFaults>>

\* (mutation) sqlite3_open would come before the test.
LookAfterOpen(process) ==
  /\ At(process, "look", "openOld")
  /\ dbFile' = TRUE
  /\ UNCHANGED <<tables, article, others, dbFaults>>

\* The file is opened for reading, to see whether it exists.
Look(process) ==
  /\ At(process, "look", IF dbFile THEN "openOld" ELSE "openNew")
  /\ UNCHANGED <<storeVars, others, dbFaults>>

\* sqlite3_open creates it; another process may have done so since.
Open(process) ==
  /\ \/ At(process, "openNew", "createNewspaper")
     \/ At(process, "openOld", "up")
  /\ dbFile' = TRUE
  /\ UNCHANGED <<tables, article, others, dbFaults>>

\* init returns with a handle on which no statement works: the process runs on
\* and stores nothing, which for this model is as if it had ended.
OpenFails(process) ==
  /\ At(process, "openNew", "down") \/ At(process, "openOld", "down")
  /\ DbFault
  /\ UNCHANGED <<storeVars, others>>

CreateTable(table) ==
  \/ NoDbFault /\ tables' = tables \cup {table}
  \/ DbFault /\ UNCHANGED tables

\* The INSERTs of the newspapers that follow are rejected every time and leave
\* no row behind (module FeedWatcher has them).
CreateDatabase(process) ==
  /\ \/ At(process, "createNewspaper", "createArticle") /\ CreateTable("newspaper")
     \/ At(process, "createArticle", "up") /\ CreateTable("article")
  /\ UNCHANGED <<dbFile, article, others>>

-----------------------------------------------------------------------------
(* insert_if_not_exist, and the same statements in get_feeds *)

Usable == "article" \in tables
Rejected == IF Usable THEN DbFault ELSE NoDbFault
Goes(w, from, to) == stage[w] = from /\ stage' = [stage EXCEPT ![w] = to]

\* The destructor of scoped_lock, on every way out.
Unlock(w) ==
  owner' = IF ObjectOf[w] = NoObject THEN owner ELSE [owner EXCEPT ![ObjectOf[w]] = NoWriter]

\* The rows a SELECT ... WHERE Title = '...' finds.
Found(title) == {u \in DOMAIN article : article[u].title = SqlOf[title]}

\* get_feeds has a new item; a thread calls insert_if_not_exist.
Call(w) ==
  /\ pstage[ProcessOf[w]] = "up"
  /\ IF ObjectOf[w] = NoObject
     THEN /\ Goes(w, "idle", "exist")
          /\ \E title \in Titles : item' = [item EXCEPT ![w] = title]
     ELSE /\ Goes(w, "idle", "lock")
          /\ item' = [item EXCEPT ![w] = TitleOf[ObjectOf[w]]]
  /\ UNCHANGED <<storeVars, pstage, asked, row, owner, told, dbFaults, crashes>>

Lock(w) ==
  /\ Goes(w, "lock", "exist")
  /\ owner[ObjectOf[w]] = NoWriter
  /\ owner' = [owner EXCEPT ![ObjectOf[w]] = w]
  /\ UNCHANGED <<storeVars, pstage, item, asked, row, told, dbFaults, crashes>>

\* exist() answers 1, or -1 which is taken for it: nothing is inserted.
ExistsOrFails(w) ==
  /\ Goes(w, "exist", "idle")
  /\ \/ Usable /\ Found(item[w]) # {} /\ NoDbFault
     \/ Rejected
  /\ Unlock(w)
  /\ UNCHANGED <<storeVars, pstage, item, asked, row, told, crashes>>

\* (mutation) The lock would be released after exist().
ExistsNotUnlocked(w) ==
  /\ Goes(w, "exist", "insert")
  /\ Usable /\ Found(item[w]) = {} /\ NoDbFault
  /\ asked' = [asked EXCEPT ![w] = Len(article)]
  /\ Unlock(w)
  /\ UNCHANGED <<storeVars, pstage, item, row, told, crashes>>

ExistsNot(w) ==
  /\ Goes(w, "exist", "insert")
  /\ Usable /\ Found(item[w]) = {} /\ NoDbFault
  /\ asked' = [asked EXCEPT ![w] = Len(article)]
  /\ UNCHANGED <<storeVars, pstage, item, row, owner, told, crashes>>

Insert(w) ==
  /\ Goes(w, "insert", "select")
  /\ Usable /\ SqlOf[item[w]] # Malformed /\ NoDbFault
  /\ article' = Append(article, [title |-> SqlOf[item[w]], item |-> item[w], writer |-> w,
                                 asked |-> asked[w]])
  /\ row' = [row EXCEPT ![w] = Len(article) + 1]
  /\ UNCHANGED <<dbFile, tables, pstage, item, asked, owner, told, crashes>>

\* (mutation) The uid would be read back although the row was rejected, and
\* atoi would make 0 of the missing result.
InsertFailsReadsUid(w) ==
  /\ Goes(w, "insert", "idle")
  /\ Rejected \/ (SqlOf[item[w]] = Malformed /\ NoDbFault)
  /\ Unlock(w)
  /\ told' = told \cup {[uid |-> 0, row |-> row[w]]}
  /\ UNCHANGED <<storeVars, pstage, item, asked, row, crashes>>

\* Nothing is read back, m_uid stays as it was.  (The query for the newspaper's
\* uid that precedes the INSERT changes nothing kept here.)
InsertFails(w) ==
  /\ Goes(w, "insert", "idle")
  /\ Rejected \/ (SqlOf[item[w]] = Malformed /\ NoDbFault)
  /\ Unlock(w)
  /\ UNCHANGED <<storeVars, pstage, item, asked, row, told, crashes>>

\* (mutation) The uid would be read from the last row (last_insert_rowid of
\* somebody else's row).
SelectLastUid(w) ==
  /\ Goes(w, "select", "idle")
  /\ \/ NoDbFault /\ told' = told \cup {[uid |-> Len(article), row |-> row[w]]}
     \/ Rejected /\ UNCHANGED told
  /\ Unlock(w)
  /\ UNCHANGED <<storeVars, pstage, item, asked, row, crashes>>

\* The first row with the title gives m_uid, which get_feeds announces.
SelectUid(w) ==
  /\ Goes(w, "select", "idle")
  /\ \/ \E uid \in Found(item[w]) :
          /\ \A v \in Found(item[w]) : uid <= v
          /\ NoDbFault
          /\ told' = told \cup {[uid |-> uid, row |-> row[w]]}
     \/ Rejected /\ UNCHANGED told
  /\ Unlock(w)
  /\ UNCHANGED <<storeVars, pstage, item, asked, row, crashes>>

-----------------------------------------------------------------------------

\* A process ends, with its threads and the mutexes of its objects.
Crash(process) ==
  /\ pstage[process] # "down"
  /\ crashes < MaxCrashes
  /\ crashes' = crashes + 1
  /\ pstage' = [pstage EXCEPT ![process] = "down"]
  /\ stage' = [w \in Writers |-> IF ProcessOf[w] = process THEN "idle" ELSE stage[w]]
  /\ owner' = [object \in Objects |->
                 IF \E w \in Writers : ObjectOf[w] = object /\ ProcessOf[w] = process
                 THEN NoWriter ELSE owner[object]]
  /\ UNCHANGED <<storeVars, item, asked, row, told, dbFaults>>

InitProcess(process) ==
  Look(process) \/ Open(process) \/ OpenFails(process) \/ CreateDatabase(process)
Work(w) ==
  Lock(w) \/ ExistsOrFails(w) \/ ExistsNot(w) \/ Insert(w) \/ InsertFails(w) \/ SelectUid(w)

Next ==
  \/ \E process \in Processes : Start(process) \/ InitProcess(process) \/ Crash(process)
  \/ \E w \in Writers : Call(w) \/ Work(w)

Spec == Init /\ [][Next]_vars

-----------------------------------------------------------------------------
(* Properties *)

\* Two rows have one title only if the exist() and insert() of two writers that
\* share no mutex overlapped: the later writer asked before the earlier row was
\* there.
DuplicatesAreRaces ==
  \A u, v \in DOMAIN article :
    u < v /\ article[u].title = article[v].title =>
      /\ article[v].asked < u
      /\ article[u].writer # article[v].writer
      /\ ~Shares(article[u].writer, article[v].writer)

\* The uid a writer is given is a row of its own title, its own row unless
\* another writer stored the title before it.
UidIsOfItsTitle ==
  \A n \in told :
    /\ article[n.uid].item = article[n.row].item
    /\ n.uid # n.row => n.uid < n.row /\ article[n.row].asked < n.uid

\* Whatever quotes a title has, it is stored as it is.
TitlesAreStoredAsTheyAre == \A u \in DOMAIN article : article[u].title = article[u].item

\* However two processes start on a new file, once both are through the tables
\* are there, unless one was ended or a statement was rejected.
SomebodyCreatesTheTables ==
  /\ dbFaults = 0 /\ crashes = 0
  /\ \E process \in Processes : pstage[process] = "up"
  /\ \A process \in Processes : pstage[process] \in {"down", "look", "openOld", "up"}
  => tables = {"newspaper", "article"}
=============================================================================
