----------------------------- MODULE ArticleDb -----------------------------
(***************************************************************************)
(* The article database of newswatch: db_access, db_newspaper and          *)
(* db_article (src/db_access.cpp) over one SQLite file.  The operators      *)
(* below are the statements the program sends and the calls built from     *)
(* them; FeedWatcher.tla composes them with the watcher thread.            *)
(*                                                                         *)
(* SQLite itself is external: a statement either commits or is rejected,   *)
(* a rejected one changes nothing.  A statement that SQLite could execute  *)
(* is rejected at most MaxDbFaults times (locked file, full disk, I/O       *)
(* error): every caller of sqlite3_exec tests for that case or ignores it. *)
(***************************************************************************)
EXTENDS Integers, Sequences

CONSTANTS
  Media,        \* the newspapers of the feeds file (configuration::m_medias)
  Titles,       \* the titles items are published under
  MaxDbFaults   \* bound: how many executable statements are rejected

ASSUME MaxDbFaultsAssumption == MaxDbFaults \in Nat

NoUid == -1          \* db_object::m_uid before insert() has read it back
NoNewspaper == 0     \* db_newspaper::get_uid: no such row
QueryFailed == -1    \* db_newspaper::get_uid: the query was rejected

ASSUME OwnersDistinct == NoNewspaper \notin Media /\ QueryFailed \notin Media

Contents == {"page", "part", "empty", "other"}

VARIABLES
  handle,      \* m_database is an open connection
  dbFile,      \* the file m_article_database exists
  tables,      \* its tables
  newspaper,   \* the names stored in table newspaper
  article,     \* table article; the index of a row is its uid
  dbFaults     \* executable statements rejected so far

dbVars == <<handle, dbFile, tables, newspaper, article, dbFaults>>

Row == [title : Titles, content : Contents,
        newspaperuid : Media \cup {NoNewspaper, QueryFailed}]

DbTypeOK ==
  /\ handle \in BOOLEAN
  /\ dbFile \in BOOLEAN
  /\ tables \subseteq {"newspaper", "article"}
  /\ newspaper \subseteq Media
  /\ article \in Seq(Row)
  /\ dbFaults \in 0 .. MaxDbFaults

DbInit ==
  /\ handle = FALSE
  /\ dbFile = FALSE
  /\ tables = {}
  /\ newspaper = {}
  /\ article = <<>>
  /\ dbFaults = 0

-----------------------------------------------------------------------------

DbFault == dbFaults < MaxDbFaults /\ dbFaults' = dbFaults + 1
NoDbFault == UNCHANGED dbFaults

\* A statement on table t can be executed.
HasTable(t) == handle /\ t \in tables
Usable == HasTable("article")

StoredTitles == {article[u].title : u \in DOMAIN article}
UidsOf(title) == {u \in DOMAIN article : article[u].title = title}

\* sqlite3_open: the file is created when it is missing; a failed open keeps
\* a handle on which every later statement is rejected.
Open == NoDbFault /\ handle' = TRUE /\ dbFile' = TRUE
OpenFails == DbFault /\ UNCHANGED <<handle, dbFile>>

\* One CREATE TABLE of create_database, whose result is ignored.
CreateTable(t) ==
  \/ NoDbFault /\ tables' = tables \cup {t}
  \/ DbFault /\ UNCHANGED tables

\* The columns of table newspaper and those the INSERT of db_newspaper names.
NewspaperSchema ==
  {"uid", "name", "country", "website", "language", "managingEditor", "image"}
NewspaperColumns ==
  {"NULL", "name", "country", "website", "language", "managingEditor", "image"}

\* The loop of db_access::init: exist(), then insert() for a newspaper that is
\* not stored.  SQLite rejects a column list that names no column of the table.
InsertNewspapers ==
  newspaper' = newspaper \cup
    {name \in Media : HasTable("newspaper") /\ NewspaperColumns \subseteq NewspaperSchema}

\* db_newspaper::get_uid(name) = uid
GetNewspaperUid(name, uid) ==
  \/ /\ HasTable("newspaper") /\ NoDbFault
     /\ uid = IF name \in newspaper THEN name ELSE NoNewspaper
  \/ /\ IF HasTable("newspaper") THEN DbFault ELSE NoDbFault
     /\ uid = QueryFailed

\* (mutations) The watcher would trust m_items and not ask the table, or would
\* download again what it has stored without content.
ExistsNotUnasked(title) == Usable /\ NoDbFault
ExistsNotComplete(title) ==
  Usable /\ NoDbFault
  /\ \A u \in DOMAIN article : article[u].title = title => article[u].content = "empty"

\* db_article::exist() answers 1, 0 and -1.
Exists(title) == Usable /\ NoDbFault /\ title \in StoredTitles
ExistsNot(title) == Usable /\ NoDbFault /\ title \notin StoredTitles
ExistFails == IF Usable THEN DbFault ELSE NoDbFault

\* The INSERT of db_article::insert(), after get_uid.
InsertArticle(title, content, name) ==
  \E uid \in Media \cup {NoNewspaper, QueryFailed} :
    /\ Usable
    /\ GetNewspaperUid(name, uid)
    /\ article' = Append(article, [title |-> title, content |-> content,
                                   newspaperuid |-> uid])
InsertArticleFails == (IF Usable THEN DbFault ELSE NoDbFault) /\ UNCHANGED article

\* (mutation) The SELECT would have no WHERE clause.
ReadUidAnyTitle(title, uid) ==
  /\ Usable /\ NoDbFault
  /\ uid \in DOMAIN article
  /\ \A v \in DOMAIN article : uid <= v

\* The SELECT that reads m_uid back: the first row that has the title.
ReadUid(title, uid) ==
  /\ Usable /\ NoDbFault
  /\ uid \in UidsOf(title)
  /\ \A v \in UidsOf(title) : uid <= v
ReadUidFails == IF Usable THEN DbFault ELSE NoDbFault
=============================================================================
