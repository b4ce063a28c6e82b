---------------------------- MODULE FeedWatcher ----------------------------
(***************************************************************************)
(* One newswatch process: main, db_access::init and the watcher thread     *)
(* (feed_watcher::get_feeds, xml_feed_visitor, feed_leacher), its database *)
(* and the feeds it reads.  The thread is sequential; what surrounds it is  *)
(* not: a feed changes at any time, a download is cut, a statement is       *)
(* rejected, an exception or a kill ends the process between two steps, and *)
(* the process is started again on the file it left.                       *)
(*                                                                         *)
(* Each action is one external effect of the thread with the computation   *)
(* that leads to the next one.  The nested loops over m_medias and m_feeds *)
(* are one loop over Feeds, numbered in the order the loops visit them.     *)
(***************************************************************************)
EXTENDS ArticleDb, FeedItems, FiniteSets

CONSTANTS
  NFeeds,        \* number of feeds in the feeds file
  MediaOf,       \* the newspaper a feed belongs to
  Editions,      \* the contents a feed may be published with
  ShortTitles,   \* the titles a cut can shorten a title to
  BadFeedSets,   \* the sets of feeds whose addresses may not parse
  MaxNetFaults,  \* bound: downloads that are cut, refused or misdirected
  MaxCrashes     \* bound: kills of the process from outside

Feeds == 1 .. NFeeds

Item == [title : Titles \cup {NoTitle}, link : Links]

ASSUME NFeedsAssumption == NFeeds \in Nat \ {0}
ASSUME MediaOfAssumption == MediaOf \in [Feeds -> Media]
ASSUME EditionsAssumption == Editions \in [Feeds -> SUBSET Seq(Item)]
ASSUME EditionsExist == \A f \in Feeds : Editions[f] # {}
ASSUME BadFeedsAssumption == BadFeedSets # {} /\ BadFeedSets \subseteq SUBSET Feeds
ASSUME ShortTitlesAssumption == ShortTitles \in [Titles -> SUBSET Titles]
ASSUME BoundsAssumption == MaxNetFaults \in Nat /\ MaxCrashes \in Nat
ASSUME NoTitleIsNoTitle == NoTitle \notin Titles

VARIABLES
  pc,         \* what the process does next, "down" when there is none
  feed,       \* the loops i, j of get_feeds
  items,      \* the items the visitor collected
  m,          \* the loop over items
  m_items,    \* media_t::m_items; only the titles are ever read
  content,    \* article_retriever::m_article_content
  published,  \* what each feed's server holds
  badFeeds,   \* the feeds whose address in the feeds file does not parse
  notified,   \* the new_article calls: the uid and the title it was about
  netFaults, crashes

procVars == <<pc, feed, items, m, m_items, content>>
vars == <<dbVars, procVars, published, badFeeds, notified, netFaults, crashes>>

Phases == {"down", "open", "createNewspaper", "createArticle", "newspapers",
           "leech", "scan", "retrieve", "insert", "select", "sleep"}

\* Every variable holds a value of its C++ type and every budget is respected.
TypeOK ==
  /\ DbTypeOK
  /\ pc \in Phases
  /\ feed \in Feeds
  /\ items \in Seq([title : Titles, link : Links])
  /\ m \in 1 .. Len(items) + 1
  /\ pc \in {"retrieve", "insert", "select"} => m \in DOMAIN items
  /\ m_items \in [Media -> SUBSET Titles]
  /\ content \in Contents
  /\ published \in [Feeds -> Seq(Item)]
  /\ badFeeds \subseteq Feeds
  /\ notified \in Seq([uid : Nat \cup {NoUid}, title : Titles])
  /\ netFaults \in 0 .. MaxNetFaults
  /\ crashes \in 0 .. MaxCrashes

NothingInMemory ==
  /\ feed = 1 /\ items = <<>> /\ m = 1
  /\ m_items = [name \in Media |-> {}]
  /\ content = "empty"

Init ==
  /\ DbInit
  /\ pc = "down"
  /\ NothingInMemory
  /\ published \in [Feeds -> UNION {Editions[f] : f \in Feeds}]
  /\ \A f \in Feeds : published[f] \in Editions[f]
  /\ badFeeds \in BadFeedSets
  /\ notified = <<>>
  /\ netFaults = 0 /\ crashes = 0

-----------------------------------------------------------------------------
(* main and db_access::init *)

\* The exception leaves the thread, or the process is killed: what is in
\* memory is gone, what is in the file stays.
ProcessGone ==
  /\ pc' = "down"
  /\ handle' = FALSE
  /\ feed' = 1 /\ items' = <<>> /\ m' = 1
  /\ m_items' = [name \in Media |-> {}]
  /\ content' = "empty"
  /\ UNCHANGED <<dbFile, tables, newspaper, article>>

inMemory == <<feed, items, m, m_items, content>>
environment == <<published, badFeeds, netFaults, crashes>>

Start ==
  /\ pc = "down"
  /\ pc' = "open"
  /\ UNCHANGED <<dbVars, inMemory, notified, environment>>

\* (mutation) init would look for the tables instead of the file.
OpenDatabaseByTables ==
  /\ pc = "open"
  /\ \/ /\ Open
        /\ pc' = IF tables = {"newspaper", "article"} THEN "newspapers" ELSE "createNewspaper"
     \/ OpenFails /\ pc' = "leech"
  /\ UNCHANGED <<tables, newspaper, article, inMemory, notified, environment>>

\* Whether the file exists is asked before sqlite3_open creates it; when the
\* open fails, init returns and the watcher starts all the same.
OpenDatabase ==
  /\ pc = "open"
  /\ \/ Open /\ pc' = IF dbFile THEN "newspapers" ELSE "createNewspaper"
     \/ OpenFails /\ pc' = "leech"
  /\ UNCHANGED <<tables, newspaper, article, inMemory, notified, environment>>

CreateNewspaperTable ==
  /\ pc = "createNewspaper"
  /\ CreateTable("newspaper")
  /\ pc' = "createArticle"
  /\ UNCHANGED <<handle, dbFile, newspaper, article, inMemory, notified, environment>>

CreateArticleTable ==
  /\ pc = "createArticle"
  /\ CreateTable("article")
  /\ pc' = "newspapers"
  /\ UNCHANGED <<handle, dbFile, newspaper, article, inMemory, notified, environment>>

InitNewspapers ==
  /\ pc = "newspapers"
  /\ InsertNewspapers
  /\ pc' = "leech"
  /\ UNCHANGED <<handle, dbFile, tables, article, dbFaults, inMemory, notified, environment>>

-----------------------------------------------------------------------------
(* get_feeds: downloading and visiting a feed *)

\* feed_leacher(address) when the address parses: document is what it parsed.
Download(document) ==
  \/ document = published[feed] /\ UNCHANGED netFaults
  \/ /\ netFaults < MaxNetFaults
     /\ document \in Truncations(published[feed], ShortTitles)
     /\ netFaults' = netFaults + 1

Documents == {published[feed]} \cup Truncations(published[feed], ShortTitles)

\* (mutations) m_items would be refreshed before the loop over the items; a
\* feed whose address does not parse would count as an empty feed.
LeechRefreshes ==
  /\ pc = "leech"
  /\ feed \notin badFeeds
  /\ \E document \in Documents :
       /\ Download(document)
       /\ WellFormed(document)
       /\ items' = document
       /\ m_items' = [m_items EXCEPT ![MediaOf[feed]] =
                        {document[i].title : i \in DOMAIN document}]
  /\ m' = 1
  /\ pc' = "scan"
  /\ UNCHANGED <<dbVars, feed, content, published, badFeeds, notified, crashes>>
LeechSkipsBadFeed ==
  /\ pc = "leech"
  /\ \E document \in IF feed \in badFeeds THEN {<<>>} ELSE Documents :
       /\ (feed \in badFeeds /\ UNCHANGED netFaults) \/ Download(document)
       /\ WellFormed(document)
       /\ items' = document
  /\ m' = 1
  /\ pc' = "scan"
  /\ UNCHANGED <<dbVars, feed, m_items, content, published, badFeeds, notified, crashes>>

Leech ==
  /\ pc = "leech"
  /\ feed \notin badFeeds
  /\ \E document \in Documents :
       /\ Download(document)
       /\ WellFormed(document)
       /\ items' = document
  /\ m' = 1
  /\ pc' = "scan"
  /\ UNCHANGED <<dbVars, feed, m_items, content, published, badFeeds, notified, crashes>>

LeechThrows ==
  /\ pc = "leech"
  /\ \/ feed \in badFeeds /\ UNCHANGED netFaults
     \/ /\ feed \notin badFeeds
        /\ \E document \in Documents : Download(document) /\ ~WellFormed(document)
  /\ ProcessGone
  /\ UNCHANGED <<dbFaults, published, badFeeds, notified, crashes>>

-----------------------------------------------------------------------------
(* get_feeds: the loop over the items *)

media == MediaOf[feed]
title == items[m].title
Scanning == pc = "scan" /\ m \in DOMAIN items

\* On to the next item.
NextItem == m' = m + 1 /\ pc' = "scan" /\ content' = "empty"

\* The title is in m_items of this newspaper: nothing to do.
ScanKnown ==
  /\ Scanning
  /\ title \in m_items[media]
  /\ NextItem
  /\ UNCHANGED <<dbVars, feed, items, m_items, notified, environment>>

\* It is new, and exist() answers 1, or -1, which `!article.exist()` takes
\* for a yes.
ScanStored ==
  /\ Scanning
  /\ title \notin m_items[media]
  /\ Exists(title) \/ ExistFails
  /\ NextItem
  /\ UNCHANGED <<handle, dbFile, tables, newspaper, article, feed, items, m_items,
                 notified, environment>>

\* (mutation) Only the answer 1 would keep an item from being downloaded.
ScanNewUnlessStored ==
  /\ Scanning
  /\ title \notin m_items[media]
  /\ ExistsNot(title) \/ ExistFails
  /\ pc' = "retrieve"
  /\ UNCHANGED <<handle, dbFile, tables, newspaper, article, inMemory, notified, environment>>

\* It is new, and exist() answers 0.
ScanNew ==
  /\ Scanning
  /\ title \notin m_items[media]
  /\ ExistsNot(title)
  /\ pc' = "retrieve"
  /\ UNCHANGED <<dbVars, inMemory, notified, environment>>

\* article_retriever(link) returns with what it could read of the page.  That
\* these are its outcomes is what ArticleRetriever.tla shows (ImplementsRetrieval).
Retrieve ==
  /\ pc = "retrieve"
  /\ \/ /\ items[m].link = "good"
        /\ content' = "page"
        /\ UNCHANGED netFaults
     \/ /\ items[m].link = "good"
        /\ netFaults < MaxNetFaults
        /\ content' \in {"part", "empty", "other"}
        /\ netFaults' = netFaults + 1
     \/ /\ items[m].link = "cut"
        /\ content' \in {"other", "empty"}
        /\ UNCHANGED netFaults
  /\ pc' = "insert"
  /\ UNCHANGED <<dbVars, feed, items, m, m_items, published, badFeeds, notified, crashes>>

\* It throws a std::string, which nothing catches: the link does not parse, or
\* a redirect names no address.
RetrieveThrows ==
  /\ pc = "retrieve"
  /\ \/ items[m].link = "bad" /\ UNCHANGED netFaults
     \/ /\ items[m].link # "bad"
        /\ netFaults < MaxNetFaults
        /\ netFaults' = netFaults + 1
  /\ ProcessGone
  /\ UNCHANGED <<dbFaults, published, badFeeds, notified, crashes>>

\* callback_handler::new_article(uid), then on to the next item.
NewArticle(uid) ==
  /\ notified' = Append(notified, [uid |-> uid, title |-> title])
  /\ NextItem

\* (mutation) insert() would return once the row is committed, and get_feeds
\* would go on without an announcement.
InsertUnannounced ==
  /\ pc = "insert"
  /\ InsertArticle(title, content, media)
  /\ NextItem
  /\ UNCHANGED <<handle, dbFile, tables, newspaper, feed, items, m_items, notified, environment>>

\* db_article::insert, up to the commit of the row.
Insert ==
  /\ pc = "insert"
  /\ InsertArticle(title, content, media)
  /\ pc' = "select"
  /\ UNCHANGED <<handle, dbFile, tables, newspaper, inMemory, notified, environment>>

\* The row is rejected; get_feeds ignores that and announces the article.
InsertFails ==
  /\ pc = "insert"
  /\ InsertArticleFails
  /\ NewArticle(NoUid)
  /\ UNCHANGED <<handle, dbFile, tables, newspaper, feed, items, m_items, environment>>

\* The rest of insert, and the announcement of the uid it read, if any.
SelectUid ==
  /\ pc = "select"
  /\ \/ \E uid \in DOMAIN article : ReadUid(title, uid) /\ NewArticle(uid)
     \/ ReadUidFails /\ NewArticle(NoUid)
  /\ UNCHANGED <<handle, dbFile, tables, newspaper, article, feed, items, m_items,
                 environment>>

\* (mutations) The loop over the feeds would run one too far; m_items would
\* never be cleared.
RefreshRunsOver ==
  /\ pc = "scan"
  /\ m \notin DOMAIN items
  /\ m_items' = [m_items EXCEPT ![media] = {items[i].title : i \in DOMAIN items}]
  /\ items' = <<>> /\ m' = 1
  /\ IF feed <= NFeeds THEN feed' = feed + 1 /\ pc' = "leech"
                       ELSE feed' = 1 /\ pc' = "sleep"
  /\ UNCHANGED <<dbVars, content, notified, environment>>
RefreshAdds ==
  /\ pc = "scan"
  /\ m \notin DOMAIN items
  /\ m_items' = [m_items EXCEPT ![media] = @ \cup {items[i].title : i \in DOMAIN items}]
  /\ items' = <<>> /\ m' = 1
  /\ IF feed < NFeeds THEN feed' = feed + 1 /\ pc' = "leech"
                      ELSE feed' = 1 /\ pc' = "sleep"
  /\ UNCHANGED <<dbVars, content, notified, environment>>

\* After the last item m_items becomes the items of this feed; then the next
\* feed, or the end of get_feeds.
Refresh ==
  /\ pc = "scan"
  /\ m \notin DOMAIN items
  /\ m_items' = [m_items EXCEPT ![media] = {items[i].title : i \in DOMAIN items}]
  /\ items' = <<>> /\ m' = 1
  /\ IF feed < NFeeds THEN feed' = feed + 1 /\ pc' = "leech"
                      ELSE feed' = 1 /\ pc' = "sleep"
  /\ UNCHANGED <<dbVars, content, notified, environment>>

\* watch: the next cycle.
Cycle ==
  /\ pc = "sleep"
  /\ pc' = "leech"
  /\ UNCHANGED <<dbVars, inMemory, notified, environment>>

-----------------------------------------------------------------------------
(* The surroundings *)

Crash ==
  /\ pc # "down"
  /\ crashes < MaxCrashes
  /\ crashes' = crashes + 1
  /\ ProcessGone
  /\ UNCHANGED <<dbFaults, published, badFeeds, notified, netFaults>>

Publish ==
  /\ \E f \in Feeds : \E edition \in Editions[f] :
       published' = [published EXCEPT ![f] = edition]
  /\ UNCHANGED <<dbVars, procVars, badFeeds, notified, netFaults, crashes>>

InitDatabase ==
  OpenDatabase \/ CreateNewspaperTable \/ CreateArticleTable \/ InitNewspapers
VisitFeed == Leech \/ LeechThrows \/ Refresh \/ Cycle
ScanItem == ScanKnown \/ ScanStored \/ ScanNew
StoreItem == Retrieve \/ RetrieveThrows \/ Insert \/ InsertFails \/ SelectUid

Process == InitDatabase \/ VisitFeed \/ ScanItem \/ StoreItem

Next == Start \/ Process \/ Crash \/ Publish

Spec == Init /\ [][Next]_vars

\* The thread takes its steps: downloads end (nothing in http_client bounds
\* them, the servers have to), and the scheduler runs it.  Nothing restarts
\* the process, so Start is not fair.
FairSpec == Spec /\ WF_vars(Process)

-----------------------------------------------------------------------------
(* Properties *)

\* No article is stored twice, whatever fails and wherever the process dies:
\* the test in get_feeds and the insert are separate statements and m_items is
\* lost with the process, so only the table can tell.
UniqueTitles ==
  \A u, v \in DOMAIN article : article[u].title = article[v].title => u = v

\* The uid given to new_article is the row of the announced item, and later
\* articles are announced under greater uids, so no uid is announced twice.
ValidUid(n) == n.uid # NoUid
NotificationsInOrder ==
  /\ \A i \in DOMAIN notified : ValidUid(notified[i]) =>
       /\ notified[i].uid \in DOMAIN article
       /\ article[notified[i].uid].title = notified[i].title
  /\ \A i, j \in DOMAIN notified :
       i < j /\ ValidUid(notified[i]) /\ ValidUid(notified[j])
         => notified[i].uid < notified[j].uid

\* As long as no statement was rejected, an item m_items makes get_feeds skip
\* is in the database: the cache never hides an article that is not stored.
CacheSound ==
  dbFaults = 0 /\ Usable =>
    \A name \in Media : m_items[name] \subseteq StoredTitles

\* Each row that subscribers were never told of cost a rejected statement or a
\* kill of its own: neither a std::string that ends the process, nor a restart
\* that finds the row stored, nor the loop loses an announcement.  And each
\* announcement without uid cost a rejected statement: a process whose database
\* cannot be used announces nothing, as exist() = -1 keeps it from insert().
Announced == {notified[i].uid : i \in DOMAIN notified}
Pending == IF pc = "select" THEN {Len(article)} ELSE {}
Lost == DOMAIN article \ (Announced \cup Pending)
Nameless == {i \in DOMAIN notified : notified[i].uid = NoUid}
LostForFaults == Cardinality(Lost) <= dbFaults + crashes
NamelessForFaults == Cardinality(Nameless) <= dbFaults
EachLossHasAFault == LostForFaults /\ NamelessForFaults

\* One feed address that does not parse ends every run of the process at that
\* feed: no article that only later feeds carry is ever stored.
TitlesOf(edition) == {edition[i].title : i \in DOMAIN edition}
Reachable == {f \in Feeds : \A b \in badFeeds : f < b}
Carried(f) ==
  LET carried == (UNION {TitlesOf(edition) : edition \in Editions[f]}) \cap Titles
  IN carried \cup UNION {ShortTitles[t] : t \in carried}
BeyondBadFeedNothingStored ==
  StoredTitles \subseteq UNION {Carried(f) : f \in Reachable}

\* What a process leaves in a new file is all the tables there will ever be: an
\* init that was interrupted, or whose CREATE TABLE was rejected, is resumed by
\* no later start, because init only asks whether the file exists.
InterruptedInitIsFinal ==
  \A T \in SUBSET {"newspaper", "article"} :
    [](pc = "down" /\ dbFile /\ tables = T => [](tables = T))

\* The database and the announcements implement ArticleArchive: rows are only
\* ever added, each title once, and announced at most once and in order, through
\* every failure, exception, kill and restart.
Recorded == [u \in DOMAIN article |->
               [title |-> article[u].title, content |-> article[u].content]]
Archive == INSTANCE ArticleArchive WITH
  archive <- Recorded, announced <- Announced \ {NoUid}
ImplementsArchive == Archive!Spec

\* An item that stays in its feed is stored, provided the database stays usable
\* from some point on: a truncated download or a restart delays it only.  A
\* rejected statement delays it only if another feed of the newspaper stays
\* without the item, so that m_items forgets it.  In a newspaper of one feed, or
\* whose feeds all carry it, it may then be lost for good (NewItemsAreDownloaded).
Forgotten(f, t) ==
  \E g \in Feeds : MediaOf[g] = MediaOf[f] /\ <>[](t \notin TitlesOf(published[g]))
EventuallyStored ==
  \A f \in Feeds : \A t \in Titles :
    /\ <>[](Usable /\ t \in TitlesOf(published[f]))
    /\ [](dbFaults = 0) \/ Forgotten(f, t)
    => <>(t \in StoredTitles)

-----------------------------------------------------------------------------
(* The inductive invariant behind the safety properties *)

\* Between exist() and the insert the title stays out of the table, which can be
\* used.
NotStoredYet == pc \in {"retrieve", "insert"} => Usable /\ title \notin StoredTitles

\* Between the insert and the announcement the item is the last row, and every
\* earlier announcement was about an earlier row.
JustStored ==
  pc = "select" =>
    /\ Usable
    /\ article # <<>>
    /\ article[Len(article)].title = title
    /\ \A i \in DOMAIN notified :
         ValidUid(notified[i]) => notified[i].uid < Len(article)

\* m_items and the loop variables are set by get_feeds only, after init.
MemoryStartsEmpty ==
  /\ pc \in {"down", "open", "createNewspaper", "createArticle", "newspapers"} =>
       NothingInMemory
  /\ pc \in {"leech", "sleep"} => items = <<>> /\ m = 1

\* Without a rejected statement the items before the current one are stored.
ScannedAreStored ==
  dbFaults = 0 /\ Usable /\ pc \in {"scan", "retrieve", "insert", "select"} =>
    \A i \in DOMAIN items : i < m => items[i].title \in StoredTitles

\* Holds in every reachable state and is preserved by every step.
Inv ==
  /\ UniqueTitles /\ NotStoredYet /\ JustStored
  /\ NotificationsInOrder
  /\ MemoryStartsEmpty /\ ScannedAreStored /\ CacheSound
  /\ LostForFaults

\* The loops never stand behind a bad feed, and what the visitor collected is
\* carried by the feed they stand at.
OnlyCarried ==
  /\ \A f \in Feeds : published[f] \in Editions[f]
  /\ \A b \in badFeeds : feed <= b
  /\ pc \in {"scan", "retrieve", "insert", "select"} =>
       /\ feed \in Reachable
       /\ \A i \in DOMAIN items : items[i].title \in Carried(feed)
  /\ BeyondBadFeedNothingStored

-----------------------------------------------------------------------------
(* What the code's comments and messages say, and the code does not do *)

\* feed_watcher.cpp:195: items that are not in m_items "are new and shall be
\* downloaded": when the loop over a feed ends they are in the database.
NewItemsAreDownloaded ==
  [][Refresh => \A i \in DOMAIN items :
       items[i].title \in m_items[media] \cup StoredTitles]_vars

\* db_access.cpp:69: "Init newspaper database" stores the newspapers of the feeds
\* file, so that db_article::insert finds the one an article belongs to.
NewspapersAreStored ==
  [][InitNewspapers /\ HasTable("newspaper") => newspaper' = Media]_vars
=============================================================================
